---------------------------- MODULE AccountsProofs ----------------------------
(***************************************************************************)
(* Proofs about UserAccounts and Onboarding.                               *)
(*                                                                         *)
(* UserAccounts.  AccountsInv says, of requests that no other has met and  *)
(* no error has upset, that the map a handler holds is still the stored    *)
(* one, that the password it stores is the mailbox's and that the cache    *)
(* has the stored profile unless a deletion is under way.  The ghosts  *)
(* met, refused and missed name what may upset it.  A step of a request is *)
(* described first by what it does to the request's own operation, step    *)
(* and map; the invariant is preserved by what the description says.       *)
(*                                                                         *)
(* Onboarding.  OnboardingInv says what an activation has left behind it   *)
(* when it is at a place, and that one which is alone with its user        *)
(* creates an object only while there is none.                             *)
(*                                                                         *)
(* At the end: how long a round of the poll takes, and what holds of both  *)
(* components side by side.                                                *)
(***************************************************************************)
EXTENDS MCAccounts, TLAPS

-----------------------------------------------------------------------------
(* UserAccounts *)

\* What the proofs need to know of the handlers.
Begins(o) ==
    CASE o = "get" -> "cacheGet"
      [] o = "onboard" -> "check"
      [] OTHER -> "read"

\* Who stores a mail password, and who changes the LDAP profile.
Mailers == {"onboard", "credentials"}
Profilers == {"profile", "byPk"}

LEMMA HandlerFacts ==
    ASSUME NEW o \in Operations
    PROVE  /\ Handlers[o].first = Begins(o)
           /\ Handlers[o].fields \subseteq Fields
           /\ Handlers[o].drops <=> o \in Profilers
           /\ "mail_imap_password" \in Handlers[o].fields <=> o \in Mailers
           /\ "profile" \in Handlers[o].fields <=> o \in Profilers
<1> USE DEF Handlers, Handler, Begins, Fields, Mailers, Profilers, updatePreferences,
            updateUserPhone2, setAttributes, setAttributesByPk, syncUsers, createMailcowMailbox,
            getCredentials, getAttributes, Operations
<1>1. o \in {"preferences", "setPhone2", "removePhone2", "profile", "byPk", "sync", "onboard",
             "credentials", "get"}
  OBVIOUS
<1>2. CASE o \in {"preferences", "setPhone2", "removePhone2", "sync"}
  BY <1>2
<1>3. CASE o \in {"profile", "byPk"}
  BY <1>3
<1>4. CASE o \in {"onboard", "credentials", "get"}
  BY <1>4
<1> QED
  BY <1>1, <1>2, <1>3, <1>4

LEMMA FirstSteps ==
    ASSUME NEW o \in Operations
    PROVE  /\ Begins(o) \in Steps
           /\ o = "get" => Begins(o) = "cacheGet"
           /\ o = "onboard" => Begins(o) = "check"
           /\ o \notin {"get", "onboard"} => Begins(o) = "read"
<1>1. CASE o = "get"
  BY <1>1 DEF Begins, Steps
<1>2. CASE o = "onboard"
  BY <1>2 DEF Begins, Steps
<1>3. CASE o \notin {"get", "onboard"}
  BY <1>3 DEF Begins, Steps
<1> QED
  BY <1>1, <1>2, <1>3

Request == [op : Operations, at : Steps, seen : Maps]

\* The parts of the type invariant.
DataOK == attrs \in Maps /\ applied \in Maps /\ cached \in Maps \cup {NoCache} /\ mailbox \in Values
RequestsOK == begun \in 0 .. MaxRequests /\ Active \subseteq 1 .. begun /\ req \in [Active -> Request]
GhostsOK ==
    /\ met \subseteq {"writers", "reader"} /\ refused \subseteq Requests
    /\ missed \in BOOLEAN /\ stale \in BOOLEAN

LEMMA AccountTypeParts == TypeOK <=> DataOK /\ RequestsOK /\ GhostsOK
BY DEF TypeOK, DataOK, RequestsOK, GhostsOK, Request

\* Request r goes on with step s and has read map, or is over; the others stay.
Moves(r, s, map) ==
    /\ begun' = begun
    /\ \A p \in Active \ {r} : p \in Active' /\ req'[p] = req[p]
    /\ Active' \subseteq Active
    /\ s = "ended" => r \notin Active'
    /\ s # "ended" => r \in Active' /\ req'[r] = [op |-> req[r].op, at |-> s, seen |-> map]
    /\ req' \in [Active' -> Request]

LEMMA GotoMoves ==
    ASSUME RequestsOK, NEW r \in Active, NEW s \in Steps \cup {"ended"}, Goto(r, s), begun' = begun
    PROVE  Moves(r, s, req[r].seen)
<1>1. CASE s = "ended"
  BY <1>1 DEF Goto, Moves, RequestsOK, Restrict, Active
<1>2. CASE s # "ended"
  <2>1. req' = [req EXCEPT ![r].at = s]
    BY <1>2 DEF Goto
  <2>2. req[r] \in Request
    BY DEF RequestsOK
  <2>3. [req[r] EXCEPT !.at = s] = [op |-> req[r].op, at |-> s, seen |-> req[r].seen]
    BY <2>2 DEF Request
  <2>4. [op |-> req[r].op, at |-> s, seen |-> req[r].seen] \in Request
    BY <2>2, <1>2 DEF Request
  <2> QED
    BY <1>2, <2>1, <2>3, <2>4 DEF Moves, RequestsOK, Active
<1> QED
  BY <1>1, <1>2

LEMMA ReadMoves ==
    ASSUME RequestsOK, NEW r \in Active, NEW s \in Steps, NEW map \in Maps, begun' = begun,
           req' = [req EXCEPT ![r].at = s, ![r].seen = map]
    PROVE  Moves(r, s, map)
<1>1. req[r] \in Request /\ s # "ended"
  BY DEF RequestsOK, Steps
<1>2. [op |-> req[r].op, at |-> s, seen |-> map] \in Request
  BY <1>1 DEF Request
<1>3. req'[r] = [op |-> req[r].op, at |-> s, seen |-> map]
  BY <1>1 DEF Request, RequestsOK
<1> QED
  BY <1>1, <1>2, <1>3 DEF Moves, RequestsOK, Active

Seen(r) == req[r].seen
Op(r) == req[r].op
At(r) == req[r].at

\* Where a request goes, action by action.
LEMMA ActionMoves ==
    ASSUME DataOK, RequestsOK, NEW r \in Active
    PROVE  /\ CacheHit(r) => Moves(r, "ended", Seen(r))
           /\ CacheMiss(r) => Moves(r, "fetch", Seen(r))
           /\ Fetch(r) => Moves(r, "setex", attrs)
           /\ Setex(r) => Moves(r, "ended", Seen(r))
           /\ Read(r) =>
                \/ Op(r) = "credentials" /\ attrs["mail_imap_password"] # NoValue
                      /\ Moves(r, "ended", Seen(r))
                \/ Op(r) = "credentials" /\ attrs["mail_imap_password"] = NoValue
                      /\ Moves(r, "check", attrs)
                \/ Op(r) # "credentials" /\ Moves(r, "patch", attrs)
           /\ Patch(r) =>
                \/ Op(r) \in Profilers /\ Moves(r, "del", Seen(r)) /\ missed' = missed
                \/ Op(r) \in Profilers /\ Moves(r, "ended", Seen(r)) /\ missed' = TRUE
                \/ Op(r) \notin Profilers /\ Moves(r, "ended", Seen(r)) /\ missed' = missed
           /\ Del(r) => \/ Op(r) = "profile" /\ Moves(r, "cacheGet", Seen(r))
                        \/ Op(r) # "profile" /\ Moves(r, "ended", Seen(r))
           /\ Check(r) =>
                \/ mailbox # NoValue /\ Op(r) = "credentials" /\ Moves(r, "reset", Seen(r))
                \/ Moves(r, "add", Seen(r)) \/ Moves(r, "ended", Seen(r))
           /\ Add(r) => \/ Op(r) = "onboard" /\ Moves(r, "read", Seen(r))
                        \/ Op(r) # "onboard" /\ Moves(r, "patch", Seen(r))
                        \/ Moves(r, "ended", Seen(r))
           /\ Reset(r) => Moves(r, "patch", Seen(r)) \/ Moves(r, "ended", Seen(r))
           /\ Throw(r) => Moves(r, "ended", Seen(r))
<1> USE DEF Seen, Op, At
<1>1. req[r].op \in Operations
  BY DEF RequestsOK, Request
<1>2. Handlers[req[r].op].drops <=> req[r].op \in Profilers
  BY <1>1, HandlerFacts
<1>3. \A s \in Steps \cup {"ended"} : Goto(r, s) /\ begun' = begun => Moves(r, s, req[r].seen)
  BY GotoMoves
<1>4. \A s \in Steps : \A map \in Maps :
          req' = [req EXCEPT ![r].at = s, ![r].seen = map] /\ begun' = begun => Moves(r, s, map)
  BY ReadMoves
<1>5. attrs \in Maps
  BY DEF DataOK
<1>6. {"cacheGet", "fetch", "setex", "read", "check", "add", "reset", "patch", "del", "ended"}
          = Steps \cup {"ended"}
  BY DEF Steps
<1>7. ASSUME CacheHit(r) PROVE Moves(r, "ended", Seen(r))
  BY <1>7, <1>3 DEF CacheHit, Answers
<1>8. ASSUME CacheMiss(r) PROVE Moves(r, "fetch", Seen(r))
  BY <1>8, <1>3, <1>6 DEF CacheMiss
<1>9. ASSUME Fetch(r) PROVE Moves(r, "setex", attrs)
  <2>1. req' = [req EXCEPT ![r].at = "setex", ![r].seen = attrs] /\ begun' = begun
    BY <1>9 DEF Fetch
  <2>2. "setex" \in Steps
    BY DEF Steps
  <2> QED
    BY <2>1, <2>2, <1>5, ReadMoves
<1>10. ASSUME Setex(r) PROVE Moves(r, "ended", Seen(r))
  BY <1>10, <1>3 DEF Setex, Answers
<1>11. ASSUME Read(r)
       PROVE  \/ Op(r) = "credentials" /\ attrs["mail_imap_password"] # NoValue
                    /\ Moves(r, "ended", Seen(r))
              \/ Op(r) = "credentials" /\ attrs["mail_imap_password"] = NoValue
                    /\ Moves(r, "check", attrs)
              \/ Op(r) # "credentials" /\ Moves(r, "patch", attrs)
  <2>1. CASE Op(r) = "credentials" /\ attrs["mail_imap_password"] # NoValue
    BY <1>11, <2>1, <1>3 DEF Read, Goes
  <2>2. CASE Op(r) = "credentials" /\ attrs["mail_imap_password"] = NoValue
    <3>1. req' = [req EXCEPT ![r].at = "check", ![r].seen = attrs] /\ begun' = begun
      BY <1>11, <2>2 DEF Read, Goes, RequestsOK
    <3> QED
      BY <2>2, <3>1, <1>5, ReadMoves DEF Steps
  <2>3. CASE Op(r) # "credentials"
    <3>1. req' = [req EXCEPT ![r].at = "patch", ![r].seen = attrs] /\ begun' = begun
      BY <1>11, <2>3 DEF Read, Goes, RequestsOK
    <3> QED
      BY <2>3, <3>1, <1>5, ReadMoves DEF Steps
  <2> QED
    BY <2>1, <2>2, <2>3
<1>12. ASSUME Patch(r)
       PROVE  \/ Op(r) \in Profilers /\ Moves(r, "del", Seen(r)) /\ missed' = missed
              \/ Op(r) \in Profilers /\ Moves(r, "ended", Seen(r)) /\ missed' = TRUE
              \/ Op(r) \notin Profilers /\ Moves(r, "ended", Seen(r)) /\ missed' = missed
  BY <1>12, <1>2, <1>3, <1>6 DEF Patch
<1>13. ASSUME Del(r)
       PROVE  \/ Op(r) = "profile" /\ Moves(r, "cacheGet", Seen(r))
              \/ Op(r) # "profile" /\ Moves(r, "ended", Seen(r))
  BY <1>13, <1>3, <1>6 DEF Del
<1>14. ASSUME Check(r)
       PROVE  \/ mailbox # NoValue /\ Op(r) = "credentials" /\ Moves(r, "reset", Seen(r))
              \/ Moves(r, "add", Seen(r)) \/ Moves(r, "ended", Seen(r))
  BY <1>14, <1>3, <1>6 DEF Check
<1>15. ASSUME Add(r)
       PROVE  \/ Op(r) = "onboard" /\ Moves(r, "read", Seen(r))
              \/ Op(r) # "onboard" /\ Moves(r, "patch", Seen(r))
              \/ Moves(r, "ended", Seen(r))
  BY <1>15, <1>3, <1>6 DEF Add, SetPassword, Refuse
<1>16. ASSUME Reset(r) PROVE Moves(r, "patch", Seen(r)) \/ Moves(r, "ended", Seen(r))
  BY <1>16, <1>3, <1>6 DEF Reset, SetPassword, Refuse
<1>17. ASSUME Throw(r) PROVE Moves(r, "ended", Seen(r))
  BY <1>17, <1>3, <1>6 DEF Throw, ghosts
<1> QED
  BY <1>7, <1>8, <1>9, <1>10, <1>11, <1>12, <1>13, <1>14, <1>15, <1>16, <1>17

\* A request of operation o arrives.
Arrives(o) ==
    LET r == begun + 1
    IN  /\ r \in Requests /\ begun' = r /\ r \notin Active
        /\ Active' = Active \cup {r}
        /\ \A p \in Active : req'[p] = req[p]
        /\ req'[r] = [op |-> o, at |-> Begins(o), seen |-> Unread]
        /\ req' \in [Active' -> Request]
        /\ met \subseteq met' /\ met' \subseteq met \cup {"writers", "reader"}
        /\ o # "get" /\ "writers" \notin met' => \A p \in Active : req[p].op = "get"
        /\ met' = {} => Active = {}

LEMMA BeginArrives ==
    ASSUME RequestsOK, NEW o \in Operations, Begin(o)
    PROVE  Arrives(o)
<1> DEFINE r == begun + 1
           new == [op |-> o, at |-> Begins(o), seen |-> Unread]
<1>1. r \in Requests /\ begun' = r /\ r \notin Active
  BY AccountsAssumption DEF Begin, RequestsOK, Active
<1>2. Handlers[o].first = Begins(o) /\ Begins(o) \in Steps
  BY HandlerFacts, FirstSteps
<1>3. Unread \in Maps
  BY DEF Unread, Maps, Values
<1>4. new \in Request
  BY <1>2, <1>3 DEF Request
<1>5. req' = [p \in Active \cup {r} |-> IF p = r THEN new ELSE req[p]]
  BY <1>2 DEF Begin
<1> HIDE DEF new
<1>6. Active' = Active \cup {r} /\ (\A p \in Active : req'[p] = req[p]) /\ req'[r] = new
  BY <1>1, <1>5 DEF Active
<1>7. req' \in [Active' -> Request]
  BY <1>4, <1>5, <1>6 DEF RequestsOK
<1> DEFINE Rs == {p \in Active : IsReader(req[p].op)}
<1>8. met' = met \cup (IF ~IsReader(o) /\ Active # Rs THEN {"writers"} ELSE {})
                 \cup (IF Rs # {} \/ (IsReader(o) /\ Active # {}) THEN {"reader"} ELSE {})
  BY DEF Begin
<1>9. met \subseteq met' /\ met' \subseteq met \cup {"writers", "reader"}
  BY <1>8
<1>10. o # "get" /\ "writers" \notin met' => \A p \in Active : req[p].op = "get"
  BY <1>8 DEF IsReader
<1>11. met' = {} => Active = {}
  BY <1>8 DEF IsReader
<1> QED
  BY <1>1, <1>6, <1>7, <1>9, <1>10, <1>11 DEF Arrives, new

\* Every step of a request, and the types after it.
LEMMA AccountTypeStep ==
    ASSUME DataOK, RequestsOK, GhostsOK, [Next]_vars
    PROVE  DataOK' /\ RequestsOK' /\ GhostsOK'
<1>1. ASSUME NEW o \in Operations, Begin(o) PROVE DataOK' /\ RequestsOK' /\ GhostsOK'
  <2>1. Arrives(o)
    BY <1>1, BeginArrives
  <2>2. RequestsOK'
    BY <2>1, AccountsAssumption DEF Arrives, RequestsOK, Requests
  <2> QED
    BY <1>1, <2>1, <2>2 DEF Begin, Arrives, DataOK, GhostsOK
<1>2. ASSUME NEW r \in Active, Step(r) PROVE DataOK' /\ RequestsOK' /\ GhostsOK'
  <2>1. PICK s \in Steps \cup {"ended"}, map \in Maps : Moves(r, s, map)
    <3>1. req[r].seen \in Maps /\ attrs \in Maps
      BY DEF RequestsOK, Request, DataOK
    <3> QED
      BY <1>2, <3>1, ActionMoves DEF Step, Seen, Steps
  <2>2. RequestsOK'
    BY <2>1 DEF Moves, RequestsOK
  <2>3. r \in Requests /\ r \in Values /\ NoValue \in Values /\ req[r] \in Request
    BY AccountsAssumption DEF RequestsOK, Values, Requests
  <2>4. GhostsOK'
    <3> USE DEF GhostsOK
    <3>1. CASE CacheHit(r)
      BY <3>1 DEF CacheHit, Answers
    <3>2. CASE Setex(r)
      BY <3>2 DEF Setex, Answers
    <3>3. CASE Patch(r)
      BY <3>3, ActionMoves DEF Patch
    <3>4. CASE Del(r)
      BY <3>4 DEF Del
    <3>5. CASE Add(r) \/ Reset(r)
      BY <2>3, <3>5 DEF Add, Reset, SetPassword, Refuse
    <3> QED
      BY <1>2, <3>1, <3>2, <3>3, <3>4, <3>5
         DEF Step, CacheMiss, Fetch, Read, Goes, Check, Throw, ghosts
  <2>5. DataOK'
    <3> USE DEF DataOK
    <3>1. CASE Setex(r)
      BY <2>3, <3>1 DEF Setex, Request
    <3>2. CASE Patch(r)
      <4>1. \A m \in Maps : Merged(m, r) \in Maps
        BY <2>3 DEF Merged, NewValue, Maps
      <4> QED
        BY <2>3, <3>2, <4>1 DEF Patch, Request
    <3>3. CASE Del(r)
      BY <3>3 DEF Del
    <3>4. CASE Add(r) \/ Reset(r)
      BY <2>3, <3>4 DEF Add, Reset, SetPassword, Refuse
    <3> QED
      BY <1>2, <3>1, <3>2, <3>3, <3>4
         DEF Step, CacheHit, CacheMiss, Fetch, Read, Goes, Check, Throw, ghosts
  <2> QED
    BY <2>2, <2>4, <2>5
<1>3. CASE Expire
  BY <1>3 DEF Expire, DataOK, RequestsOK, GhostsOK, ghosts, Active
<1>4. CASE UNCHANGED vars
  BY <1>4 DEF vars, DataOK, RequestsOK, GhostsOK, Active
<1> QED
  BY <1>1, <1>2, <1>3, <1>4 DEF Next

\* Which steps belong to which operations.
Place(o, s) ==
    /\ o = "get" => s \in {"cacheGet", "fetch", "setex"}
    /\ s \in {"cacheGet", "fetch", "setex"} => o \in {"get", "profile"}
    /\ s = "del" => o \in Profilers
    /\ s \in {"check", "add"} => o \in Mailers
    /\ s = "reset" => o = "credentials"

PlacesOK == \A p \in Active : Place(Op(p), At(p))

\* As long as no two writers have met, there is one at most.
OneWriter ==
    "writers" \notin met => \A p, q \in Active : Op(p) # "get" /\ Op(q) # "get" => p = q

\* An operation at step s will write back the map it has.
Holds(o, s) == s = "patch" \/ (o = "credentials" /\ s \in {"check", "add", "reset"})

\* It will store a password for a mailbox that it has made or opened.
Stores(o, s) == (s = "patch" /\ o \in Mailers) \/ (s = "read" /\ o = "onboard")

\* No writer has met another: the attributes are what they were given last, and a map
\* that will be written back is the current one.
Kept ==
    "writers" \notin met =>
        /\ attrs = applied
        /\ \A p \in Active : Holds(Op(p), At(p)) => Seen(p) = attrs

\* A password that was not refused is stored, or about to be, only for a mailbox that
\* exists.
HasMailbox ==
    /\ attrs["mail_imap_password"] \notin refused \cup {NoValue} => mailbox # NoValue
    /\ \A p \in Active :
           /\ Seen(p)["mail_imap_password"] \notin refused \cup {NoValue} => mailbox # NoValue
           /\ (Stores(Op(p), At(p)) /\ p \notin refused) \/ At(p) = "reset" => mailbox # NoValue

\* No writer has met another: a password that was not refused and is stored, or about to
\* be, is the mailbox's, and getCredentials goes on only while none is stored.
Careful(p, o, s, map, password, bad) ==
    /\ o = "credentials" /\ Holds(o, s) => map["mail_imap_password"] = NoValue
    /\ Stores(o, s) /\ p \notin bad => password = p

SamePassword ==
    "writers" \notin met =>
        /\ attrs["mail_imap_password"] \notin refused \cup {NoValue} =>
               attrs["mail_imap_password"] = mailbox
        /\ \A p \in Active : Careful(p, Op(p), At(p), Seen(p), mailbox, refused)

\* No request has met another: there is one at most.
OneAtATime == met = {} => \A p, q \in Active : p = q

\* No request has met another and no deletion from the cache has failed: what the cache
\* has is current, unless a request is about to delete it.
CacheFresh ==
    met = {} /\ ~missed =>
        /\ ~stale
        /\ cached # NoCache /\ (\A p \in Active : At(p) # "del") =>
               cached["profile"] = attrs["profile"]
        /\ \A p \in Active : At(p) = "setex" => Seen(p)["profile"] = attrs["profile"]

-----------------------------------------------------------------------------
\* What the requests are after a step of one of them, and after an arrival.
LEMMA MoveFacts ==
    ASSUME NEW r \in Active, NEW s, NEW map, Moves(r, s, map)
    PROVE  /\ Active' \subseteq Active
           /\ \A p \in Active' : p # r => Op(p)' = Op(p) /\ At(p)' = At(p) /\ Seen(p)' = Seen(p)
           /\ r \in Active' => s # "ended" /\ Op(r)' = Op(r) /\ At(r)' = s /\ Seen(r)' = map
<1>1. \A p \in Active' : p # r => Op(p)' = Op(p) /\ At(p)' = At(p) /\ Seen(p)' = Seen(p)
  BY DEF Moves, Op, At, Seen
<1>2. r \in Active' => s # "ended" /\ Op(r)' = Op(r) /\ At(r)' = s /\ Seen(r)' = map
  BY DEF Moves, Op, At, Seen
<1>3. Active' \subseteq Active
  BY DEF Moves
<1> QED
  BY <1>1, <1>2, <1>3

LEMMA ArrivalFacts ==
    ASSUME NEW o \in Operations, Arrives(o)
    PROVE  \E r \in Requests :
               /\ r \notin Active /\ Active' = Active \cup {r}
               /\ \A p \in Active : Op(p)' = Op(p) /\ At(p)' = At(p) /\ Seen(p)' = Seen(p)
               /\ Op(r)' = o /\ At(r)' = Begins(o) /\ Seen(r)' = Unread
<1>1. \A p \in Active : Op(p)' = Op(p) /\ At(p)' = At(p) /\ Seen(p)' = Seen(p)
  BY DEF Arrives, Op, At, Seen
<1>2. PICK r \in Requests : r = begun + 1
  BY DEF Arrives
<1>3. r \notin Active /\ Active' = Active \cup {r}
  BY <1>2 DEF Arrives
<1>4. req'[r] = [op |-> o, at |-> Begins(o), seen |-> Unread]
  BY <1>2 DEF Arrives
<1>5. Op(r)' = o /\ At(r)' = Begins(o) /\ Seen(r)' = Unread
  BY <1>4 DEF Op, At, Seen
<1> QED
  BY <1>1, <1>3, <1>5

\* Every other step leaves the requests alone.
Still == \A p \in Active : Op(p)' = Op(p) /\ At(p)' = At(p) /\ Seen(p)' = Seen(p)

LEMMA StillFacts ==
    ASSUME Expire \/ UNCHANGED vars
    PROVE  /\ Active' = Active /\ Still
           /\ attrs' = attrs /\ mailbox' = mailbox /\ applied' = applied /\ met' = met
           /\ refused' = refused /\ missed' = missed /\ stale' = stale
           /\ cached' \in {cached, NoCache}
<1>1. req' = req
  BY DEF Expire, vars
<1>2. Active' = Active /\ Still
  BY <1>1 DEF Active, Still, Op, At, Seen
<1> QED
  BY <1>2 DEF Expire, vars, ghosts

LEMMA MetStays ==
    ASSUME NEW r \in Active, Step(r)
    PROVE  met' = met
BY DEF Step, CacheHit, CacheMiss, Fetch, Setex, Read, Goes, Patch, Del, Check, Add, Reset, Throw, ghosts

LEMMA StepMoves ==
    ASSUME DataOK, RequestsOK, NEW r \in Active, Step(r)
    PROVE  \E s, map : Moves(r, s, map)
BY ActionMoves DEF Step

\* No step takes a request where its operation does not go.
LEMMA PlacesKept ==
    ASSUME DataOK, RequestsOK, PlacesOK, [Next]_vars
    PROVE  PlacesOK'
<1>1. ASSUME NEW o \in Operations, Begin(o) PROVE PlacesOK'
  <2>1. PICK r \in Requests :
             /\ r \notin Active /\ Active' = Active \cup {r}
             /\ \A p \in Active : Op(p)' = Op(p) /\ At(p)' = At(p)
             /\ Op(r)' = o /\ At(r)' = Begins(o)
    BY <1>1, BeginArrives, ArrivalFacts
  <2>2. Place(o, Begins(o))
    BY FirstSteps DEF Place, Mailers, Profilers
  <2> QED
    BY <2>1, <2>2 DEF PlacesOK
<1>2. ASSUME NEW r \in Active, Step(r) PROVE PlacesOK'
  <2>1. \A s, map : Moves(r, s, map) /\ (s # "ended" => Place(Op(r), s)) => PlacesOK'
    BY MoveFacts DEF PlacesOK
  <2>2. Place(Op(r), At(r))
    BY DEF PlacesOK
  <2> USE DEF Place, Mailers, Profilers, At, Op
  <2>3. CASE CacheHit(r) \/ Setex(r) \/ Throw(r)
    BY <2>1, <2>3, ActionMoves
  <2>4. CASE CacheMiss(r)
    BY <2>1, <2>2, <2>4, ActionMoves DEF CacheMiss
  <2>5. CASE Fetch(r)
    BY <2>1, <2>2, <2>5, ActionMoves DEF Fetch
  <2>6. CASE Read(r)
    BY <2>1, <2>2, <2>6, ActionMoves DEF Read, Goes
  <2>7. CASE Patch(r)
    BY <2>1, <2>2, <2>7, ActionMoves DEF Patch
  <2>8. CASE Del(r)
    BY <2>1, <2>2, <2>8, ActionMoves DEF Del
  <2>9. CASE Check(r)
    BY <2>1, <2>2, <2>9, ActionMoves DEF Check
  <2>10. CASE Add(r)
    BY <2>1, <2>2, <2>10, ActionMoves DEF Add
  <2>11. CASE Reset(r)
    BY <2>1, <2>2, <2>11, ActionMoves DEF Reset
  <2> QED
    BY <1>2, <2>3, <2>4, <2>5, <2>6, <2>7, <2>8, <2>9, <2>10, <2>11 DEF Step
<1>3. CASE Expire \/ UNCHANGED vars
  BY <1>3, StillFacts DEF Still, PlacesOK
<1> QED
  BY <1>1, <1>2, <1>3 DEF Next

\* Whoever meets another is noticed when the later of the two arrives.
LEMMA MeetingsNoticed ==
    ASSUME DataOK, RequestsOK, OneWriter, OneAtATime, [Next]_vars
    PROVE  OneWriter' /\ OneAtATime'
<1>1. ASSUME NEW o \in Operations, Begin(o) PROVE OneWriter' /\ OneAtATime'
  <2>1. PICK r \in Requests :
             /\ r \notin Active /\ Active' = Active \cup {r}
             /\ \A p \in Active : Op(p)' = Op(p)
             /\ Op(r)' = o
    BY <1>1, BeginArrives, ArrivalFacts
  <2>2. /\ met \subseteq met'
        /\ o # "get" /\ "writers" \notin met' => \A p \in Active : Op(p) = "get"
        /\ met' = {} => Active = {}
    BY <1>1, BeginArrives DEF Arrives, Op
  <2>3. OneWriter'
    BY <2>1, <2>2 DEF OneWriter
  <2>4. OneAtATime'
    BY <2>1, <2>2 DEF OneAtATime
  <2> QED
    BY <2>3, <2>4
<1>2. ASSUME NEW r \in Active, Step(r) PROVE OneWriter' /\ OneAtATime'
  <2>1. PICK s, map : Moves(r, s, map)
    BY <1>2, StepMoves
  <2> QED
    BY <1>2, <2>1, MoveFacts, MetStays DEF OneWriter, OneAtATime
<1>3. CASE Expire \/ UNCHANGED vars
  BY <1>3, StillFacts DEF Still, OneWriter, OneAtATime
<1> QED
  BY <1>1, <1>2, <1>3 DEF Next

\* Only Patch changes the attributes, and a writer that is alone has the current ones.
LEMMA KeptKept ==
    ASSUME DataOK, RequestsOK, PlacesOK, OneWriter, Kept, [Next]_vars
    PROVE  Kept'
<1>1. ASSUME NEW o \in Operations, Begin(o) PROVE Kept'
  <2>1. PICK r \in Requests :
             /\ r \notin Active /\ Active' = Active \cup {r}
             /\ \A p \in Active : Op(p)' = Op(p) /\ At(p)' = At(p) /\ Seen(p)' = Seen(p)
             /\ Op(r)' = o /\ At(r)' = Begins(o) /\ Seen(r)' = Unread
    BY <1>1, BeginArrives, ArrivalFacts
  <2>2. attrs' = attrs /\ applied' = applied /\ met \subseteq met'
    BY <1>1, BeginArrives DEF Begin, Arrives
  <2>3. ~Holds(o, Begins(o))
    BY FirstSteps DEF Holds
  <2> QED
    BY <2>1, <2>2, <2>3 DEF Kept
<1>2. ASSUME NEW r \in Active, Step(r) PROVE Kept'
  <2>1. met' = met
    BY <1>2, MetStays
  <2>2. ASSUME NEW s, NEW map, Moves(r, s, map), attrs' = attrs, applied' = applied,
               Kept /\ "writers" \notin met /\ Holds(Op(r), s) => map = attrs
        PROVE  Kept'
    BY <2>1, <2>2, MoveFacts DEF Kept
  <2>3. Kept /\ "writers" \notin met /\ Holds(Op(r), At(r)) => Seen(r) = attrs
    BY DEF Kept
  <2>4. Place(Op(r), At(r))
    BY DEF PlacesOK
  <2> USE DEF Holds, At, Op
  <2>5. CASE CacheHit(r)
    BY <2>2, <2>5, ActionMoves DEF CacheHit
  <2>6. CASE CacheMiss(r)
    BY <2>2, <2>6, ActionMoves DEF CacheMiss, ghosts
  <2>7. CASE Fetch(r)
    BY <2>2, <2>7, ActionMoves DEF Fetch, ghosts
  <2>8. CASE Setex(r)
    BY <2>2, <2>8, ActionMoves DEF Setex
  <2>9. CASE Read(r)
    BY <2>2, <2>9, ActionMoves DEF Read, Goes, ghosts
  <2>10. CASE Patch(r)
    <3>1. At(r) = "patch" /\ attrs' = Merged(Seen(r), r) /\ applied' = Merged(applied, r)
      BY <2>10 DEF Patch, Seen
    <3>2. "writers" \notin met => attrs' = applied'
      BY <2>3, <3>1 DEF Kept
    <3>3. Op(r) # "get"
      BY <2>4, <3>1 DEF Place
    <3>4. ASSUME "writers" \notin met, NEW p \in Active, p # r PROVE ~Holds(Op(p), At(p))
      <4>1. Op(p) = "get"
        BY <3>3, <3>4 DEF OneWriter
      <4>2. Place("get", At(p))
        BY <4>1 DEF PlacesOK
      <4> QED
        BY <4>1, <4>2 DEF Place
    <3>5. PICK s, map : Moves(r, s, map) /\ s \in {"del", "ended"}
      BY <2>10, ActionMoves
    <3>6. \A p \in Active' : p # r => p \in Active /\ Op(p)' = Op(p) /\ At(p)' = At(p)
      BY <3>5, MoveFacts
    <3>7. r \in Active' => At(r)' = "del"
      BY <3>5, MoveFacts
    <3> QED
      BY <2>1, <3>2, <3>4, <3>6, <3>7 DEF Kept
  <2>11. CASE Del(r)
    BY <2>2, <2>11, ActionMoves DEF Del
  <2>12. CASE Check(r)
    BY <2>2, <2>3, <2>4, <2>12, ActionMoves DEF Check, ghosts, Place, Mailers
  <2>13. CASE Add(r)
    BY <2>2, <2>3, <2>4, <2>13, ActionMoves DEF Add, Place, Mailers
  <2>14. CASE Reset(r)
    BY <2>2, <2>3, <2>4, <2>14, ActionMoves DEF Reset, Place
  <2>15. CASE Throw(r)
    BY <2>2, <2>15, ActionMoves DEF Throw, ghosts
  <2> QED
    BY <1>2, <2>5, <2>6, <2>7, <2>8, <2>9, <2>10, <2>11, <2>12, <2>13, <2>14, <2>15 DEF Step
<1>3. CASE Expire \/ UNCHANGED vars
  BY <1>3, StillFacts DEF Still, Kept
<1> QED
  BY <1>1, <1>2, <1>3 DEF Next

\* A mailbox is never taken away, and a failure never forgotten; who stores a password
\* that the mailbox does not have was refused.
LEMMA MailboxStays ==
    ASSUME RequestsOK, [Next]_vars
    PROVE  /\ mailbox # NoValue => mailbox' # NoValue
           /\ refused \subseteq refused' /\ (missed => missed')
<1>1. ASSUME NEW o \in Operations, Begin(o)
      PROVE  mailbox' = mailbox /\ refused' = refused /\ missed' = missed
  BY <1>1 DEF Begin
<1>2. ASSUME NEW r \in Active, Step(r)
      PROVE  mailbox' \in {mailbox, r} /\ refused \subseteq refused' /\ (missed => missed')
  <2>1. CASE Add(r) \/ Reset(r)
    BY <2>1 DEF Add, Reset, SetPassword, Refuse
  <2>2. CASE Patch(r) \/ Del(r)
    BY <2>2 DEF Patch, Del
  <2> QED
    BY <1>2, <2>1, <2>2
       DEF Step, CacheHit, CacheMiss, Fetch, Setex, Read, Goes, Check, Throw, ghosts
<1>3. \A r \in Active : r # NoValue
  BY AccountsAssumption DEF RequestsOK
<1>4. CASE Expire \/ UNCHANGED vars
  BY <1>4, StillFacts
<1> QED
  BY <1>1, <1>2, <1>3, <1>4 DEF Next

\* A password is taken, which nothing but a lost answer interrupts, or refused.
LEMMA PasswordSet ==
    ASSUME NEW r \in Active, Add(r) \/ Reset(r)
    PROVE  /\ attrs' = attrs
           /\ \/ mailbox' = r /\ refused' = refused /\ (Add(r) => mailbox = NoValue)
              \/ mailbox' = mailbox /\ refused' = refused \cup {r}
BY DEF Add, Reset, SetPassword, Refuse

\* What Patch writes: the mail password of a handler that stores one is its own, and
\* the profile of one that does not save it stays as it was read.
LEMMA Written ==
    ASSUME RequestsOK, NEW r \in Active, Patch(r)
    PROVE  /\ At(r) = "patch"
           /\ Op(r) \in Mailers => attrs'["mail_imap_password"] = r
           /\ Op(r) \notin Mailers =>
                  attrs'["mail_imap_password"] = Seen(r)["mail_imap_password"]
           /\ Op(r) \notin Profilers => attrs'["profile"] = Seen(r)["profile"]
           /\ mailbox' = mailbox /\ cached' = cached /\ stale' = stale /\ refused' = refused
<1>1. Op(r) \in Operations
  BY DEF RequestsOK, Request, Op
<1>2. attrs' = Merged(Seen(r), r)
  BY DEF Patch, Seen
<1>3. /\ "mail_imap_password" \in Handlers[Op(r)].fields <=> Op(r) \in Mailers
      /\ "profile" \in Handlers[Op(r)].fields <=> Op(r) \in Profilers
  BY <1>1, HandlerFacts
<1>4. "mail_imap_password" \in Fields /\ "profile" \in Fields
  BY DEF Fields
<1>5. Op(r) \in Mailers => NewValue(r) = r
  BY DEF NewValue, Mailers, Op
<1> QED
  BY <1>2, <1>3, <1>4, <1>5 DEF Merged, Op, At, Patch

LEMMA HasMailboxKept ==
    ASSUME DataOK, RequestsOK, PlacesOK, HasMailbox, [Next]_vars
    PROVE  HasMailbox'
<1>1. (mailbox # NoValue => mailbox' # NoValue) /\ refused \subseteq refused'
  BY MailboxStays
<1>2. ASSUME NEW o \in Operations, Begin(o) PROVE HasMailbox'
  <2>1. PICK r \in Requests :
             /\ r \notin Active /\ Active' = Active \cup {r}
             /\ \A p \in Active : Op(p)' = Op(p) /\ At(p)' = At(p) /\ Seen(p)' = Seen(p)
             /\ Op(r)' = o /\ At(r)' = Begins(o) /\ Seen(r)' = Unread
    BY <1>2, BeginArrives, ArrivalFacts
  <2>2. attrs' = attrs /\ mailbox' = mailbox /\ refused' = refused
    BY <1>2 DEF Begin
  <2>3. ~Stores(o, Begins(o)) /\ Begins(o) # "reset" /\ Unread["mail_imap_password"] = NoValue
    BY FirstSteps DEF Stores, Unread, Fields
  <2> QED
    BY <2>1, <2>2, <2>3 DEF HasMailbox
<1>3. ASSUME NEW r \in Active, Step(r) PROVE HasMailbox'
  <2>1. ASSUME NEW s, NEW map, Moves(r, s, map), attrs' = attrs, map \in {Seen(r), attrs},
               (Stores(Op(r), s) /\ r \notin refused') \/ s = "reset" => mailbox' # NoValue
        PROVE  HasMailbox'
    BY <1>1, <2>1, MoveFacts DEF HasMailbox
  <2>2. Place(Op(r), At(r))
    BY DEF PlacesOK
  <2>3. r # NoValue
    BY AccountsAssumption DEF RequestsOK
  <2> USE DEF Stores, At, Op
  <2>4. CASE CacheHit(r)
    BY <2>1, <2>4, ActionMoves DEF CacheHit
  <2>5. CASE CacheMiss(r)
    BY <2>1, <2>5, ActionMoves DEF CacheMiss
  <2>6. CASE Fetch(r)
    BY <2>1, <2>6, ActionMoves DEF Fetch
  <2>7. CASE Setex(r)
    BY <2>1, <2>7, ActionMoves DEF Setex
  <2>8. CASE Read(r)
    <3>1. At(r) = "read" /\ attrs' = attrs /\ mailbox' = mailbox
      BY <2>8 DEF Read, Goes
    <3>2. Op(r) = "onboard" /\ r \notin refused' => mailbox' # NoValue
      BY <1>1, <3>1 DEF HasMailbox
    <3> QED
      BY <2>1, <2>8, <3>1, <3>2, ActionMoves DEF Mailers
  <2>9. CASE Patch(r)
    <3>1. PICK s, map : Moves(r, s, map) /\ s \in {"del", "ended"} /\ map = Seen(r)
      BY <2>9, ActionMoves
    <3>2. Op(r) \in Mailers /\ r \notin refused => mailbox # NoValue
      BY <2>9, Written DEF HasMailbox
    <3>3. refused' = refused
      BY <2>9, Written
    <3>4. attrs'["mail_imap_password"] \notin refused' \cup {NoValue} => mailbox # NoValue
      BY <2>9, <3>2, <3>3, Written DEF HasMailbox
    <3> QED
      BY <1>1, <3>1, <3>3, <3>4, MoveFacts DEF HasMailbox
  <2>10. CASE Del(r)
    BY <2>1, <2>10, ActionMoves DEF Del
  <2>11. CASE Check(r)
    BY <1>1, <2>1, <2>11, ActionMoves DEF Check
  <2>12. CASE Add(r)
    <3>1. attrs' = attrs /\ (r \notin refused' => mailbox' # NoValue)
      BY <2>3, <2>12, PasswordSet
    <3> QED
      BY <2>1, <2>12, <3>1, ActionMoves
  <2>13. CASE Reset(r)
    <3>1. attrs' = attrs /\ (r \notin refused' => mailbox' # NoValue)
      BY <2>3, <2>13, PasswordSet
    <3> QED
      BY <2>1, <2>13, <3>1, ActionMoves
  <2>14. CASE Throw(r)
    BY <2>1, <2>14, ActionMoves DEF Throw
  <2> QED
    BY <1>3, <2>4, <2>5, <2>6, <2>7, <2>8, <2>9, <2>10, <2>11, <2>12, <2>13, <2>14 DEF Step
<1>4. CASE Expire \/ UNCHANGED vars
  BY <1>4, StillFacts DEF Still, HasMailbox
<1> QED
  BY <1>2, <1>3, <1>4 DEF Next

LEMMA SamePasswordKept ==
    ASSUME DataOK, RequestsOK, PlacesOK, OneWriter, Kept, SamePassword, [Next]_vars
    PROVE  SamePassword'
<1>1. refused \subseteq refused'
  BY MailboxStays
<1>2. ASSUME NEW o \in Operations, Begin(o) PROVE SamePassword'
  <2>1. PICK r \in Requests :
             /\ r \notin Active /\ Active' = Active \cup {r}
             /\ \A p \in Active : Op(p)' = Op(p) /\ At(p)' = At(p) /\ Seen(p)' = Seen(p)
             /\ Op(r)' = o /\ At(r)' = Begins(o) /\ Seen(r)' = Unread
    BY <1>2, BeginArrives, ArrivalFacts
  <2>2. attrs' = attrs /\ mailbox' = mailbox /\ refused' = refused /\ met \subseteq met'
    BY <1>2, BeginArrives DEF Begin, Arrives
  <2>3. Careful(r, o, Begins(o), Unread, mailbox, refused)
    BY FirstSteps DEF Careful, Stores, Holds
  <2> QED
    BY <2>1, <2>2, <2>3 DEF SamePassword
<1>3. ASSUME NEW r \in Active, Step(r) PROVE SamePassword'
  <2>1. met' = met
    BY <1>3, MetStays
  <2> DEFINE Calm == "writers" \notin met
  \* A step that changes neither password.
  <2>2. ASSUME NEW s, NEW map, Moves(r, s, map), attrs' = attrs, mailbox' = mailbox,
               Calm /\ s # "ended" => Careful(r, Op(r), s, map, mailbox, refused')
        PROVE  SamePassword'
    BY <1>1, <2>1, <2>2, MoveFacts DEF SamePassword, Careful
  \* A step of a writer, whom nobody disturbs.
  <2>3. ASSUME Op(r) # "get", NEW s, NEW map, Moves(r, s, map),
               Calm /\ s # "ended" => Careful(r, Op(r), s, map, mailbox', refused'),
               Calm /\ attrs'["mail_imap_password"] \notin refused' \cup {NoValue} =>
                   attrs'["mail_imap_password"] = mailbox'
        PROVE  SamePassword'
    <3>1. ASSUME Calm, NEW p \in Active, p # r
          PROVE  Careful(p, Op(p), At(p), Seen(p), mailbox', refused')
      <4>1. Op(p) = "get"
        BY <2>3, <3>1 DEF OneWriter
      <4>2. Place("get", At(p))
        BY <4>1 DEF PlacesOK
      <4> QED
        BY <4>1, <4>2 DEF Place, Careful, Holds, Stores, Mailers
    <3> QED
      BY <1>1, <2>1, <2>3, <3>1, MoveFacts DEF SamePassword
  <2>4. Place(Op(r), At(r))
    BY DEF PlacesOK
  <2>5. Calm => /\ Careful(r, Op(r), At(r), Seen(r), mailbox, refused)
                /\ attrs["mail_imap_password"] \notin refused \cup {NoValue} =>
                       attrs["mail_imap_password"] = mailbox
                /\ Holds(Op(r), At(r)) => Seen(r) = attrs
    BY <1>1 DEF SamePassword, Kept
  <2> HIDE DEF Calm
  <2>6. r # NoValue
    BY AccountsAssumption DEF RequestsOK
  <2> USE DEF Careful, Stores, Holds
  <2>7. CASE CacheHit(r)
    BY <2>2, <2>7, ActionMoves DEF CacheHit
  <2>8. CASE CacheMiss(r)
    BY <2>2, <2>8, ActionMoves DEF CacheMiss
  <2>9. CASE Fetch(r)
    BY <2>2, <2>9, ActionMoves DEF Fetch
  <2>10. CASE Setex(r)
    BY <2>2, <2>10, ActionMoves DEF Setex
  <2>11. CASE Read(r)
    <3>1. At(r) = "read" /\ attrs' = attrs /\ mailbox' = mailbox
      BY <2>11 DEF Read, Goes, At
    <3>2. CASE Op(r) = "credentials"
      BY <2>2, <2>11, <3>1, <3>2, ActionMoves DEF Mailers
    <3>3. CASE Op(r) # "credentials"
      BY <1>1, <2>2, <2>5, <2>11, <3>1, <3>3, ActionMoves DEF Mailers
    <3> QED
      BY <3>2, <3>3
  <2>12. CASE Patch(r)
    <3>1. Op(r) # "get"
      BY <2>4, <2>12, Written DEF Place
    <3>2. PICK s, map : Moves(r, s, map) /\ s \in {"del", "ended"} /\ map = Seen(r)
      BY <2>12, ActionMoves
    <3>3. Careful(r, Op(r), "del", Seen(r), mailbox', refused')
      BY DEF Mailers
    <3>4. Calm /\ attrs'["mail_imap_password"] \notin refused' \cup {NoValue} =>
              attrs'["mail_imap_password"] = mailbox'
      BY <2>5, <2>12, Written
    <3> QED
      BY <2>3, <3>1, <3>2, <3>3, <3>4
  <2>13. CASE Del(r)
    BY <2>2, <2>13, ActionMoves DEF Del
  <2>14. CASE Check(r)
    <3>1. At(r) = "check" /\ attrs' = attrs /\ mailbox' = mailbox
      BY <2>14 DEF Check, At
    <3>2. Op(r) = "credentials" /\ Calm => Seen(r)["mail_imap_password"] = NoValue
      BY <2>5, <3>1
    <3>3. PICK s \in {"add", "reset", "ended"} : Moves(r, s, Seen(r))
      BY <2>14, ActionMoves
    <3> QED
      BY <2>2, <3>1, <3>2, <3>3
  <2>15. CASE Add(r)
    <3>1. At(r) = "add" /\ Op(r) \in Mailers
      BY <2>4, <2>15 DEF Add, At, Place
    <3>2. /\ attrs' = attrs
          /\ \/ mailbox' = r /\ refused' = refused /\ mailbox = NoValue
             \/ mailbox' = mailbox /\ refused' = refused \cup {r}
      BY <2>15, PasswordSet
    <3>3. Calm /\ Op(r) = "credentials" => Seen(r)["mail_imap_password"] = NoValue
      BY <2>5, <3>1
    <3>4. Calm /\ attrs'["mail_imap_password"] \notin refused' \cup {NoValue} =>
              attrs'["mail_imap_password"] = mailbox'
      BY <2>5, <3>2
    <3>5. \A s \in {"read", "patch"} : Calm => Careful(r, Op(r), s, Seen(r), mailbox', refused')
      BY <3>2, <3>3
    <3>6. Op(r) # "get"
      BY <3>1 DEF Mailers
    <3>7. PICK s \in {"read", "patch", "ended"} : Moves(r, s, Seen(r))
      BY <2>15, ActionMoves
    <3> QED
      BY <2>3, <3>4, <3>5, <3>6, <3>7
  <2>16. CASE Reset(r)
    <3>1. At(r) = "reset" /\ Op(r) = "credentials"
      BY <2>4, <2>16 DEF Reset, At, Place
    <3>2. /\ attrs' = attrs
          /\ (mailbox' = r /\ refused' = refused) \/ (mailbox' = mailbox /\ refused' = refused \cup {r})
      BY <2>16, PasswordSet
    <3>3. Calm => Seen(r)["mail_imap_password"] = NoValue /\ Seen(r) = attrs
      BY <2>5, <3>1
    <3>4. Calm => Careful(r, Op(r), "patch", Seen(r), mailbox', refused')
      BY <3>1, <3>2, <3>3
    <3>5. PICK s \in {"patch", "ended"} : Moves(r, s, Seen(r))
      BY <2>16, ActionMoves
    <3> QED
      BY <2>3, <3>1, <3>2, <3>3, <3>4, <3>5
  <2>17. CASE Throw(r)
    BY <2>2, <2>17, ActionMoves DEF Throw
  <2> QED
    BY <1>3, <2>7, <2>8, <2>9, <2>10, <2>11, <2>12, <2>13, <2>14, <2>15, <2>16, <2>17 DEF Step
<1>4. CASE Expire \/ UNCHANGED vars
  BY <1>4, StillFacts DEF Still, SamePassword
<1> QED
  BY <1>2, <1>3, <1>4 DEF Next

LEMMA CacheFreshKept ==
    ASSUME DataOK, RequestsOK, GhostsOK, PlacesOK, OneAtATime, Kept, CacheFresh,
           [Next]_vars
    PROVE  CacheFresh'
<1>1. missed => missed'
  BY MailboxStays
<1>2. ASSUME NEW o \in Operations, Begin(o) PROVE CacheFresh'
  <2>1. PICK r \in Requests :
             /\ r \notin Active /\ Active' = Active \cup {r}
             /\ \A p \in Active : Op(p)' = Op(p) /\ At(p)' = At(p) /\ Seen(p)' = Seen(p)
             /\ Op(r)' = o /\ At(r)' = Begins(o) /\ Seen(r)' = Unread
    BY <1>2, BeginArrives, ArrivalFacts
  <2>2. attrs' = attrs /\ cached' = cached /\ missed' = missed /\ stale' = stale
    BY <1>2 DEF Begin
  <2>3. met \subseteq met' /\ (met' = {} => Active = {})
    BY <1>2, BeginArrives DEF Arrives
  <2>4. Begins(o) \notin {"del", "setex"}
    BY FirstSteps
  <2> QED
    BY <2>1, <2>2, <2>3, <2>4 DEF CacheFresh
<1>3. ASSUME NEW r \in Active, Step(r) PROVE CacheFresh'
  <2>1. met' = met
    BY <1>3, MetStays
  <2> DEFINE Calm == met = {} /\ ~missed'
  <2>2. ASSUME NEW s, NEW map, Moves(r, s, map),
               Calm => /\ ~stale'
                       /\ cached' # NoCache /\ s # "del" => cached'["profile"] = attrs'["profile"]
                       /\ s = "setex" => map["profile"] = attrs'["profile"]
        PROVE  CacheFresh'
    <3>1. Calm => Active \subseteq {r}
      BY DEF OneAtATime
    <3>2. Active' \subseteq Active /\ (r \in Active' => At(r)' = s /\ Seen(r)' = map)
      BY <2>2, MoveFacts
    <3>3. CASE r \in Active'
      BY <2>1, <2>2, <3>1, <3>2, <3>3 DEF CacheFresh
    <3>4. CASE r \notin Active'
      <4>1. s # "del"
        BY <2>2, <3>4 DEF Moves
      <4> QED
        BY <2>1, <2>2, <3>1, <3>2, <3>4, <4>1 DEF CacheFresh
    <3> QED
      BY <3>3, <3>4
  <2>3. Calm => /\ ~stale
                /\ cached # NoCache /\ At(r) # "del" => cached["profile"] = attrs["profile"]
                /\ At(r) = "setex" => Seen(r)["profile"] = attrs["profile"]
    <3>1. Calm => Active = {r}
      BY DEF OneAtATime
    <3> QED
      BY <1>1, <3>1 DEF CacheFresh
  <2>4. Calm /\ At(r) = "patch" => Seen(r) = attrs
    BY DEF Kept, Holds
  <2>5. stale \in BOOLEAN
    BY DEF GhostsOK
  <2> USE DEF At
  <2>7. CASE CacheHit(r)
    <3>1. At(r) = "cacheGet" /\ cached # NoCache /\ attrs' = attrs /\ cached' = cached
      BY <2>7 DEF CacheHit
    <3>2. stale' = (stale \/ cached["profile"] # attrs["profile"])
      BY <2>7 DEF CacheHit, Answers
    <3>3. Calm => ~stale'
      BY <2>3, <3>1, <3>2
    <3>4. Moves(r, "ended", Seen(r))
      BY <2>7, ActionMoves
    <3> QED
      BY <2>2, <2>3, <3>1, <3>3, <3>4
  <2>8. CASE CacheMiss(r)
    BY <2>2, <2>3, <2>8, ActionMoves DEF CacheMiss, ghosts
  <2>9. CASE Fetch(r)
    BY <2>2, <2>3, <2>9, ActionMoves DEF Fetch, ghosts
  <2>10. CASE Setex(r)
    <3>1. At(r) = "setex" /\ attrs' = attrs /\ cached' \in {Seen(r), cached}
      BY <2>10 DEF Setex, Seen
    <3>2. stale' = (stale \/ Seen(r)["profile"] # attrs["profile"])
      BY <2>10 DEF Setex, Answers, Seen
    <3>3. Calm => ~stale'
      BY <2>3, <3>1, <3>2
    <3>4. Moves(r, "ended", Seen(r))
      BY <2>10, ActionMoves
    <3> QED
      BY <2>2, <2>3, <3>1, <3>3, <3>4
  <2>11. CASE Read(r)
    <3>1. At(r) = "read" /\ attrs' = attrs /\ cached' = cached /\ stale' = stale
      BY <2>11 DEF Read, Goes, ghosts
    <3>2. PICK s \in {"ended", "check", "patch"}, map \in {Seen(r), attrs} : Moves(r, s, map)
      BY <2>11, ActionMoves
    <3> QED
      BY <2>2, <2>3, <3>1, <3>2
  <2>12. CASE Patch(r)
    <3>1. /\ At(r) = "patch" /\ cached' = cached /\ stale' = stale
          /\ Op(r) \notin Profilers => attrs'["profile"] = Seen(r)["profile"]
      BY <2>12, Written
    <3>2. CASE Op(r) \notin Profilers
      <4>1. Moves(r, "ended", Seen(r))
        BY <2>12, <3>2, ActionMoves
      <4> QED
        BY <2>2, <2>3, <2>4, <3>1, <3>2, <4>1
    <3>3. CASE Op(r) \in Profilers
      <4>1. PICK s \in {"del", "ended"} :
                 Moves(r, s, Seen(r)) /\ (s = "ended" => missed')
        BY <2>12, <3>3, ActionMoves
      <4> QED
        BY <2>2, <2>3, <3>1, <4>1
    <3> QED
      BY <3>2, <3>3
  <2>13. CASE Del(r)
    <3>1. attrs' = attrs /\ stale' = stale /\ (cached' = NoCache \/ missed')
      BY <2>13 DEF Del
    <3>2. PICK s \in {"cacheGet", "ended"} : Moves(r, s, Seen(r))
      BY <2>13, ActionMoves
    <3> QED
      BY <2>2, <2>3, <3>1, <3>2
  <2>14. CASE Check(r)
    <3>1. At(r) = "check" /\ attrs' = attrs /\ cached' = cached /\ stale' = stale
      BY <2>14 DEF Check, ghosts
    <3>2. PICK s \in {"add", "reset", "ended"} : Moves(r, s, Seen(r))
      BY <2>14, ActionMoves
    <3> QED
      BY <2>2, <2>3, <3>1, <3>2
  <2>15. CASE Add(r)
    <3>1. At(r) = "add" /\ attrs' = attrs /\ cached' = cached /\ stale' = stale
      BY <2>15 DEF Add
    <3>2. PICK s \in {"read", "patch", "ended"} : Moves(r, s, Seen(r))
      BY <2>15, ActionMoves
    <3> QED
      BY <2>2, <2>3, <3>1, <3>2
  <2>16. CASE Reset(r)
    <3>1. At(r) = "reset" /\ attrs' = attrs /\ cached' = cached /\ stale' = stale
      BY <2>16 DEF Reset
    <3>2. PICK s \in {"patch", "ended"} : Moves(r, s, Seen(r))
      BY <2>16, ActionMoves
    <3> QED
      BY <2>2, <2>3, <3>1, <3>2
  <2>17. CASE Throw(r)
    <3>1. At(r) # "del" /\ attrs' = attrs /\ cached' = cached /\ stale' = stale
      BY <2>17 DEF Throw, ghosts
    <3>2. Moves(r, "ended", Seen(r))
      BY <2>17, ActionMoves
    <3> QED
      BY <2>2, <2>3, <3>1, <3>2
  <2> QED
    BY <1>3, <2>7, <2>8, <2>9, <2>10, <2>11, <2>12, <2>13, <2>14, <2>15, <2>16, <2>17 DEF Step
<1>4. CASE Expire \/ UNCHANGED vars
  BY <1>4, StillFacts DEF Still, CacheFresh
<1> QED
  BY <1>2, <1>3, <1>4 DEF Next

\* The inductive invariant of UserAccounts.
AccountsInv ==
    /\ TypeOK
    /\ PlacesOK /\ OneWriter /\ Kept
    /\ HasMailbox /\ SamePassword
    /\ OneAtATime /\ CacheFresh

\* The inductive invariant holds for any number of requests: it says where each
\* operation may be, what it may know of the attributes and the mailbox there, and what
\* the cache may hold.
THEOREM AccountsInvariance == Spec => []AccountsInv
<1>1. Init => AccountsInv
  <2> SUFFICES ASSUME Init PROVE AccountsInv
    OBVIOUS
  <2>1. Active = {}
    BY DEF Init, Active
  <2>2. "mail_imap_password" \in Fields
    BY DEF Fields
  <2>3. DataOK
    BY AccountsAssumption DEF Init, DataOK, Maps, Values
  <2>4. RequestsOK
    <3>1. req \in [Active -> Request]
      BY <2>1 DEF Init, Active
    <3>2. begun \in 0 .. MaxRequests
      BY AccountsAssumption DEF Init
    <3> QED
      BY <2>1, <3>1, <3>2 DEF RequestsOK
  <2>5. GhostsOK
    BY DEF Init, GhostsOK
  <2>6. PlacesOK /\ OneWriter /\ OneAtATime
    BY <2>1 DEF PlacesOK, OneWriter, OneAtATime
  <2>7. Kept /\ CacheFresh
    BY <2>1 DEF Init, Kept, CacheFresh
  <2>8. attrs["mail_imap_password"] = mailbox
    BY <2>2 DEF Init
  <2>9. HasMailbox /\ SamePassword
    BY <2>1, <2>8 DEF HasMailbox, SamePassword
  <2> QED
    BY <2>3, <2>4, <2>5, <2>6, <2>7, <2>9, AccountTypeParts DEF AccountsInv
<1>2. AccountsInv /\ [Next]_vars => AccountsInv'
  <2> SUFFICES ASSUME AccountsInv, [Next]_vars PROVE AccountsInv'
    OBVIOUS
  <2>1. DataOK /\ RequestsOK /\ GhostsOK
    BY AccountTypeParts DEF AccountsInv
  <2>2. DataOK' /\ RequestsOK' /\ GhostsOK'
    BY <2>1, AccountTypeStep
  <2>3. TypeOK'
    BY <2>2 DEF TypeOK, DataOK, RequestsOK, GhostsOK, Request
  <2>4. PlacesOK' /\ OneWriter' /\ OneAtATime'
    BY <2>1, PlacesKept, MeetingsNoticed DEF AccountsInv
  <2>5. Kept' /\ HasMailbox'
    BY <2>1, KeptKept, HasMailboxKept DEF AccountsInv
  <2>6. SamePassword' /\ CacheFresh'
    BY <2>1, SamePasswordKept, CacheFreshKept DEF AccountsInv
  <2> QED
    BY <2>3, <2>4, <2>5, <2>6 DEF AccountsInv
<1> QED
  BY <1>1, <1>2, PTL DEF Spec

\* Every variable of UserAccounts keeps its type.
THEOREM AccountsTyped == Spec => []TypeOK
<1>1. AccountsInv => TypeOK
  BY DEF AccountsInv
<1> QED
  BY <1>1, AccountsInvariance, PTL

\* A field of the attributes keeps the value it was given last, whichever of the handlers
\* wrote it and whatever failed, as long as no two writers run at once.
THEOREM NothingLost == Spec => []AttributesKept
<1>1. AccountsInv => AttributesKept
  BY DEF AccountsInv, Kept, AttributesKept
<1> QED
  BY <1>1, AccountsInvariance, PTL

\* The mail password that is stored is the one of the mailbox, after any mix of
\* onboardings, requests and failures in between, and belongs to a mailbox that exists
\* even when writers overlap, unless Mailcow refused that password in the body of an
\* answer that was taken for a success.
THEOREM PasswordOpens == Spec => []PasswordUsable
<1>1. AccountsInv => PasswordUsable
  BY DEF AccountsInv, HasMailbox, SamePassword, PasswordUsable
<1> QED
  BY <1>1, AccountsInvariance, PTL

\* With requests one after the other and a Redis that answers, no reader is given a
\* profile that is older than the last one saved.
THEOREM ReadersUpToDate == Spec => []ProfileReadsFresh
<1>1. AccountsInv => ProfileReadsFresh
  BY DEF AccountsInv, CacheFresh, ProfileReadsFresh
<1> QED
  BY <1>1, AccountsInvariance, PTL

-----------------------------------------------------------------------------
(* Onboarding *)

Everywhere == {"consume", "export"}

\* The parts of the type invariant.
ObjectsOK ==
    /\ dirs \in [AllUsers -> {{}, {"consume"}, Everywhere}]
    /\ made \in [AllUsers -> [Ensured -> 0 .. MaxMade]]
ActsOK == round \in [Polls -> SUBSET AllUsers] /\ act \in [Procs -> Activations \cup {Idle}]
SetsOK ==
    /\ known \subseteq AllUsers /\ stored \subseteq AllUsers /\ together \subseteq AllUsers
    /\ called \subseteq Callers
    /\ dirFaults \in 0 .. MaxDirFaults /\ deletes \in 0 .. MaxDeletes

LEMMA OnboardingTypeParts == OnboardingTypeOK <=> ObjectsOK /\ ActsOK /\ SetsOK
BY DEF OnboardingTypeOK, ObjectsOK, ActsOK, SetsOK, Everywhere

Working(p) == act[p] # Idle
Whose(p) == act[p].user
Doing(p) == act[p].at
Posts(p) == act[p].posts
HasPassword(p) == act[p].password

Places == Ensured \cup {"fetch", "store", "attrs"}

\* What there must be of a user before an activation comes to a place.
Needs(s, password) ==
    CASE s = "workflow" -> {"user"}
      [] s = "account" -> {"user", "workflow"}
      [] s = "rule" -> {"user", "workflow", "account"}
      [] s = "attrs" /\ password -> {"user", "workflow", "account", "rule"}
      [] s = "attrs" /\ ~password -> {"user", "workflow"}
      [] OTHER -> {}

\* The calls made for an object are counted while the activation is at the object.
CallsCounted ==
    \A p \in Procs : Working(p) =>
        /\ Doing(p) \notin Ensured => Posts(p) = 0
        /\ Doing(p) \in Ensured => Posts(p) <= CallsFor[Doing(p)]

\* Two activations of one user are known to be together.
MetTogether ==
    \A p, q \in Procs :
        p # q /\ Working(p) /\ Working(q) /\ Whose(p) = Whose(q) => Whose(p) \in together

\* An activation that is alone and creates an object has found none, and there is none.
StillAbsent ==
    \A p \in Procs : Working(p) /\ Posts(p) > 0 /\ Whose(p) \notin together =>
        made[Whose(p)][Doing(p)] = 0

\* An activation has left behind it what it has passed.
Passed ==
    \A p \in Procs : Working(p) =>
        /\ Doing(p) # "fetch" => dirs[Whose(p)] = Everywhere
        /\ Doing(p) \in {"account", "rule"} => HasPassword(p)
        /\ \A o \in Needs(Doing(p), HasPassword(p)) : made[Whose(p)][o] > 0

LEMMA EnsuredFacts ==
    /\ Ensured = {"mailbox", "user", "workflow", "account", "rule"}
    /\ \A o \in Ensured : CallsFor[o] \in {1, 3}
    /\ CallsFor["mailbox"] = 1
BY DEF Ensured, CallsFor

LEMMA NeedsFacts ==
    /\ \A b \in BOOLEAN, s \in {"fetch", "mailbox", "store", "user"} : Needs(s, b) = {}
    /\ \A b \in BOOLEAN :
           /\ Needs("workflow", b) = {"user"}
           /\ Needs("account", b) = {"user", "workflow"}
           /\ Needs("rule", b) = {"user", "workflow", "account"}
    /\ Needs("attrs", TRUE) = {"user", "workflow", "account", "rule"}
    /\ Needs("attrs", FALSE) = {"user", "workflow"}
    /\ \A b \in BOOLEAN, s \in Places : Needs(s, b) \subseteq Ensured
<1>1. \A b \in BOOLEAN, s \in {"fetch", "mailbox", "store", "user"} : Needs(s, b) = {}
  BY DEF Needs
<1>2. \A b \in BOOLEAN :
          /\ Needs("workflow", b) = {"user"}
          /\ Needs("account", b) = {"user", "workflow"}
          /\ Needs("rule", b) = {"user", "workflow", "account"}
  BY DEF Needs
<1>3. Needs("attrs", TRUE) = {"user", "workflow", "account", "rule"}
  BY DEF Needs
<1>4. Needs("attrs", FALSE) = {"user", "workflow"}
  BY DEF Needs
<1>5. \A b \in BOOLEAN, s \in Places : Needs(s, b) \subseteq Ensured
  BY <1>1, <1>2, <1>3, <1>4, EnsuredFacts DEF Places
<1> QED
  BY <1>1, <1>2, <1>3, <1>4, <1>5

\* The next object needs what the last one needed, and the last one.
LEMMA AfterFacts ==
    ASSUME ActsOK, NEW p \in Procs, Working(p), NEW o \in Ensured,
           o \in {"account", "rule"} => HasPassword(p)
    PROVE  /\ After(p, o) \in Places \ {"fetch"}
           /\ After(p, o) \in {"account", "rule"} => HasPassword(p)
           /\ Needs(After(p, o), HasPassword(p)) \subseteq Needs(o, HasPassword(p)) \cup {o}
<1>1. HasPassword(p) \in BOOLEAN
  BY DEF ActsOK, Working, HasPassword, Activations
<1>2. CASE o = "mailbox"
  <2>1. After(p, o) = "user"
    BY <1>2 DEF After
  <2> QED
    BY <1>1, <1>2, <2>1, NeedsFacts, EnsuredFacts DEF Places
<1>3. CASE o = "user"
  <2>1. After(p, o) = "workflow"
    BY <1>3 DEF After
  <2> QED
    BY <1>1, <1>3, <2>1, NeedsFacts, EnsuredFacts DEF Places
<1>4. CASE o = "workflow" /\ HasPassword(p)
  <2>1. After(p, o) = "account"
    BY <1>4 DEF After, HasPassword
  <2> QED
    BY <1>1, <1>4, <2>1, NeedsFacts, EnsuredFacts DEF Places
<1>5. CASE o = "workflow" /\ ~HasPassword(p)
  <2>1. After(p, o) = "attrs"
    BY <1>5 DEF After, HasPassword
  <2> QED
    BY <1>1, <1>5, <2>1, NeedsFacts, EnsuredFacts DEF Places
<1>6. CASE o = "account"
  <2>1. After(p, o) = "rule"
    BY <1>6 DEF After
  <2> QED
    BY <1>1, <1>6, <2>1, NeedsFacts, EnsuredFacts DEF Places
<1>7. CASE o = "rule"
  <2>1. After(p, o) = "attrs"
    BY <1>7 DEF After
  <2> QED
    BY <1>1, <1>7, <2>1, NeedsFacts, EnsuredFacts DEF Places
<1> QED
  BY <1>2, <1>3, <1>4, <1>5, <1>6, <1>7, EnsuredFacts

\* What a creating call does to the objects.
LEMMA CreatedFacts ==
    ASSUME ObjectsOK, ActsOK, NEW p \in Procs, Working(p), Doing(p) \in Ensured
    PROVE  /\ Created(p) \in [AllUsers -> [Ensured -> 0 .. MaxMade]]
           /\ \A u \in AllUsers, o \in Ensured :
                  /\ made[u][o] <= Created(p)[u][o]
                  /\ u # Whose(p) \/ o # Doing(p) => Created(p)[u][o] = made[u][o]
                  /\ Created(p)[u][o] <= made[u][o] + 1
           /\ Posts(p) < CallsFor[Doing(p)] => Created(p) = made
           /\ Posts(p) = CallsFor[Doing(p)] => Created(p)[Whose(p)][Doing(p)] > 0
<1> DEFINE u0 == Whose(p)
           o0 == Doing(p)
           n == made[u0][o0]
<1>1. u0 \in AllUsers /\ Posts(p) \in 0 .. 3
  BY DEF ActsOK, Working, Activations, Whose, Posts
<1>2. n \in 0 .. MaxMade /\ MaxMade = 2
  BY <1>1 DEF ObjectsOK, MaxMade
<1>3. CallsFor[o0] \in Nat
  BY EnsuredFacts
<1>4. Created(p) = IF Posts(p) < CallsFor[o0] \/ n = MaxMade \/ (o0 = "mailbox" /\ n = 1)
                   THEN made ELSE [made EXCEPT ![u0][o0] = n + 1]
  BY DEF Created, Whose, Doing, Posts
<1>5. made \in [AllUsers -> [Ensured -> 0 .. MaxMade]]
  BY DEF ObjectsOK
<1>6. \A u \in AllUsers, o \in Ensured : made[u][o] \in Nat
  BY <1>5 DEF MaxMade
<1> HIDE DEF n, u0, o0
<1>7. CASE Posts(p) < CallsFor[o0] \/ n = MaxMade \/ (o0 = "mailbox" /\ n = 1)
  <2>1. Created(p) = made
    BY <1>4, <1>7
  <2>2. Posts(p) = CallsFor[o0] => n > 0
    BY <1>1, <1>2, <1>3, <1>7
  <2> QED
    BY <1>5, <1>6, <2>1, <2>2 DEF n, u0, o0
<1>8. CASE ~(Posts(p) < CallsFor[o0] \/ n = MaxMade \/ (o0 = "mailbox" /\ n = 1))
  <2>1. Created(p) = [made EXCEPT ![u0][o0] = n + 1]
    BY <1>4, <1>8
  <2>2. n + 1 \in 0 .. MaxMade /\ n + 1 > 0
    BY <1>2, <1>8
  <2>3. o0 \in Ensured /\ made[u0][o0] = n
    BY DEF o0, n
  <2>4. Created(p) \in [AllUsers -> [Ensured -> 0 .. MaxMade]]
    BY <1>1, <1>5, <2>1, <2>2, <2>3
  <2>5. Created(p)[u0][o0] = n + 1
    BY <1>1, <1>5, <2>1, <2>3
  <2>6. \A u \in AllUsers, o \in Ensured : u # u0 \/ o # o0 => Created(p)[u][o] = made[u][o]
    BY <1>1, <1>5, <2>1, <2>3
  <2>7. \A u \in AllUsers, o \in Ensured :
            made[u][o] <= Created(p)[u][o] /\ Created(p)[u][o] <= made[u][o] + 1
    BY <1>2, <1>6, <2>3, <2>5, <2>6
  <2> QED
    BY <1>8, <2>2, <2>4, <2>5, <2>6, <2>7 DEF u0, o0
<1> QED
  BY <1>7, <1>8

\* The objects and directories there are after a step: none is taken away.
Grow ==
    /\ ObjectsOK'
    /\ \A u \in AllUsers, o \in Ensured : made[u][o] <= made'[u][o]
    /\ \A u \in AllUsers : dirs[u] = Everywhere => dirs'[u] = Everywhere

\* Activation p goes on with a place, calls made there and what it knows of the password.
GoesOn(p, s, n, password) ==
    act'[p] = [user |-> act[p].user, at |-> s, posts |-> n, password |-> password]

\* What a place asks of the activation that comes to it.
Ready(p, s, n, password) ==
    /\ s \in Places \ {"fetch"} /\ n \in 0 .. 3 /\ password \in BOOLEAN
    /\ s \notin Ensured => n = 0
    /\ s \in Ensured => n <= CallsFor[s]
    /\ n > 0 => \/ made'[Whose(p)][s] = 0
                \/ s = Doing(p) /\ Posts(p) > 0 /\ made' = made
    /\ dirs'[Whose(p)] = Everywhere
    /\ s \in {"account", "rule"} => password
    /\ \A o \in Needs(s, password) : made'[Whose(p)][o] > 0

\* A step of activation p.
Advances(p) ==
    /\ Working(p) /\ Grow /\ together' = together
    /\ act' \in [Procs -> Activations \cup {Idle}]
    /\ \A q \in Procs \ {p} : act'[q] = act[q]
    /\ \A u \in AllUsers, o \in Ensured :
           made'[u][o] = made[u][o] \/
               (u = Whose(p) /\ o = Doing(p) /\ Posts(p) > 0 /\ made'[u][o] = made[u][o] + 1)
    /\ \/ act'[p] = Idle
       \/ \E s, n, password : GoesOn(p, s, n, password) /\ Ready(p, s, n, password)

\* Activation p begins with user u.
Starts(p, u) ==
    /\ act' = [act EXCEPT ![p] = [user |-> u, at |-> "fetch", posts |-> 0, password |-> FALSE]]
    /\ together \subseteq together'
    /\ together' \subseteq together \cup {u}
    /\ (\E q \in Procs \ {p} : Working(q) /\ Whose(q) = u) => u \in together'

OnboardingInv ==
    /\ OnboardingTypeOK
    /\ CallsCounted /\ MetTogether /\ StillAbsent /\ EnsuredOnce /\ Passed

LEMMA ActFacts ==
    ASSUME ActsOK, NEW p \in Procs, Working(p)
    PROVE  /\ act[p] \in Activations /\ Whose(p) \in AllUsers /\ Doing(p) \in Places
           /\ Posts(p) \in 0 .. 3 /\ HasPassword(p) \in BOOLEAN
BY DEF ActsOK, Working, Activations, Whose, Doing, Posts, HasPassword, Places

LEMMA GoesOnFacts ==
    ASSUME NEW p \in Procs, NEW s, NEW n, NEW b, GoesOn(p, s, n, b)
    PROVE  Whose(p)' = Whose(p) /\ Doing(p)' = s /\ Posts(p)' = n /\ HasPassword(p)' = b
BY DEF GoesOn, Whose, Doing, Posts, HasPassword

\* Activation p is changed, and no other.
Changes(p, s, n, password) ==
    /\ act' \in [Procs -> Activations \cup {Idle}]
    /\ \A q \in Procs \ {p} : act'[q] = act[q]
    /\ GoesOn(p, s, n, password)

\* The four forms in which the actions change the fields of an activation.
LEMMA AtPostsChange ==
    ASSUME ActsOK, NEW p \in Procs, Working(p), NEW s \in Places, NEW n \in 0 .. 3,
           act' = [act EXCEPT ![p].at = s, ![p].posts = n]
    PROVE  Changes(p, s, n, HasPassword(p))
<1>1. /\ act[p] \in Activations /\ Doing(p) \in Places
      /\ Posts(p) \in 0 .. 3 /\ HasPassword(p) \in BOOLEAN
  BY ActFacts
<1>2. [user |-> act[p].user, at |-> s, posts |-> n, password |-> HasPassword(p)] \in Activations
  BY <1>1 DEF Activations, Places
<1>3. act'[p] = [user |-> act[p].user, at |-> s, posts |-> n, password |-> HasPassword(p)]
  BY <1>1 DEF ActsOK, Activations, HasPassword
<1> QED
  BY <1>2, <1>3 DEF ActsOK, Changes, GoesOn

LEMMA AllChange ==
    ASSUME ActsOK, NEW p \in Procs, Working(p), NEW s \in Places, NEW n \in 0 .. 3, NEW b \in BOOLEAN,
           act' = [act EXCEPT ![p].at = s, ![p].posts = n, ![p].password = b]
    PROVE  Changes(p, s, n, b)
<1>1. /\ act[p] \in Activations /\ Doing(p) \in Places
      /\ Posts(p) \in 0 .. 3 /\ HasPassword(p) \in BOOLEAN
  BY ActFacts
<1>2. [user |-> act[p].user, at |-> s, posts |-> n, password |-> b] \in Activations
  BY <1>1 DEF Activations, Places
<1>3. act'[p] = [user |-> act[p].user, at |-> s, posts |-> n, password |-> b]
  BY <1>1 DEF ActsOK, Activations, HasPassword
<1> QED
  BY <1>2, <1>3 DEF ActsOK, Changes, GoesOn

LEMMA AtPasswordChange ==
    ASSUME ActsOK, NEW p \in Procs, Working(p), NEW s \in Places, NEW b \in BOOLEAN,
           act' = [act EXCEPT ![p].at = s, ![p].password = b]
    PROVE  Changes(p, s, Posts(p), b)
<1>1. /\ act[p] \in Activations /\ Doing(p) \in Places
      /\ Posts(p) \in 0 .. 3 /\ HasPassword(p) \in BOOLEAN
  BY ActFacts
<1>2. [user |-> act[p].user, at |-> s, posts |-> Posts(p), password |-> b] \in Activations
  BY <1>1 DEF Activations, Places
<1>3. act'[p] = [user |-> act[p].user, at |-> s, posts |-> Posts(p), password |-> b]
  BY <1>1 DEF ActsOK, Activations, Posts
<1> QED
  BY <1>2, <1>3 DEF ActsOK, Changes, GoesOn

LEMMA PostsChange ==
    ASSUME ActsOK, NEW p \in Procs, Working(p), NEW n \in 0 .. 3,
           act' = [act EXCEPT ![p].posts = n]
    PROVE  Changes(p, Doing(p), n, HasPassword(p))
<1>1. /\ act[p] \in Activations /\ Doing(p) \in Places
      /\ Posts(p) \in 0 .. 3 /\ HasPassword(p) \in BOOLEAN
  BY ActFacts
<1>2. [user |-> act[p].user, at |-> Doing(p), posts |-> n, password |-> HasPassword(p)] \in Activations
  BY <1>1 DEF Activations, Places
<1>3. act'[p] = [user |-> act[p].user, at |-> Doing(p), posts |-> n, password |-> HasPassword(p)]
  BY <1>1 DEF ActsOK, Activations, Doing, HasPassword
<1> QED
  BY <1>2, <1>3 DEF ActsOK, Changes, GoesOn

LEMMA ReturnActs ==
    ASSUME ActsOK, NEW p \in Procs, Return(p)
    PROVE  /\ act' \in [Procs -> Activations \cup {Idle}]
           /\ \A q \in Procs \ {p} : act'[q] = act[q]
           /\ act'[p] = Idle
BY DEF ActsOK, Return

\* The directories made by an activation.
LEMMA DirsGrow ==
    ASSUME ObjectsOK, NEW u \in AllUsers, createUserDirs(u)
    PROVE  /\ dirs' \in [AllUsers -> {{}, {"consume"}, Everywhere}]
           /\ \A v \in AllUsers : dirs[v] = Everywhere => dirs'[v] = Everywhere
           /\ ~(dirFaults' > dirFaults) /\ dirFaults \in Nat => dirs'[u] = Everywhere
<1> USE DEF Everywhere
<1>1. CASE dirs' = [dirs EXCEPT ![u] = {"consume", "export"}]
  BY <1>1 DEF ObjectsOK
<1>2. CASE dirFaults' = dirFaults + 1 /\ dirs' = dirs
  BY <1>2 DEF ObjectsOK
<1>3. CASE dirFaults' = dirFaults + 1 /\ dirs' = [dirs EXCEPT ![u] = @ \cup {"consume"}]
  <2>1. dirs[u] \cup {"consume"} \in {{"consume"}, Everywhere}
    BY DEF ObjectsOK
  <2>2. dirs[u] = Everywhere => dirs[u] \cup {"consume"} = Everywhere
    OBVIOUS
  <2>3. dirs' \in [AllUsers -> {{}, {"consume"}, Everywhere}]
    BY <1>3, <2>1 DEF ObjectsOK
  <2>4. \A v \in AllUsers : dirs[v] = Everywhere => dirs'[v] = Everywhere
    BY <1>3, <2>2 DEF ObjectsOK
  <2> QED
    BY <1>3, <2>3, <2>4
<1> QED
  BY <1>1, <1>2, <1>3 DEF createUserDirs

\* Every step of onboardUser is such a step.
LEMMA OnboardAdvances ==
    ASSUME ObjectsOK, ActsOK, SetsOK, CallsCounted, Passed, NEW p \in Procs, Onboard(p)
    PROVE  Advances(p)
<1>0. 0 \in 0 .. 3 /\ 1 \in 0 .. 3 /\ "user" \in Places /\ "store" \in Places /\ TRUE \in BOOLEAN
  BY EnsuredFacts DEF Places
<1>1. Working(p)
  BY DEF Onboard, FetchUser, FetchFails, LookUp, Post, CallFails, StorePassword, Conclude, Working
<1>2. /\ Whose(p) \in AllUsers /\ Doing(p) \in Places
      /\ Posts(p) \in 0 .. 3 /\ HasPassword(p) \in BOOLEAN
  BY <1>1, ActFacts
<1>3. /\ Doing(p) \notin Ensured => Posts(p) = 0
      /\ Doing(p) \in Ensured => Posts(p) <= CallsFor[Doing(p)]
  BY <1>1 DEF CallsCounted
<1>4. /\ Doing(p) # "fetch" => dirs[Whose(p)] = Everywhere
      /\ Doing(p) \in {"account", "rule"} => HasPassword(p)
      /\ \A o \in Needs(Doing(p), HasPassword(p)) : made[Whose(p)][o] > 0
  BY <1>1 DEF Passed
<1>5. \A o \in Needs(Doing(p), HasPassword(p)) : o \in Ensured
  BY <1>2, NeedsFacts
\* An activation that ends, or goes on, with objects made as they were or one more.
<1> DEFINE Objects ==
             /\ Grow
             /\ \A u \in AllUsers, o \in Ensured :
                    made'[u][o] = made[u][o] \/
                        (u = Whose(p) /\ o = Doing(p) /\ Posts(p) > 0
                            /\ made'[u][o] = made[u][o] + 1)
<1>6. ASSUME made' = made, dirs' = dirs PROVE Objects
  BY <1>6 DEF Grow, ObjectsOK, MaxMade
<1>7. ASSUME Doing(p) \in Ensured, Posts(p) > 0, made' = Created(p), dirs' = dirs PROVE Objects
  <2>1. /\ Created(p) \in [AllUsers -> [Ensured -> 0 .. MaxMade]]
        /\ \A u \in AllUsers, o \in Ensured :
               /\ made[u][o] <= Created(p)[u][o]
               /\ u # Whose(p) \/ o # Doing(p) => Created(p)[u][o] = made[u][o]
               /\ Created(p)[u][o] <= made[u][o] + 1
    BY <1>1, <1>7, CreatedFacts
  <2>2. \A u \in AllUsers, o \in Ensured : made[u][o] \in Nat /\ Created(p)[u][o] \in Nat
    BY <2>1 DEF ObjectsOK, MaxMade
  <2>3. ASSUME NEW u \in AllUsers, NEW o \in Ensured
        PROVE  Created(p)[u][o] = made[u][o] \/ Created(p)[u][o] = made[u][o] + 1
    <3>1. made[u][o] \in Nat /\ Created(p)[u][o] \in Nat
      BY <2>2
    <3>2. made[u][o] <= Created(p)[u][o] /\ Created(p)[u][o] <= made[u][o] + 1
      BY <2>1
    <3> QED
      BY <3>1, <3>2
  <2>4. Grow
    BY <1>7, <2>1 DEF Grow, ObjectsOK
  <2> QED
    BY <1>7, <2>1, <2>3, <2>4
<1>8. ASSUME Objects, Return(p), together' = together PROVE Advances(p)
  BY <1>1, <1>8, ReturnActs DEF Advances
<1>9. ASSUME Objects, together' = together,
             NEW s, NEW n, NEW b, Ready(p, s, n, b), Changes(p, s, n, b)
      PROVE  Advances(p)
  BY <1>1, <1>9 DEF Advances, Changes
<1>10. ASSUME Objects, NEW o \in Ensured, o \in Needs(Doing(p), HasPassword(p))
       PROVE  made'[Whose(p)][o] > 0
  BY <1>2, <1>4, <1>5, <1>10 DEF Grow, ObjectsOK, MaxMade
<1>11. Objects => (dirs[Whose(p)] = Everywhere => dirs'[Whose(p)] = Everywhere)
  BY <1>2 DEF Grow
<1> HIDE DEF Objects
\* On to the next object: the one it leaves is there.
<1>12. ASSUME Objects, together' = together, Doing(p) \in Ensured,
              made'[Whose(p)][Doing(p)] > 0, Proceed(p, After(p, Doing(p)))
       PROVE  Advances(p)
  <2> DEFINE s == After(p, Doing(p))
  <2>1. /\ s \in Places \ {"fetch"} /\ (s \in {"account", "rule"} => HasPassword(p))
        /\ Needs(s, HasPassword(p)) \subseteq Needs(Doing(p), HasPassword(p)) \cup {Doing(p)}
    BY <1>1, <1>4, <1>12, AfterFacts
  <2>2. Doing(p) # "fetch"
    BY <1>12, EnsuredFacts
  <2>3. \A o \in Needs(s, HasPassword(p)) : made'[Whose(p)][o] > 0
    BY <1>5, <1>10, <1>12, <2>1
  <2>4. s \in Ensured => 0 <= CallsFor[s]
    BY EnsuredFacts
  <2>5. Ready(p, s, 0, HasPassword(p))
    BY <1>2, <1>4, <1>11, <1>12, <2>1, <2>2, <2>3, <2>4 DEF Ready
  <2>6. Changes(p, s, 0, HasPassword(p))
    BY <1>1, <1>12, <1>0, <2>1, AtPostsChange DEF Proceed
  <2> QED
    BY <1>9, <1>12, <2>5, <2>6
\* On to a place that needs nothing.
<1>13. ASSUME Objects, together' = together, dirs'[Whose(p)] = Everywhere,
              NEW s \in {"mailbox", "store", "user"}, NEW b \in BOOLEAN,
              Changes(p, s, 0, b)
       PROVE  Advances(p)
  <2>1. Ready(p, s, 0, b)
    BY <1>13, NeedsFacts, EnsuredFacts DEF Ready, Places
  <2> QED
    BY <1>9, <1>13, <2>1
<1>14. CASE FetchUser(p)
  <2>1. Doing(p) = "fetch" /\ createUserDirs(Whose(p)) /\ made' = made /\ together' = together
    BY <1>14 DEF FetchUser, Doing, Whose
  <2>2. /\ dirs' \in [AllUsers -> {{}, {"consume"}, Everywhere}]
        /\ \A v \in AllUsers : dirs[v] = Everywhere => dirs'[v] = Everywhere
        /\ ~(dirFaults' > dirFaults) => dirs'[Whose(p)] = Everywhere
    BY <1>2, <2>1, DirsGrow, OnboardingAssumption DEF SetsOK
  <2>3. Objects
    BY <2>1, <2>2 DEF Objects, Grow, ObjectsOK, MaxMade
  <2>4. CASE dirFaults' > dirFaults
    BY <1>8, <1>14, <2>1, <2>3, <2>4 DEF FetchUser, Abandon
  <2>5. CASE ~(dirFaults' > dirFaults)
    <3>1. PICK s \in {"mailbox", "user"} : s = IF Whose(p) \in WithMail THEN "mailbox" ELSE "user"
      OBVIOUS
    <3>2. (Whose(p) \in stored) \in BOOLEAN
      OBVIOUS
    <3>3. act' = [act EXCEPT ![p].at = s, ![p].password = Whose(p) \in stored]
      BY <1>14, <2>5, <3>1 DEF FetchUser, Whose
    <3>4. s \in Places
      BY EnsuredFacts DEF Places
    <3>5. Posts(p) = 0
      BY <1>3, <2>1, EnsuredFacts
    <3>6. Changes(p, s, 0, Whose(p) \in stored)
      BY <1>1, <3>2, <3>3, <3>4, <3>5, AtPasswordChange
    <3> QED
      BY <1>13, <2>1, <2>2, <2>3, <2>5, <3>2, <3>6
  <2> QED
    BY <2>4, <2>5
<1>15. CASE FetchFails(p) \/ Conclude(p)
  BY <1>6, <1>8, <1>15 DEF FetchFails, Conclude, obRemote
<1>16. CASE LookUp(p)
  <2>1. /\ Doing(p) \in Ensured /\ Posts(p) = 0 /\ together' = together
        /\ made' = made /\ dirs' = dirs
    BY <1>16 DEF LookUp, Doing, Posts, obRemote
  <2>2. Objects
    BY <1>6, <2>1
  <2>3. CASE made[Whose(p)][Doing(p)] > 0
    BY <1>12, <1>16, <2>1, <2>2, <2>3 DEF LookUp, Doing, Whose
  <2>4. CASE ~(made[Whose(p)][Doing(p)] > 0)
    <3>1. act' = [act EXCEPT ![p].posts = 1]
      BY <1>16, <2>4 DEF LookUp, Doing, Whose
    <3>2. Changes(p, Doing(p), 1, HasPassword(p))
      BY <1>1, <1>0, <3>1, PostsChange
    <3>3. made[Whose(p)][Doing(p)] = 0
      BY <1>2, <2>1, <2>4 DEF ObjectsOK, MaxMade
    <3>4. 1 <= CallsFor[Doing(p)] /\ Doing(p) # "fetch"
      BY <2>1, EnsuredFacts
    <3>5. Ready(p, Doing(p), 1, HasPassword(p))
      BY <1>2, <1>4, <2>1, <3>3, <3>4 DEF Ready
    <3> QED
      BY <1>9, <2>1, <2>2, <3>2, <3>5
  <2> QED
    BY <2>3, <2>4
<1>17. CASE Post(p)
  <2>1. /\ Doing(p) \in Ensured /\ Posts(p) > 0 /\ together' = together
        /\ made' = Created(p) /\ dirs' = dirs
    BY <1>17 DEF Post, Doing, Posts, obRemote
  <2>2. Objects
    BY <1>7, <2>1
  <2>3. Doing(p) # "fetch"
    BY <2>1, EnsuredFacts
  <2>4. Posts(p) <= CallsFor[Doing(p)] /\ CallsFor[Doing(p)] \in {1, 3}
    BY <1>3, <2>1, EnsuredFacts
  <2>5. CASE Doing(p) = "mailbox"
    <3>1. act' = [act EXCEPT ![p].at = "store", ![p].posts = 0, ![p].password = TRUE]
      BY <1>17, <2>5 DEF Post, Doing
    <3>2. Changes(p, "store", 0, TRUE)
      BY <1>1, <1>0, <3>1, AllChange
    <3> QED
      BY <1>4, <1>13, <2>1, <2>2, <2>3, <3>2
  <2>6. CASE Doing(p) # "mailbox" /\ Posts(p) < CallsFor[Doing(p)]
    <3>1. act' = [act EXCEPT ![p].posts = Posts(p) + 1]
      <4>1. ~(Posts(p) = CallsFor[Doing(p)])
        BY <1>2, <2>4, <2>6
      <4> QED
        BY <1>17, <2>6, <4>1 DEF Post, Doing, Posts
    <3>2. Posts(p) + 1 \in 0 .. 3 => Changes(p, Doing(p), Posts(p) + 1, HasPassword(p))
      BY <1>1, <1>0, <3>1, PostsChange
    <3>3. made' = made
      BY <1>1, <2>1, <2>6, CreatedFacts
    <3>4. Posts(p) + 1 \in 0 .. 3 /\ Posts(p) + 1 <= CallsFor[Doing(p)]
      BY <1>2, <2>4, <2>6
    <3>5. Ready(p, Doing(p), Posts(p) + 1, HasPassword(p))
      BY <1>2, <1>4, <2>1, <2>3, <3>3, <3>4 DEF Ready
    <3> QED
      BY <1>9, <2>1, <2>2, <3>2, <3>4, <3>5
  <2>7. CASE Doing(p) # "mailbox" /\ Posts(p) = CallsFor[Doing(p)]
    <3>1. Proceed(p, After(p, Doing(p)))
      <4>1. ~(Posts(p) < CallsFor[Doing(p)])
        BY <1>2, <2>4, <2>7
      <4> QED
        BY <1>17, <2>7, <4>1 DEF Post, Doing, Posts
    <3>2. made'[Whose(p)][Doing(p)] > 0
      BY <1>1, <2>1, <2>7, CreatedFacts
    <3> QED
      BY <1>12, <2>1, <2>2, <3>1, <3>2
  <2> QED
    BY <1>2, <2>4, <2>5, <2>6, <2>7
<1>18. CASE CallFails(p)
  <2>1. /\ Doing(p) \in Ensured /\ together' = together /\ dirs' = dirs
        /\ made' = made \/ (Posts(p) > 0 /\ made' = Created(p))
    BY <1>18 DEF CallFails, Doing, Posts, obRemote
  <2>2. Objects
    BY <1>6, <1>7, <2>1
  <2>3. CASE Doing(p) = "mailbox"
    <3>1. act' = [act EXCEPT ![p].at = "user", ![p].posts = 0]
      BY <1>18, <2>3 DEF CallFails, Proceed, Doing
    <3>2. Changes(p, "user", 0, HasPassword(p))
      BY <1>1, <1>0, <3>1, AtPostsChange
    <3> QED
      BY <1>2, <1>4, <1>13, <2>1, <2>2, <2>3, <3>2
  <2>4. CASE Doing(p) # "mailbox"
    BY <1>8, <1>18, <2>1, <2>2, <2>4 DEF CallFails, Abandon, Doing
  <2> QED
    BY <2>3, <2>4
<1>19. CASE StorePassword(p)
  <2>1. Doing(p) = "store" /\ made' = made /\ dirs' = dirs /\ together' = together
    BY <1>19 DEF StorePassword, Doing
  <2>2. act' = [act EXCEPT ![p].at = "user", ![p].posts = 0]
    BY <1>19 DEF StorePassword, Proceed
  <2>3. Changes(p, "user", 0, HasPassword(p))
    BY <1>1, <1>0, <2>2, AtPostsChange
  <2> QED
    BY <1>2, <1>4, <1>6, <1>13, <2>1, <2>3
<1> QED
  BY <1>14, <1>15, <1>16, <1>17, <1>18, <1>19 DEF Onboard

\* Such a step keeps the invariant.
LEMMA AdvanceKeeps ==
    ASSUME OnboardingInv, NEW p \in Procs, Advances(p)
    PROVE  CallsCounted' /\ MetTogether' /\ StillAbsent' /\ EnsuredOnce' /\ Passed'
<1>1. ObjectsOK /\ ActsOK /\ SetsOK
  BY OnboardingTypeParts DEF OnboardingInv
<1>2. /\ Working(p) /\ Grow /\ together' = together
      /\ \A q \in Procs \ {p} : act'[q] = act[q]
  BY DEF Advances
<1>3. /\ Whose(p) \in AllUsers /\ Doing(p) \in Places
      /\ \A q \in Procs : Working(q) => Whose(q) \in AllUsers /\ Doing(q) \in Places
                                            /\ HasPassword(q) \in BOOLEAN
  BY <1>1, <1>2, ActFacts
\* The other activations, and this one when it goes on.
<1>4. \A q \in Procs \ {p} :
          /\ Working(q)' <=> Working(q)
          /\ Whose(q)' = Whose(q) /\ Doing(q)' = Doing(q) /\ Posts(q)' = Posts(q)
          /\ HasPassword(q)' = HasPassword(q)
  BY <1>2 DEF Working, Whose, Doing, Posts, HasPassword
<1>5. Working(p)' => \E s, n, b : /\ Whose(p)' = Whose(p) /\ Doing(p)' = s /\ Posts(p)' = n
                                  /\ HasPassword(p)' = b /\ Ready(p, s, n, b)
  <2>1. Working(p)' => \E s, n, b : GoesOn(p, s, n, b) /\ Ready(p, s, n, b)
    BY DEF Advances, Working
  <2> QED
    BY <2>1, GoesOnFacts
<1>6. Working(p)' => Whose(p)' = Whose(p)
  BY <1>5
<1>7. \A u \in AllUsers, o \in Ensured :
          /\ made[u][o] \in Nat /\ made'[u][o] \in Nat
          /\ made[u][o] > 0 => made'[u][o] > 0
  BY <1>1, <1>2 DEF Grow, ObjectsOK, MaxMade
<1>8. \A u \in AllUsers, o \in Ensured :
          made'[u][o] = made[u][o] \/
              (u = Whose(p) /\ o = Doing(p) /\ Posts(p) > 0 /\ made'[u][o] = made[u][o] + 1)
  BY DEF Advances
<1>9. Whose(p) \notin together /\ Posts(p) > 0 => made[Whose(p)][Doing(p)] = 0
  BY <1>2 DEF OnboardingInv, StillAbsent
<1>10. CallsCounted'
  <2>1. Working(p)' => /\ Doing(p)' \notin Ensured => Posts(p)' = 0
                       /\ Doing(p)' \in Ensured => Posts(p)' <= CallsFor[Doing(p)']
    BY <1>5 DEF Ready
  <2> QED
    BY <1>4, <2>1 DEF CallsCounted, OnboardingInv
<1>11. MetTogether'
  BY <1>2, <1>4, <1>6 DEF MetTogether, OnboardingInv
<1>12. StillAbsent'
  <2>1. ASSUME Working(p)', Posts(p)' > 0, Whose(p) \notin together
        PROVE  made'[Whose(p)][Doing(p)'] = 0
    BY <1>5, <1>9, <2>1 DEF Ready
  <2>2. ASSUME NEW q \in Procs \ {p}, Working(q), Posts(q) > 0, Whose(q) \notin together
        PROVE  made'[Whose(q)][Doing(q)] = 0
    <3>1. made[Whose(q)][Doing(q)] = 0
      BY <2>2 DEF StillAbsent, OnboardingInv
    <3>2. Whose(q) # Whose(p)
      BY <1>2, <2>2 DEF MetTogether, OnboardingInv
    <3>3. Doing(q) \in Ensured
      BY <2>2 DEF CallsCounted, OnboardingInv
    <3> QED
      BY <1>3, <1>8, <2>2, <3>1, <3>2, <3>3
  <2> QED
    BY <1>2, <1>4, <1>6, <2>1, <2>2 DEF StillAbsent
<1>13. EnsuredOnce'
  <2>1. ASSUME NEW u \in AllUsers \ together, NEW o \in Ensured PROVE made'[u][o] <= 1
    <3>1. made[u][o] <= 1 /\ made[u][o] \in Nat
      BY <1>7, <2>1 DEF EnsuredOnce, OnboardingInv
    <3>2. u = Whose(p) /\ o = Doing(p) /\ Posts(p) > 0 => made[u][o] = 0
      BY <1>9, <2>1
    <3> QED
      BY <1>8, <2>1, <3>1, <3>2
  <2> QED
    BY <1>2, <2>1 DEF EnsuredOnce
<1>14. Passed'
  <2>1. ASSUME Working(p)'
        PROVE  /\ Doing(p)' # "fetch" => dirs'[Whose(p)'] = Everywhere
               /\ Doing(p)' \in {"account", "rule"} => HasPassword(p)'
               /\ \A o \in Needs(Doing(p)', HasPassword(p)') : made'[Whose(p)'][o] > 0
    BY <1>5, <2>1 DEF Ready
  <2>2. ASSUME NEW q \in Procs \ {p}, Working(q)
        PROVE  /\ Doing(q) # "fetch" => dirs'[Whose(q)] = Everywhere
               /\ Doing(q) \in {"account", "rule"} => HasPassword(q)
               /\ \A o \in Needs(Doing(q), HasPassword(q)) : made'[Whose(q)][o] > 0
    <3>1. Whose(q) \in AllUsers /\ Needs(Doing(q), HasPassword(q)) \subseteq Ensured
      BY <1>3, <2>2, NeedsFacts
    <3>2. /\ Doing(q) # "fetch" => dirs[Whose(q)] = Everywhere
          /\ Doing(q) \in {"account", "rule"} => HasPassword(q)
          /\ \A o \in Needs(Doing(q), HasPassword(q)) : made[Whose(q)][o] > 0
      BY <2>2 DEF Passed, OnboardingInv
    <3> QED
      BY <1>2, <1>7, <3>1, <3>2 DEF Grow
  <2> QED
    BY <1>4, <2>1, <2>2 DEF Passed
<1> QED
  BY <1>10, <1>11, <1>12, <1>13, <1>14

\* So does the beginning of an activation.
LEMMA StartKeeps ==
    ASSUME OnboardingInv, NEW p \in Procs, NEW u \in AllUsers, Starts(p, u),
           made' = made, dirs' = dirs
    PROVE  /\ CallsCounted' /\ MetTogether' /\ StillAbsent' /\ EnsuredOnce' /\ Passed'
           /\ act' \in [Procs -> Activations \cup {Idle}]
<1>1. ObjectsOK /\ ActsOK /\ SetsOK
  BY OnboardingTypeParts DEF OnboardingInv
<1>2. act'[p] = [user |-> u, at |-> "fetch", posts |-> 0, password |-> FALSE]
  BY <1>1 DEF Starts, ActsOK
<1>3. Whose(p)' = u /\ Doing(p)' = "fetch" /\ Posts(p)' = 0 /\ HasPassword(p)' = FALSE
  BY <1>2 DEF Whose, Doing, Posts, HasPassword
<1>4. \A q \in Procs \ {p} :
          /\ Working(q)' <=> Working(q)
          /\ Whose(q)' = Whose(q) /\ Doing(q)' = Doing(q) /\ Posts(q)' = Posts(q)
          /\ HasPassword(q)' = HasPassword(q)
  BY <1>1 DEF Starts, ActsOK, Working, Whose, Doing, Posts, HasPassword
<1>5. "fetch" \notin Ensured /\ Needs("fetch", FALSE) = {}
  BY EnsuredFacts, NeedsFacts
<1>6. together \subseteq together'
  BY DEF Starts
<1>7. (\E q \in Procs \ {p} : Working(q) /\ Whose(q) = u) => u \in together'
  BY DEF Starts
<1>8. CallsCounted'
  BY <1>3, <1>4, <1>5 DEF CallsCounted, OnboardingInv
<1>9. MetTogether'
  <2>1. ASSUME NEW q \in Procs \ {p}, Working(q), Whose(q) = u PROVE u \in together'
    BY <1>7, <2>1
  <2>2. ASSUME NEW q \in Procs \ {p}, NEW r \in Procs \ {p}, q # r, Working(q), Working(r),
               Whose(q) = Whose(r)
        PROVE  Whose(q) \in together'
    BY <1>6, <2>2 DEF MetTogether, OnboardingInv
  <2> QED
    BY <1>3, <1>4, <2>1, <2>2 DEF MetTogether
<1>10. StillAbsent'
  <2>1. ASSUME NEW q \in Procs \ {p}, Working(q), Posts(q) > 0, Whose(q) \notin together'
        PROVE  made[Whose(q)][Doing(q)] = 0
    BY <1>6, <2>1 DEF StillAbsent, OnboardingInv
  <2> QED
    BY <1>3, <1>4, <2>1 DEF StillAbsent
<1>11. EnsuredOnce'
  BY <1>6 DEF EnsuredOnce, OnboardingInv
<1>12. Passed'
  BY <1>3, <1>4, <1>5 DEF Passed, OnboardingInv
<1>13. act' \in [Procs -> Activations \cup {Idle}]
  <2>1. [user |-> u, at |-> "fetch", posts |-> 0, password |-> FALSE] \in Activations
    BY DEF Activations
  <2> QED
    BY <1>1, <2>1 DEF Starts, ActsOK
<1> QED
  BY <1>8, <1>9, <1>10, <1>11, <1>12, <1>13

\* And every step that leaves activations and objects alone.
LEMMA RestKeeps ==
    ASSUME OnboardingInv, UNCHANGED <<act, made, dirs, together>>
    PROVE  CallsCounted' /\ MetTogether' /\ StillAbsent' /\ EnsuredOnce' /\ Passed'
<1>1. \A q \in Procs :
          /\ Working(q)' <=> Working(q)
          /\ Whose(q)' = Whose(q) /\ Doing(q)' = Doing(q) /\ Posts(q)' = Posts(q)
          /\ HasPassword(q)' = HasPassword(q)
  BY DEF Working, Whose, Doing, Posts, HasPassword
<1> QED
  BY <1>1 DEF OnboardingInv, CallsCounted, MetTogether, StillAbsent, EnsuredOnce, Passed

LEMMA StartStarts ==
    ASSUME NEW p \in Procs, NEW u \in AllUsers, Start(p, u)
    PROVE  Starts(p, u)
<1>1. /\ act' = [act EXCEPT ![p] = [user |-> u, at |-> "fetch", posts |-> 0, password |-> FALSE]]
      /\ together' = IF \E q \in Procs \ {p} : act[q] # Idle /\ act[q].user = u
                     THEN together \cup {u} ELSE together
  BY DEF Start
<1>2. CASE \E q \in Procs \ {p} : Working(q) /\ Whose(q) = u
  <2>1. together' = together \cup {u}
    BY <1>1, <1>2 DEF Working, Whose
  <2> QED
    BY <1>1, <2>1 DEF Starts
<1>3. CASE ~\E q \in Procs \ {p} : Working(q) /\ Whose(q) = u
  <2>1. together' = together
    BY <1>1, <1>3 DEF Working, Whose
  <2> QED
    BY <1>1, <1>3, <2>1 DEF Starts
<1> QED
  BY <1>2, <1>3

\* What a step of onboardUser does to the variables that are not its own.
LEMMA RoundsKept ==
    ASSUME OnboardingInv, NEW p \in Procs, Onboard(p)
    PROVE  round' \in [Polls -> SUBSET AllUsers] /\ SetsOK'
<1>1. ActsOK /\ SetsOK
  BY OnboardingTypeParts DEF OnboardingInv
<1>2. round' = round \/ round' = [q \in Polls |-> IF q = p THEN {} ELSE round[q]]
  BY DEF Onboard, FetchUser, FetchFails, LookUp, Post, CallFails, StorePassword, Conclude, Abandon
<1>3. round' \in [Polls -> SUBSET AllUsers]
  BY <1>1, <1>2 DEF ActsOK
<1>4. /\ known' = known /\ called' = called /\ deletes' = deletes /\ together' = together
      /\ stored' = stored \/ stored' = stored \cup ({act[p].user} \cap known)
      /\ dirFaults' = dirFaults \/ (dirFaults < MaxDirFaults /\ dirFaults' = dirFaults + 1)
  <2>1. CASE FetchUser(p)
    BY <2>1 DEF FetchUser, createUserDirs
  <2> QED
    BY <2>1 DEF Onboard, FetchFails, LookUp, Post, CallFails, StorePassword, Conclude, obRemote
<1>5. SetsOK'
  BY <1>1, <1>4, OnboardingAssumption DEF SetsOK
<1> QED
  BY <1>3, <1>5

\* The inductive invariant of Onboarding: activations that are alone create only what
\* is not there, and whoever comes to a place has left behind what it needs.
THEOREM OnboardingInvariance == OnboardingSpec => []OnboardingInv
<1>1. OnboardingInit => OnboardingInv
  <2> SUFFICES ASSUME OnboardingInit PROVE OnboardingInv
    OBVIOUS
  <2>1. \A p \in Procs : ~Working(p)
    BY DEF OnboardingInit, Working
  <2>2. CallsCounted /\ MetTogether /\ StillAbsent /\ Passed
    BY <2>1 DEF CallsCounted, MetTogether, StillAbsent, Passed
  <2>3. EnsuredOnce
    BY DEF OnboardingInit, EnsuredOnce
  <2>4. ObjectsOK
    BY DEF OnboardingInit, ObjectsOK, MaxMade
  <2>5. ActsOK
    BY DEF OnboardingInit, ActsOK
  <2>6. SetsOK
    BY OnboardingAssumption DEF OnboardingInit, SetsOK
  <2> QED
    BY <2>2, <2>3, <2>4, <2>5, <2>6, OnboardingTypeParts DEF OnboardingInv
<1>2. OnboardingInv /\ [OnboardingNext]_obVars => OnboardingInv'
  <2> SUFFICES ASSUME OnboardingInv, [OnboardingNext]_obVars PROVE OnboardingInv'
    OBVIOUS
  <2>1. ObjectsOK /\ ActsOK /\ SetsOK
    BY OnboardingTypeParts DEF OnboardingInv
  <2> DEFINE Rest == CallsCounted' /\ MetTogether' /\ StillAbsent' /\ EnsuredOnce' /\ Passed'
  <2>2. ASSUME ObjectsOK', ActsOK', SetsOK', Rest PROVE OnboardingInv'
    BY <2>2 DEF OnboardingInv, OnboardingTypeOK, ObjectsOK, ActsOK, SetsOK, Everywhere
  <2>3. ASSUME NEW p \in Procs, Onboard(p) PROVE OnboardingInv'
    <3>1. Advances(p)
      BY <2>1, <2>3, OnboardAdvances DEF OnboardingInv
    <3>2. Rest
      BY <3>1, AdvanceKeeps
    <3>3. ObjectsOK' /\ act' \in [Procs -> Activations \cup {Idle}]
      BY <3>1 DEF Advances, Grow
    <3>4. round' \in [Polls -> SUBSET AllUsers] /\ SetsOK'
      BY <2>3, RoundsKept
    <3> QED
      BY <2>2, <3>2, <3>3, <3>4 DEF ActsOK
  \* An activation begins, or none; the rest is as before.
  <2>4. ASSUME NEW p \in Procs, NEW u \in AllUsers,
               Starts(p, u) \/ UNCHANGED <<act, together>>,
               made' = made, dirs' = dirs, round' \in [Polls -> SUBSET AllUsers],
               known' \subseteq AllUsers, stored' \subseteq AllUsers, called' \subseteq Callers,
               dirFaults' = dirFaults, deletes' = deletes
        PROVE  OnboardingInv'
    <3>1. Rest /\ act' \in [Procs -> Activations \cup {Idle}]
      BY <2>1, <2>4, StartKeeps, RestKeeps DEF ActsOK
    <3>2. ObjectsOK'
      BY <2>1, <2>4 DEF ObjectsOK
    <3>3. together' \subseteq AllUsers
      BY <2>1, <2>4 DEF SetsOK, Starts
    <3>4. SetsOK'
      BY <2>1, <2>4, <3>3 DEF SetsOK
    <3>5. ActsOK'
      BY <2>4, <3>1 DEF ActsOK
    <3> QED
      BY <2>2, <3>1, <3>2, <3>4, <3>5
  <2>5. ASSUME NEW q \in Polls, PollUser(q) PROVE OnboardingInv'
    <3>1. PICK i \in DOMAIN Users :
               /\ round' = [round EXCEPT ![q] = @ \ {Users[i]}]
               /\ Start(q, Users[i]) \/ UNCHANGED <<act, together>>
               /\ UNCHANGED <<obRemote, made>>
      BY <2>5 DEF PollUser
    <3>2. Users[i] \in AllUsers /\ q \in Procs
      BY DEF AllUsers, Range, Procs
    <3>3. round' \in [Polls -> SUBSET AllUsers]
      BY <2>1, <3>1 DEF ActsOK
    <3> QED
      BY <2>1, <2>4, <3>1, <3>2, <3>3, StartStarts DEF obRemote, SetsOK
  <2>6. ASSUME NEW q \in Polls, PollList(q) PROVE OnboardingInv'
    <3>1. round' \in [Polls -> SUBSET AllUsers]
      BY <2>1, <2>6 DEF PollList, ActsOK, SetsOK
    <3>2. Rest
      BY <2>6, RestKeeps DEF PollList, obRemote
    <3>3. ObjectsOK' /\ ActsOK' /\ SetsOK'
      BY <2>1, <2>6, <3>1 DEF PollList, obRemote, ObjectsOK, ActsOK, SetsOK
    <3> QED
      BY <2>2, <3>2, <3>3
  <2>7. ASSUME NEW h \in Callers, NEW u \in AllUsers, handleAuthentikWebhook(h, u)
        PROVE  OnboardingInv'
    <3>1. h \in Procs /\ Starts(h, u)
      BY <2>7, StartStarts DEF handleAuthentikWebhook, Procs
    <3> QED
      BY <2>1, <2>4, <2>7, <3>1 DEF handleAuthentikWebhook, ActsOK, SetsOK
  <2>8. ASSUME NEW h \in Callers, NEW u \in AllUsers, createUser(h, u)
        PROVE  OnboardingInv'
    <3>1. h \in Procs /\ (Starts(h, u) \/ UNCHANGED <<act, together>>)
      BY <2>8, StartStarts DEF createUser, Procs
    <3> QED
      BY <2>1, <2>4, <2>8, <3>1 DEF createUser, ActsOK, SetsOK
  <2>9. ASSUME NEW u \in AllUsers, deleteUser(u) PROVE OnboardingInv'
    <3>1. Rest
      BY <2>9, RestKeeps DEF deleteUser
    <3>2. ObjectsOK' /\ ActsOK'
      BY <2>1, <2>9 DEF deleteUser, ObjectsOK, ActsOK
    <3>3. deletes' \in 0 .. MaxDeletes
      BY <2>1, <2>9, OnboardingAssumption DEF deleteUser, SetsOK
    <3>4. SetsOK'
      BY <2>1, <2>9, <3>3 DEF deleteUser, SetsOK
    <3> QED
      BY <2>2, <3>1, <3>2, <3>4
  <2>10. CASE UNCHANGED obVars
    <3>1. Rest
      BY <2>10, RestKeeps DEF obVars
    <3>2. ObjectsOK' /\ ActsOK' /\ SetsOK'
      BY <2>1, <2>10 DEF obVars, ObjectsOK, ActsOK, SetsOK
    <3> QED
      BY <2>2, <3>1, <3>2
  <2> QED
    BY <2>3, <2>5, <2>6, <2>7, <2>8, <2>9, <2>10 DEF OnboardingNext, Poll
<1> QED
  BY <1>1, <1>2, PTL DEF OnboardingSpec

\* Every variable of Onboarding keeps its type.
THEOREM OnboardingTyped == OnboardingSpec => []OnboardingTypeOK
<1>1. OnboardingInv => OnboardingTypeOK
  BY DEF OnboardingInv
<1> QED
  BY <1>1, OnboardingInvariance, PTL

\* Onboarding a user again and again, with whatever failures in between, makes each of
\* the user's objects once, unless two activations worked on the user at the same time.
THEOREM NoDuplicates == OnboardingSpec => []EnsuredOnce
<1>1. OnboardingInv => EnsuredOnce
  BY DEF OnboardingInv
<1> QED
  BY <1>1, OnboardingInvariance, PTL

\* An activation that gets to its end has left behind all that a user needs, although
\* others create, fail and abandon the same objects meanwhile.
THEOREM NothingSkipped == OnboardingSpec => []OnboardedWhole
<1>1. OnboardingInv => OnboardedWhole
  <2> SUFFICES ASSUME OnboardingInv, NEW p \in Procs, act[p] # Idle, act[p].at = "attrs"
               PROVE  LET u == act[p].user
                          needed == {"user", "workflow"}
                                        \cup (IF act[p].password THEN {"account", "rule"} ELSE {})
                      IN  dirs[u] = {"consume", "export"} /\ \A o \in needed : made[u][o] > 0
    BY DEF OnboardedWhole
  <2>1. ActsOK
    BY OnboardingTypeParts DEF OnboardingInv
  <2>2. Working(p) /\ Doing(p) = "attrs" /\ HasPassword(p) \in BOOLEAN
    BY <2>1, ActFacts DEF Working, Doing
  <2>3. /\ dirs[Whose(p)] = Everywhere
        /\ \A o \in Needs("attrs", HasPassword(p)) : made[Whose(p)][o] > 0
    BY <2>2 DEF OnboardingInv, Passed
  <2>4. {"user", "workflow"} \cup (IF HasPassword(p) THEN {"account", "rule"} ELSE {})
            = Needs("attrs", HasPassword(p))
    BY <2>2, NeedsFacts
  <2> QED
    BY <2>3, <2>4 DEF Whose, HasPassword, Everywhere
<1> QED
  BY <1>1, OnboardingInvariance, PTL

-----------------------------------------------------------------------------
(* How long a round of the poll takes *)

\* The places an activation may still come to after this one.
PlacesAfter(s) ==
    CASE s = "fetch" -> 7
      [] s = "mailbox" -> 6
      [] s = "store" -> 5
      [] s = "user" -> 4
      [] s = "workflow" -> 3
      [] s = "account" -> 2
      [] s = "rule" -> 1
      [] s = "attrs" -> 0

\* A bound of the steps an activation still makes: at most four at each place.
WorkLeft(p) == IF Working(p) THEN 4 * PlacesAfter(Doing(p)) + 4 - Posts(p) ELSE 0

LEMMA PlacesAfterAre ==
    /\ PlacesAfter("fetch") = 7 /\ PlacesAfter("mailbox") = 6 /\ PlacesAfter("store") = 5
    /\ PlacesAfter("user") = 4 /\ PlacesAfter("workflow") = 3 /\ PlacesAfter("account") = 2
    /\ PlacesAfter("rule") = 1 /\ PlacesAfter("attrs") = 0
BY DEF PlacesAfter

LEMMA PlacesAfterBound == \A s \in Places : PlacesAfter(s) \in 0 .. 7
BY PlacesAfterAre, EnsuredFacts DEF Places

LEMMA WorkLeftBound ==
    ASSUME ActsOK, NEW p \in Procs
    PROVE  WorkLeft(p) \in 0 .. 32 /\ (Working(p) => WorkLeft(p) > 0)
<1>1. CASE Working(p)
  <2>1. Doing(p) \in Places /\ Posts(p) \in 0 .. 3
    BY <1>1, ActFacts
  <2>2. PICK k \in 0 .. 7, n \in 0 .. 3 : k = PlacesAfter(Doing(p)) /\ n = Posts(p)
    BY <2>1, PlacesAfterBound
  <2>3. WorkLeft(p) = 4 * k + 4 - n
    BY <1>1, <2>2 DEF WorkLeft
  <2> QED
    BY <2>2, <2>3
<1>2. CASE ~Working(p)
  BY <1>2 DEF WorkLeft
<1> QED
  BY <1>1, <1>2

\* What comes after an object is further on.
LEMMA AfterIsLater ==
    ASSUME ActsOK, NEW p \in Procs, Working(p), NEW o \in Ensured
    PROVE  After(p, o) \in Places /\ PlacesAfter(After(p, o)) < PlacesAfter(o)
<1>1. HasPassword(p) \in BOOLEAN
  BY ActFacts
<1>2. CASE o = "mailbox"
  <2>1. After(p, o) = "user"
    BY <1>2 DEF After
  <2> QED
    BY <1>2, <2>1, PlacesAfterAre, EnsuredFacts DEF Places
<1>3. CASE o = "user"
  <2>1. After(p, o) = "workflow"
    BY <1>3 DEF After
  <2> QED
    BY <1>3, <2>1, PlacesAfterAre, EnsuredFacts DEF Places
<1>4. CASE o = "workflow"
  <2>1. After(p, o) \in {"account", "attrs"}
    BY <1>1, <1>4 DEF After, HasPassword
  <2> QED
    BY <1>4, <2>1, PlacesAfterAre, EnsuredFacts DEF Places
<1>5. CASE o = "account"
  <2>1. After(p, o) = "rule"
    BY <1>5 DEF After
  <2> QED
    BY <1>5, <2>1, PlacesAfterAre, EnsuredFacts DEF Places
<1>6. CASE o = "rule"
  <2>1. After(p, o) = "attrs"
    BY <1>6 DEF After
  <2> QED
    BY <1>6, <2>1, PlacesAfterAre, EnsuredFacts DEF Places
<1> QED
  BY <1>2, <1>3, <1>4, <1>5, <1>6, EnsuredFacts

\* Each step of an activation is a step towards its end, whatever fails.
LEMMA WorkDescends ==
    ASSUME ActsOK, CallsCounted, NEW p \in Procs, Onboard(p)
    PROVE  WorkLeft(p)' < WorkLeft(p)
<1> USE PlacesAfterAre
<1>1. Working(p)
  BY DEF Onboard, FetchUser, FetchFails, LookUp, Post, CallFails, StorePassword, Conclude, Working
<1>2. Doing(p) \in Places /\ Posts(p) \in 0 .. 3 /\ HasPassword(p) \in BOOLEAN
  BY <1>1, ActFacts
<1>3. /\ "user" \in Places /\ "mailbox" \in Places /\ "store" \in Places
      /\ 0 \in 0 .. 3 /\ 1 \in 0 .. 3 /\ TRUE \in BOOLEAN
  BY EnsuredFacts DEF Places
<1>4. ASSUME Return(p) PROVE WorkLeft(p)' < WorkLeft(p)
  <2>1. act'[p] = Idle
    BY <1>4, ReturnActs
  <2>2. WorkLeft(p)' = 0
    BY <2>1 DEF WorkLeft, Working
  <2> QED
    BY <1>1, <2>2, WorkLeftBound
<1>5. ASSUME NEW s \in Places, NEW n \in 0 .. 3, NEW b, Changes(p, s, n, b),
             \/ PlacesAfter(s) < PlacesAfter(Doing(p))
             \/ s = Doing(p) /\ n > Posts(p)
      PROVE  WorkLeft(p)' < WorkLeft(p)
  <2>1. PICK k \in 0 .. 7, j \in 0 .. 7, m \in 0 .. 3 :
             k = PlacesAfter(Doing(p)) /\ j = PlacesAfter(s) /\ m = Posts(p)
    BY <1>2, PlacesAfterBound
  <2>2. Doing(p)' = s /\ Posts(p)' = n
    BY <1>5, GoesOnFacts DEF Changes
  <2>3. WorkLeft(p) = 4 * k + 4 - m
    BY <1>1, <2>1 DEF WorkLeft
  <2>4. WorkLeft(p)' = 4 * j + 4 - n \/ WorkLeft(p)' = 0
    <3>1. PlacesAfter(Doing(p))' = j
      BY <2>1, <2>2 DEF PlacesAfter
    <3> QED
      BY <2>2, <3>1 DEF WorkLeft
  <2>5. j < k \/ (j = k /\ n > m)
    BY <1>5, <2>1
  <2>6. 4 * j + 4 - n < 4 * k + 4 - m /\ 0 < 4 * k + 4 - m
    BY <2>1, <2>5
  <2> QED
    BY <2>3, <2>4, <2>6
<1>6. ASSUME Doing(p) \in Ensured, Proceed(p, After(p, Doing(p)))
      PROVE  WorkLeft(p)' < WorkLeft(p)
  <2>1. After(p, Doing(p)) \in Places /\ PlacesAfter(After(p, Doing(p))) < PlacesAfter(Doing(p))
    BY <1>1, <1>6, AfterIsLater
  <2>2. Changes(p, After(p, Doing(p)), 0, HasPassword(p))
    BY <1>1, <1>3, <1>6, <2>1, AtPostsChange DEF Proceed
  <2> QED
    BY <1>3, <1>5, <2>1, <2>2
<1>7. CASE FetchUser(p)
  <2>1. Doing(p) = "fetch"
    BY <1>7 DEF FetchUser, Doing
  <2>2. CASE dirFaults' > dirFaults
    BY <1>4, <1>7, <2>2 DEF FetchUser, Abandon
  <2>3. CASE ~(dirFaults' > dirFaults)
    <3>1. PICK s \in {"mailbox", "user"} : s = IF Whose(p) \in WithMail THEN "mailbox" ELSE "user"
      OBVIOUS
    <3>2. (Whose(p) \in stored) \in BOOLEAN
      OBVIOUS
    <3>3. act' = [act EXCEPT ![p].at = s, ![p].password = Whose(p) \in stored]
      BY <1>7, <2>3, <3>1 DEF FetchUser, Whose
    <3>4. Changes(p, s, Posts(p), Whose(p) \in stored)
      BY <1>1, <1>3, <3>2, <3>3, AtPasswordChange
    <3> QED
      BY <1>2, <1>3, <1>5, <2>1, <3>4
  <2> QED
    BY <2>2, <2>3
<1>8. CASE FetchFails(p) \/ Conclude(p)
  BY <1>4, <1>8 DEF FetchFails, Conclude
<1>9. CASE LookUp(p)
  <2>1. Doing(p) \in Ensured /\ Posts(p) = 0
    BY <1>9 DEF LookUp, Doing, Posts
  <2>2. CASE act' = [act EXCEPT ![p].posts = 1]
    <3>1. Changes(p, Doing(p), 1, HasPassword(p))
      BY <1>1, <1>3, <2>2, PostsChange
    <3> QED
      BY <1>2, <1>3, <1>5, <2>1, <3>1
  <2>3. CASE Proceed(p, After(p, Doing(p)))
    BY <1>6, <2>1, <2>3
  <2> QED
    BY <1>9, <2>2, <2>3 DEF LookUp, Doing
<1>10. CASE Post(p)
  <2>1. Doing(p) \in Ensured /\ Posts(p) > 0
    BY <1>10 DEF Post, Doing, Posts
  <2>2. Posts(p) <= CallsFor[Doing(p)] /\ CallsFor[Doing(p)] \in {1, 3}
    BY <1>1, <2>1, EnsuredFacts DEF CallsCounted
  <2>3. CASE Doing(p) = "mailbox"
    <3>1. act' = [act EXCEPT ![p].at = "store", ![p].posts = 0, ![p].password = TRUE]
      BY <1>10, <2>3 DEF Post, Doing
    <3>2. Changes(p, "store", 0, TRUE)
      BY <1>1, <1>3, <3>1, AllChange
    <3>3. PlacesAfter("store") < PlacesAfter(Doing(p))
      BY <2>3
    <3> QED
      BY <1>3, <1>5, <3>2, <3>3
  <2>4. CASE Doing(p) # "mailbox" /\ Posts(p) < CallsFor[Doing(p)]
    <3>1. PICK n \in 0 .. 3 : n = Posts(p) + 1
      BY <1>2, <2>2, <2>4
    <3>2. act' = [act EXCEPT ![p].posts = n]
      <4>1. ~(Posts(p) = CallsFor[Doing(p)])
        BY <1>2, <2>2, <2>4
      <4> QED
        BY <1>10, <2>4, <3>1, <4>1 DEF Post, Doing, Posts
    <3>3. Changes(p, Doing(p), n, HasPassword(p))
      BY <1>1, <3>2, PostsChange
    <3>4. n > Posts(p)
      BY <1>2, <3>1
    <3> QED
      BY <1>2, <1>5, <3>3, <3>4
  <2>5. CASE Doing(p) # "mailbox" /\ Posts(p) = CallsFor[Doing(p)]
    <3>1. Proceed(p, After(p, Doing(p)))
      <4>1. ~(Posts(p) < CallsFor[Doing(p)])
        BY <1>2, <2>2, <2>5
      <4> QED
        BY <1>10, <2>5, <4>1 DEF Post, Doing, Posts
    <3> QED
      BY <1>6, <2>1, <3>1
  <2> QED
    BY <1>2, <2>2, <2>3, <2>4, <2>5
<1>11. ASSUME Proceed(p, "user"), Doing(p) \in {"mailbox", "store"} PROVE WorkLeft(p)' < WorkLeft(p)
  <2>1. Changes(p, "user", 0, HasPassword(p))
    BY <1>1, <1>3, <1>11, AtPostsChange DEF Proceed
  <2> QED
    BY <1>3, <1>5, <1>11, <2>1
<1>12. CASE CallFails(p)
  BY <1>4, <1>11, <1>12 DEF CallFails, Abandon, Doing
<1>13. CASE StorePassword(p)
  BY <1>11, <1>13 DEF StorePassword, Doing
<1> QED
  BY <1>7, <1>8, <1>9, <1>10, <1>12, <1>13 DEF Onboard

\* A step of poll q takes a user from its round or brings the activation at hand nearer to
\* its end, or drops the round; a step of anyone else leaves both alone.
Nearer(q) ==
    \/ PollUser(q) /\ round'[q] \subseteq round[q] /\ round'[q] # round[q]
    \/ /\ Onboard(q) /\ WorkLeft(q)' < WorkLeft(q)
       /\ round'[q] \in {round[q], {}}
    \/ round'[q] = round[q] /\ act'[q] = act[q]

\* A round of the poll ends: until it has, the users it has still to look at become
\* fewer and none is added; the one at hand takes at most 32 steps, whatever call fails
\* and whatever other polls and handlers do.
THEOREM RoundsEnd ==
    OnboardingSpec =>
        [][\A q \in Polls :
              round[q] # {} \/ Working(q) => WorkLeft(q) \in 0 .. 32 /\ Nearer(q)]_obVars
<1>1. ASSUME OnboardingInv, [OnboardingNext]_obVars, NEW q \in Polls, round[q] # {} \/ Working(q)
      PROVE  Nearer(q)
  <2>1. ActsOK /\ CallsCounted /\ q \in Procs
    BY <1>1, OnboardingTypeParts DEF OnboardingInv, Procs
  <2>2. CASE PollUser(q)
    <3>1. PICK i \in DOMAIN Users : /\ Users[i] \in round[q]
                                    /\ round' = [round EXCEPT ![q] = @ \ {Users[i]}]
      BY <2>2 DEF PollUser
    <3>2. round'[q] = round[q] \ {Users[i]}
      BY <2>1, <3>1 DEF ActsOK
    <3> QED
      BY <2>2, <3>1, <3>2 DEF Nearer
  <2>3. CASE Onboard(q)
    <3>1. WorkLeft(q)' < WorkLeft(q)
      BY <2>1, <2>3, WorkDescends
    <3>2. round'[q] \in {round[q], {}}
      BY <2>3 DEF Onboard, FetchUser, FetchFails, LookUp, Post, CallFails, StorePassword, Conclude,
         Abandon
    <3> QED
      BY <2>3, <3>1, <3>2 DEF Nearer
  \* The steps of others.
  <2> DEFINE Same == round'[q] = round[q] /\ act'[q] = act[q]
  <2>4. ASSUME NEW p \in Procs \ {q}, NEW u, Start(p, u) PROVE act'[q] = act[q]
    BY <2>1, <2>4 DEF Start, ActsOK
  <2>5. ASSUME NEW p \in Polls \ {q}, Poll(p) PROVE Same
    <3>1. p \in Procs \ {q}
      BY DEF Procs
    <3>2. round'[q] = round[q]
      BY <2>1, <2>5 DEF Poll, PollList, PollUser, ActsOK
    <3>3. act'[q] = act[q]
      BY <2>4, <2>5, <3>1 DEF Poll, PollList, PollUser
    <3> QED
      BY <3>2, <3>3
  <2>6. ~PollList(q)
    BY <1>1 DEF PollList, Working
  <2>7. ASSUME NEW h \in Callers, NEW u \in AllUsers,
               handleAuthentikWebhook(h, u) \/ createUser(h, u)
        PROVE  Same
    <3>1. h \in Procs \ {q}
      BY OnboardingAssumption DEF Procs
    <3> QED
      BY <2>4, <2>7, <3>1 DEF handleAuthentikWebhook, createUser
  <2>8. ASSUME NEW u \in AllUsers, deleteUser(u) PROVE Same
    BY <2>8 DEF deleteUser
  <2>9. ASSUME NEW p \in Procs \ {q}, Onboard(p) PROVE Same
    <3>1. act'[q] = act[q]
      <4>1. ObjectsOK /\ SetsOK /\ Passed
        BY <1>1, OnboardingTypeParts DEF OnboardingInv
      <4> QED
        BY <2>1, <2>9, <4>1, OnboardAdvances DEF Advances
    <3>2. round'[q] = round[q]
      BY <2>9 DEF Onboard, FetchUser, FetchFails, LookUp, Post, CallFails, StorePassword, Conclude,
         Abandon
    <3> QED
      BY <3>1, <3>2
  <2>10. ASSUME UNCHANGED obVars PROVE Same
    BY <2>10 DEF obVars
  <2>11. Same => Nearer(q)
    BY DEF Nearer
  <2> HIDE DEF Same
  <2> QED
    BY <1>1, <2>1, <2>2, <2>3, <2>5, <2>6, <2>7, <2>8, <2>9, <2>10, <2>11 DEF OnboardingNext, Poll
<1>2. OnboardingInv /\ [OnboardingNext]_obVars =>
          [\A q \in Polls : round[q] # {} \/ Working(q) =>
              WorkLeft(q) \in 0 .. 32 /\ Nearer(q)]_obVars
  <2>1. OnboardingInv => \A q \in Polls : WorkLeft(q) \in 0 .. 32
    BY WorkLeftBound, OnboardingTypeParts DEF OnboardingInv, Procs
  <2> QED
    BY <1>1, <2>1
<1> QED
  BY <1>2, OnboardingInvariance, PTL DEF OnboardingSpec

-----------------------------------------------------------------------------
(* The two together, as MCAccounts composes them *)

\* A behaviour of the composition is a behaviour of each part: the part that does not
\* move stutters, and what Onboarding asks of the schedule is asked of the composition.
THEOREM BothParts == MCSpec => Spec /\ OnboardingSpec
<1>1. MCInit => Init /\ OnboardingInit
  BY DEF MCInit
<1>2. [MCNext]_<<vars, obVars, focus>> => [Next]_vars /\ [OnboardingNext]_obVars
  BY DEF MCNext, vars, obVars
<1> QED
  BY <1>1, <1>2, PTL DEF MCSpec, Spec, OnboardingSpec

\* In the composition every variable of both parts keeps its type, whichever moves.
THEOREM BothTyped == MCSpec => []AllTypesOK
<1>1. TypeOK /\ OnboardingTypeOK => AllTypesOK
  BY DEF AllTypesOK
<1> QED
  BY <1>1, BothParts, AccountsTyped, OnboardingTyped, PTL

\* What is proved of each part holds of their composition: attributes, passwords,
\* profiles and the objects of the users that are onboarded.
THEOREM BothKeep ==
    MCSpec => [](/\ AttributesKept /\ PasswordUsable /\ ProfileReadsFresh
                 /\ EnsuredOnce /\ OnboardedWhole)
<1> QED
  BY BothParts, NothingLost, PasswordOpens, ReadersUpToDate, NoDuplicates, NothingSkipped, PTL

=============================================================================
