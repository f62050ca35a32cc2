----------------------------- MODULE Bootstrap -----------------------------
(***************************************************************************)
(* The provisioning state machine of the API (BootstrapService), its event *)
(* table in Postgres, and the three systems it provisions.                 *)
(*                                                                         *)
(* A job is one activation of asynchronous code: a pipeline started by     *)
(* startBootstrap (Runs), an HTTP call of verify-dns or verify-ports       *)
(* (Probers), or the administrator's re-provisioning of Authentik (Admin). *)
(* An action is what Node runs between two awaits, so jobs interleave at   *)
(* every await. The process may crash between any two actions; Postgres    *)
(* and the provisioned systems survive.                                    *)
(***************************************************************************)
EXTENDS Naturals, Sequences

CONSTANTS
    Runs,            \* activations of the pipeline in one process
    Probers,         \* HTTP calls of verify-dns / verify-ports
    Admin,           \* the activation of POST /admin/reprovision-authentik
    MaxDisturbances  \* bound: crashes, lost rows, HTTP probes and
                     \* re-provisionings over the whole behaviour

ASSUME BootstrapAssumption ==
    /\ Runs \cap Probers = {}
    /\ Admin \notin Runs \cup Probers
    /\ MaxDisturbances \in Nat

Jobs == Runs \cup Probers \cup {Admin}

-----------------------------------------------------------------------------
(* Bootstrap states, events and what is provisioned                        *)

BootstrapState ==
    {"UNINITIALIZED", "DNS_CHECK", "CREATING_SECRETS", "AUTHENTIK_SETUP",
     "MAILCOW_SETUP", "TRAEFIK_CONFIG", "READY"}

Rank == [UNINITIALIZED |-> 0, DNS_CHECK |-> 1, CREATING_SECRETS |-> 2,
         AUTHENTIK_SETUP |-> 3, MAILCOW_SETUP |-> 4, TRAEFIK_CONFIG |-> 5,
         READY |-> 6]

\* The transition the pipeline makes when it has finished a state.
Successor == [DNS_CHECK |-> "CREATING_SECRETS",
              CREATING_SECRETS |-> "AUTHENTIK_SETUP",
              AUTHENTIK_SETUP |-> "MAILCOW_SETUP",
              MAILCOW_SETUP |-> "TRAEFIK_CONFIG",
              TRAEFIK_CONFIG |-> "READY"]

Provisioning == {"AUTHENTIK_SETUP", "MAILCOW_SETUP", "TRAEFIK_CONFIG"}

EventSteps == {"transition", "dns", "ports", "dns-warn", "provisioned", "error"}
BootstrapEvent == [state : BootstrapState, step : EventSteps]
NoEvent == [state |-> "UNINITIALIZED", step |-> "none"]

\* What each provision() creates, in the order of its calls. "extras" stands
\* for the branding, the LDAP mappings and the Paperless login, whose failures
\* are all caught and on which nothing later depends; "routes" for the two
\* files Traefik reads.
AuthentikCalls == <<"adminUser", "adminPassword", "portalProvider", "portalApp", "extras">>
MailcowCalls == <<"mailDomain", "adminMailbox", "dkim">>
TraefikCalls == <<"routes">>

Calls == [AUTHENTIK_SETUP |-> AuthentikCalls,
          MAILCOW_SETUP   |-> MailcowCalls,
          TRAEFIK_CONFIG  |-> TraefikCalls]

Parts == {"adminUser", "adminPassword", "portalProvider", "portalApp", "extras",
          "mailDomain", "adminMailbox", "dkim", "routes"}

\* Created only when a lookup does not find them; the others are written blindly.
LookedUp == {"adminUser", "portalProvider", "portalApp", "mailDomain", "adminMailbox"}

\* Authentik refuses a second user, provider or application of that name.
UniqueNamed == {"adminUser", "portalProvider", "portalApp"}

\* Fault: a failing set_password is caught too.
NonFatal_Password == {"extras", "adminPassword"}

\* A failure here is caught and logged; any other failure rejects provision().
NonFatal == {"extras"}

-----------------------------------------------------------------------------
VARIABLES
    up,            \* the API process runs
    currentState,  \* BootstrapService.currentState
    lastEvent,     \* the tail of eventLog in memory, or NoEvent
    lastRow,       \* the row of onboarding_events with the latest createdAt
    readyRow,      \* some row of onboarding_events has state READY
    exists,        \* the parts that exist in Authentik, Mailcow and Traefik
    phase,         \* where each job is
    stage,         \* the state whose calls a job makes
    idx,           \* index into Calls[stage] of the next call
    saving,        \* the event whose INSERT a job awaits, or NoEvent
    verified,      \* what the running pipeline's DNS and port checks found
    crashes,       \* crashes of the process so far
    lost,          \* events whose INSERT failed so far
    probes,        \* HTTP probes so far
    reprovisions,  \* re-provisionings so far
    starts         \* pipelines started so far

memory == <<currentState, lastEvent, phase, stage, idx, saving, verified>>
counters == <<crashes, lost, probes, reprovisions, starts>>
vars == <<up, lastRow, readyRow, exists, memory, counters>>

Phases == {"idle", "failed", "dns", "dnsReply", "ports", "portsReply",
           "advance", "look", "make"}

-----------------------------------------------------------------------------
(* Helpers                                                                 *)

\* persistEvent is awaited: a job goes on when its INSERT has returned.
Awake(j) == up /\ saving[j] = NoEvent

MayDisturb == crashes + lost + probes + reprovisions < MaxDisturbances

emitEvent(j, state, step) ==
    /\ lastEvent' = [state |-> state, step |-> step]
    /\ saving' = [saving EXCEPT ![j] = [state |-> state, step |-> step]]

GoTo(j, ph) == phase' = [phase EXCEPT ![j] = ph]

\* Fault: the event is emitted before currentState is assigned.
transition_EventFirst(j, state) ==
    /\ currentState' = state
    /\ stage' = [stage EXCEPT ![j] = state]
    /\ emitEvent(j, currentState, "transition")

transition(j, state) ==
    /\ currentState' = state
    /\ stage' = [stage EXCEPT ![j] = state]
    /\ emitEvent(j, state, "transition")

\* The call the job is about to make.
Call(j) == Calls[stage[j]][idx[j]]
HasCall(j) == idx[j] \in 1 .. Len(Calls[stage[j]])

\* The next call after skipping n of them.
Skip(j, n) ==
    /\ idx' = [idx EXCEPT ![j] = @ + n]
    /\ GoTo(j, "look")
    /\ UNCHANGED <<currentState, lastEvent, saving>>

\* Fault: the pipeline repeats the failed call for ever.
Reject_Retries(j) ==
    /\ UNCHANGED <<currentState, idx, lastEvent, saving>>
    /\ GoTo(j, IF j \in Runs THEN "look" ELSE "idle")

\* An exception leaves provision(): the pipeline's catch handler logs an
\* 'error' event and leaves currentState where it was; the admin call answers
\* 500.
Reject(j) ==
    /\ UNCHANGED <<currentState, idx>>
    /\ IF j \in Runs
       THEN GoTo(j, "failed") /\ emitEvent(j, currentState, "error")
       ELSE GoTo(j, "idle") /\ UNCHANGED <<lastEvent, saving>>

\* Fault: every failure is treated as non-fatal.
Fail_Swallowed(j) == Skip(j, 1)

\* A failed call, or a service that does not become ready in time.
Fail(j) == IF Call(j) \in NonFatal THEN Skip(j, 1) ELSE Reject(j)

\* The effects of startBootstrap up to its first await: the check of
\* currentState and the first transition run without an await between them.
BeginPipeline(r) ==
    /\ currentState' = "DNS_CHECK"
    /\ stage' = [j \in Jobs |-> IF j = r THEN "DNS_CHECK" ELSE stage[j]]
    /\ lastEvent' = [state |-> "DNS_CHECK", step |-> "transition"]
    /\ saving' = [saving EXCEPT ![r] = [state |-> "DNS_CHECK", step |-> "transition"]]
    /\ GoTo(r, "dns")
    /\ verified' = "unknown"
    /\ starts' = starts + 1
    /\ UNCHANGED idx

-----------------------------------------------------------------------------
Init ==
    /\ up = FALSE
    /\ currentState = "UNINITIALIZED"
    /\ lastEvent = NoEvent
    /\ lastRow = NoEvent
    /\ readyRow = FALSE
    /\ exists = {}
    /\ phase = [j \in Jobs |-> "idle"]
    /\ stage = [j \in Jobs |-> "UNINITIALIZED"]
    /\ idx = [j \in Jobs |-> 1]
    /\ saving = [j \in Jobs |-> NoEvent]
    /\ verified = "unknown"
    /\ crashes = 0 /\ lost = 0 /\ probes = 0 /\ reprovisions = 0 /\ starts = 0

-----------------------------------------------------------------------------
(* Process start and crash                                                 *)

\* Fault: the rows are read in descending order, so the oldest one stays.
RestoredRow_Descending(readable) ==
    IF readable /\ lastRow # NoEvent
    THEN [state |-> "DNS_CHECK", step |-> "transition"]
    ELSE NoEvent

\* restoreStateFromDb: each row overwrites the state the one before it set, so
\* the last one stays. An unreadable table is logged and counts as empty.
RestoredRow(readable) == IF readable THEN lastRow ELSE NoEvent

\* onModuleInit of a process that does not start the pipeline: the restored
\* state is not UNINITIALIZED, or the environment is incomplete.
Boot(readable) ==
    /\ ~up
    /\ up' = TRUE
    /\ currentState' = RestoredRow(readable).state
    /\ lastEvent' = RestoredRow(readable)
    /\ UNCHANGED <<lastRow, readyRow, exists, phase, stage, idx, saving, verified,
                   counters>>

\* onModuleInit, maybeAutoStart: UNINITIALIZED with a complete environment.
BootAndStart(readable, r) ==
    /\ ~up
    /\ RestoredRow(readable).state = "UNINITIALIZED"
    /\ up' = TRUE
    /\ BeginPipeline(r)
    /\ UNCHANGED <<lastRow, readyRow, exists, crashes, lost, probes, reprovisions>>

\* The process dies: memory and every job are gone, the rest stays.
Crash ==
    /\ up
    /\ MayDisturb
    /\ up' = FALSE
    /\ crashes' = crashes + 1
    /\ currentState' = "UNINITIALIZED"
    /\ lastEvent' = NoEvent
    /\ phase' = [j \in Jobs |-> "idle"]
    /\ stage' = [j \in Jobs |-> "UNINITIALIZED"]
    /\ idx' = [j \in Jobs |-> 1]
    /\ saving' = [j \in Jobs |-> NoEvent]
    /\ verified' = "unknown"
    /\ UNCHANGED <<lastRow, readyRow, exists, lost, probes, reprovisions, starts>>

\* persistEvent: the INSERT succeeds, or its error is logged and swallowed.
persistEvent(j) ==
    /\ up
    /\ saving[j] # NoEvent
    /\ saving' = [saving EXCEPT ![j] = NoEvent]
    /\ \/ /\ lastRow' = saving[j]
          /\ readyRow' = (readyRow \/ saving[j].state = "READY")
          /\ UNCHANGED lost
       \/ /\ MayDisturb
          /\ lost' = lost + 1
          /\ UNCHANGED <<lastRow, readyRow>>
    /\ UNCHANGED <<up, currentState, lastEvent, exists, phase, stage, idx,
                   verified, crashes, probes, reprovisions, starts>>

-----------------------------------------------------------------------------
(* The pipeline                                                            *)

\* Fault: the check of currentState is missing.
startBootstrap_Unchecked(r) ==
    /\ up
    /\ phase[r] = "idle"
    /\ BeginPipeline(r)
    /\ UNCHANGED <<up, lastRow, readyRow, exists, crashes, lost, probes, reprovisions>>

\* Fault: a pipeline that failed may be started again.
startBootstrap_AfterFailure(r) ==
    /\ up
    /\ phase[r] = "idle"
    /\ currentState = "UNINITIALIZED" \/ \E q \in Runs : phase[q] = "failed"
    /\ BeginPipeline(r)
    /\ UNCHANGED <<up, lastRow, readyRow, exists, crashes, lost, probes, reprovisions>>

\* POST /bootstrap/start.
startBootstrap(r) ==
    /\ up
    /\ phase[r] = "idle"
    /\ currentState = "UNINITIALIZED"
    /\ BeginPipeline(r)
    /\ UNCHANGED <<up, lastRow, readyRow, exists, crashes, lost, probes, reprovisions>>

\* A job leaves verifyDNS or verifyPorts by an exception. The pipeline logs a
\* warning and goes on; the HTTP handlers answer ok: false.
ProbeFails(j) ==
    IF j \in Runs
    THEN /\ emitEvent(j, "DNS_CHECK", "dns-warn")
         /\ GoTo(j, "advance")
         /\ verified' = "failed"
    ELSE /\ GoTo(j, "idle")
         /\ UNCHANGED <<lastEvent, saving, verified>>

ProbeUnchanged == UNCHANGED <<up, currentState, lastRow, readyRow, exists, stage, idx,
                              crashes, lost, reprovisions, starts>>

\* verifyDNS and verifyPorts announce the check, in a pipeline or, at any
\* time, in an HTTP call.
verifyDNS(j) ==
    /\ Awake(j)
    /\ \/ j \in Runs /\ phase[j] = "dns" /\ UNCHANGED probes
       \/ /\ j \in Probers /\ phase[j] = "idle"
          /\ MayDisturb /\ probes' = probes + 1
    /\ emitEvent(j, "DNS_CHECK", "dns")
    /\ GoTo(j, "dnsReply")
    /\ UNCHANGED verified
    /\ ProbeUnchanged

verifyPorts(j) ==
    /\ Awake(j)
    /\ \/ j \in Runs /\ phase[j] = "ports" /\ UNCHANGED probes
       \/ /\ j \in Probers /\ phase[j] = "idle"
          /\ MayDisturb /\ probes' = probes + 1
    /\ emitEvent(j, "DNS_CHECK", "ports")
    /\ GoTo(j, "portsReply")
    /\ UNCHANGED verified
    /\ ProbeUnchanged

DnsReply(j) ==
    /\ Awake(j)
    /\ phase[j] = "dnsReply"
    /\ \/ /\ emitEvent(j, "DNS_CHECK", "dns")
          /\ GoTo(j, IF j \in Runs THEN "ports" ELSE "idle")
          /\ UNCHANGED verified
       \/ ProbeFails(j)
    /\ UNCHANGED probes
    /\ ProbeUnchanged

PortsReply(j) ==
    /\ Awake(j)
    /\ phase[j] = "portsReply"
    /\ \/ /\ emitEvent(j, "DNS_CHECK", "ports")
          /\ GoTo(j, IF j \in Runs THEN "advance" ELSE "idle")
          /\ verified' = IF j \in Runs THEN "passed" ELSE verified
       \/ ProbeFails(j)
    /\ UNCHANGED probes
    /\ ProbeUnchanged

\* Fault: the calls of the next state are counted from zero.
EnterNextState_FromZero(r) ==
    /\ Awake(r)
    /\ phase[r] = "advance"
    /\ LET next == Successor[stage[r]]
       IN  /\ transition(r, next)
           /\ GoTo(r, CASE next \in Provisioning -> "look"
                        [] next = "READY" -> "idle"
                        [] OTHER -> "advance")
    /\ idx' = [idx EXCEPT ![r] = 0]
    /\ UNCHANGED <<up, lastRow, readyRow, exists, verified, counters>>

\* The pipeline enters its next state; READY is its last.
EnterNextState(r) ==
    /\ Awake(r)
    /\ phase[r] = "advance"
    /\ LET next == Successor[stage[r]]
       IN  /\ transition(r, next)
           /\ GoTo(r, CASE next \in Provisioning -> "look"
                        [] next = "READY" -> "idle"
                        [] OTHER -> "advance")
    /\ idx' = [idx EXCEPT ![r] = 1]
    /\ UNCHANGED <<up, lastRow, readyRow, exists, verified, counters>>

-----------------------------------------------------------------------------
(* provision(): the calls of one provisioning state                        *)

\* POST /admin/reprovision-authentik: the Authentik calls outside the pipeline.
reprovisionAuthentik ==
    /\ Awake(Admin)
    /\ phase[Admin] = "idle"
    /\ MayDisturb
    /\ reprovisions' = reprovisions + 1
    /\ stage' = [stage EXCEPT ![Admin] = "AUTHENTIK_SETUP"]
    /\ idx' = [idx EXCEPT ![Admin] = 1]
    /\ GoTo(Admin, "look")
    /\ UNCHANGED <<up, currentState, lastEvent, lastRow, readyRow, exists, saving, verified,
                   crashes, lost, probes, starts>>

\* The lookup before a creation. An existing admin user is returned as it is,
\* so its password is not set.
Look(j) ==
    /\ Awake(j)
    /\ phase[j] = "look"
    /\ HasCall(j)
    /\ Call(j) \in LookedUp
    /\ \/ /\ Call(j) \in exists
          /\ Skip(j, IF Call(j) = "adminUser" THEN 2 ELSE 1)
       \/ /\ Call(j) \notin exists
          /\ GoTo(j, "make")
          /\ UNCHANGED <<currentState, lastEvent, idx, saving>>
       \/ Fail(j)
    /\ UNCHANGED <<up, lastRow, readyRow, exists, stage, verified, counters>>

\* The creation or the write. It may be applied although its reply is lost,
\* and Authentik rejects a name another job has created since the lookup.
Make(j) ==
    /\ Awake(j)
    /\ phase[j] \in {"look", "make"}
    /\ HasCall(j)
    /\ phase[j] = "make" \/ Call(j) \notin LookedUp
    /\ \/ /\ ~(Call(j) \in UniqueNamed /\ Call(j) \in exists)
          /\ exists' = exists \cup {Call(j)}
          /\ Skip(j, 1)
       \/ /\ exists' \in {exists, exists \cup {Call(j)}}
          /\ Fail(j)
    /\ UNCHANGED <<up, lastRow, readyRow, stage, verified, counters>>

\* provision() returns: the pipeline reports and goes on to its next state.
Provisioned(j) ==
    /\ Awake(j)
    /\ phase[j] = "look"
    /\ ~HasCall(j)
    /\ IF j \in Runs
       THEN emitEvent(j, stage[j], "provisioned") /\ GoTo(j, "advance")
       ELSE GoTo(j, "idle") /\ UNCHANGED <<lastEvent, saving>>
    /\ UNCHANGED <<up, currentState, lastRow, readyRow, exists, stage, idx, verified, counters>>

-----------------------------------------------------------------------------
PipelineStep(j) ==
    \/ verifyDNS(j) /\ j \in Runs
    \/ verifyPorts(j) /\ j \in Runs
    \/ DnsReply(j)
    \/ PortsReply(j)
    \/ EnterNextState(j)
    \/ Look(j)
    \/ Make(j)
    \/ Provisioned(j)
    \/ persistEvent(j)

Next ==
    \/ \E readable \in BOOLEAN : Boot(readable)
    \/ \E readable \in BOOLEAN, r \in Runs : BootAndStart(readable, r)
    \/ Crash
    \/ \E r \in Runs : startBootstrap(r)
    \/ \E j \in Runs \cup Probers : verifyDNS(j)
    \/ \E j \in Runs \cup Probers : verifyPorts(j)
    \/ \E j \in Runs \cup Probers : DnsReply(j)
    \/ \E j \in Runs \cup Probers : PortsReply(j)
    \/ \E r \in Runs : EnterNextState(r)
    \/ \E j \in Jobs : persistEvent(j)
    \/ reprovisionAuthentik
    \/ \E j \in Runs \cup {Admin} : Look(j)
    \/ \E j \in Runs \cup {Admin} : Make(j)
    \/ \E j \in Runs \cup {Admin} : Provisioned(j)

Spec == Init /\ [][Next]_vars

\* Node runs a job that can go on, and every remote call returns or fails.
FairSpec ==
    /\ Spec
    /\ \A r \in Runs : WF_vars(PipelineStep(r))

-----------------------------------------------------------------------------
(* Properties                                                              *)

TypeOK ==
    /\ up \in BOOLEAN
    /\ currentState \in BootstrapState
    /\ lastEvent \in BootstrapEvent \cup {NoEvent}
    /\ lastRow \in BootstrapEvent \cup {NoEvent}
    /\ readyRow \in BOOLEAN
    /\ exists \subseteq Parts
    /\ phase \in [Jobs -> Phases]
    /\ stage \in [Jobs -> BootstrapState]
    /\ idx \in [Jobs -> Nat \ {0}]
    /\ saving \in [Jobs -> BootstrapEvent \cup {NoEvent}]
    /\ verified \in {"unknown", "passed", "failed"}
    /\ crashes \in Nat /\ lost \in Nat /\ probes \in Nat
    /\ reprovisions \in Nat /\ starts \in Nat

Active(r) == phase[r] \notin {"idle", "failed"}

\* The pipeline never runs twice at a time: two HTTP starts, or a start beside
\* the automatic one, cannot both pass the check of currentState.
SinglePipeline ==
    \A r1, r2 \in Runs : Active(r1) /\ Active(r2) => r1 = r2

\* The parts whose creation a later state relies on. The admin password is not
\* among them: a retry that finds the admin user does not set it.
Essential == {"adminUser", "portalProvider", "portalApp", "mailDomain",
              "adminMailbox", "dkim", "routes"}

CallsOf(s) == {Calls[s][i] : i \in 1 .. Len(Calls[s])}

Required(s) ==
    {p \in Essential :
        \E t \in Provisioning : Rank[t] < Rank[s] /\ p \in CallsOf(t)}

\* The state never promises more than has been done: whatever failed, crashed
\* or was restored, the systems of the earlier states are provisioned, and in
\* READY all of them are.
StateImpliesParts == Required(currentState) \subseteq exists

\* The portal shows the state of the last event it received. That is the
\* server's state whenever the last event is not one of a DNS or port check.
LogTailTellsState ==
    (up /\ lastEvent.step \notin {"dns", "ports", "dns-warn"})
        => lastEvent.state = currentState

\* READY without an admin password happens only if a second attempt at
\* provisioning found the user an earlier attempt left without one.
PasswordUnlessRetried ==
    (currentState = "READY" /\ starts = 1 /\ reprovisions = 0)
        => "adminPassword" \in exists

\* A system that was READY is READY after a restart, unless an HTTP check wrote
\* a DNS_CHECK row behind it or an unreadable table made it start over.
ReadyIsRemembered ==
    (up /\ readyRow)
        => \/ currentState \in {"READY", "UNINITIALIZED"}
           \/ probes > 0
           \/ starts > 1

\* While the process runs, the state moves only to its successor.
ForwardOnly ==
    [][up /\ up' /\ currentState' # currentState
        => Rank[currentState'] = Rank[currentState] + 1]_vars

\* A pipeline that runs reaches READY or reports an error, unless the process
\* dies under it: no failure of a remote call leaves it hanging.
PipelineConcludes ==
    \A r \in Runs :
        (up /\ Active(r)) ~>
            \/ ~up
            \/ currentState = "READY"
            \/ phase[r] = "failed"

\* README.md:27, "If the API restarts mid-provisioning it resumes from the last
\* recorded state".
ResumesAfterRestart ==
    (up /\ crashes > 0 /\ currentState \notin {"UNINITIALIZED", "READY"}) ~>
        \/ ~up
        \/ \E r \in Runs : phase[r] # "idle"
        \/ currentState = "READY"

=============================================================================
