-------------------------- MODULE BootstrapProofs --------------------------
(***************************************************************************)
(* What holds of the provisioning state machine for every set of jobs and  *)
(* every number of crashes, lost rows, checks and re-provisionings.        *)
(***************************************************************************)
EXTENDS Bootstrap, TLAPS

Callers == Runs \cup {Admin}

\* The first n - 1 calls of state s have been made, as far as they matter.
Covered(s, n) ==
    \A i \in 1 .. Len(Calls[s]) :
        i < n /\ Calls[s][i] \in Essential => Calls[s][i] \in exists

\* Nothing runs in a process that is down.
DownIsQuiet ==
    ~up => \A j \in Jobs : phase[j] = "idle" /\ saving[j] = NoEvent

\* A running pipeline works in the current state, which is not the first.
RunsInState ==
    \A r \in Runs : Active(r) =>
        stage[r] = currentState /\ currentState # "UNINITIALIZED"

\* Which phases belong to which states, and to which jobs.
PhaseFits ==
    /\ \A r \in Runs :
        /\ phase[r] \in {"dns", "dnsReply", "ports", "portsReply"} => stage[r] = "DNS_CHECK"
        /\ phase[r] = "advance" => stage[r] \in DOMAIN Successor
    /\ \A j \in Jobs : phase[j] \in {"look", "make"} => stage[j] \in Provisioning

\* A job inside provision() has made the calls before its index, and a
\* pipeline that leaves a state has made all of them.
CallsMade ==
    /\ \A j \in Callers : phase[j] \in {"look", "make"} => Covered(stage[j], idx[j])
    /\ \A r \in Runs :
        phase[r] = "advance" /\ stage[r] \in Provisioning
            => CallsOf(stage[r]) \cap Essential \subseteq exists

\* Every state that is current, stored or about to be stored is honest.
Honest ==
    /\ Required(currentState) \subseteq exists
    /\ Required(lastRow.state) \subseteq exists
    /\ \A j \in Jobs : Required(saving[j].state) \subseteq exists

\* The run has done something since it was last idle and saved.
Touched(r) == phase[r] # "idle" \/ saving[r] # NoEvent

\* Only a start sets a run in motion, so after one start one run has moved.
OneStart ==
    /\ starts = 0 => \A r \in Runs : ~Touched(r)
    /\ starts < 2 => \A r, q \in Runs : Touched(r) /\ Touched(q) => r = q

\* The administrator's job writes no events, and without HTTP checks the
\* probers write none either.
QuietOthers ==
    /\ saving[Admin] = NoEvent
    /\ probes = 0 => \A p \in Probers : phase[p] = "idle" /\ saving[p] = NoEvent
    /\ reprovisions = 0 => phase[Admin] = "idle"

\* After one start and no HTTP check, the row of READY is the last one.
ReadyRowLast ==
    probes = 0 /\ starts < 2 =>
        /\ \A r \in Runs :
              saving[r].state = "READY" => currentState = "READY" /\ phase[r] = "idle"
        /\ readyRow =>
              /\ starts = 1
              /\ lastRow.state = "READY"
              /\ \A r \in Runs : ~Touched(r)
              /\ up => currentState \in {"READY", "UNINITIALIZED"}

\* The state is behind the provisioning of Authentik.
Behind(s) == Rank[s] > Rank["AUTHENTIK_SETUP"]

\* The run has still to look for the admin user.
BeforeUser(r) ==
    /\ Active(r)
    /\ \/ Rank[stage[r]] < Rank["AUTHENTIK_SETUP"]
       \/ stage[r] = "AUTHENTIK_SETUP" /\ phase[r] \in {"look", "make"} /\ idx[r] = 1

\* The run has set the password of the admin user.
AfterPassword(r) ==
    /\ stage[r] = "AUTHENTIK_SETUP"
    /\ phase[r] = "advance" \/ (phase[r] \in {"look", "make"} /\ idx[r] > 2)

\* The only start creates the admin user itself, and sets its password before
\* it goes on.
PasswordFirst ==
    starts < 2 /\ reprovisions = 0 =>
        /\ (starts = 0 \/ \E r \in Runs : BeforeUser(r)) => "adminUser" \notin exists
        /\ (\/ \E r \in Runs : AfterPassword(r)
            \/ Behind(currentState)
            \/ Behind(lastRow.state)
            \/ \E j \in Jobs : Behind(saving[j].state)) => "adminPassword" \in exists

IInv ==
    /\ TypeOK
    /\ DownIsQuiet
    /\ RunsInState
    /\ SinglePipeline
    /\ PhaseFits
    /\ CallsMade
    /\ Honest
    /\ LogTailTellsState
    /\ OneStart
    /\ QuietOthers
    /\ ReadyRowLast
    /\ PasswordFirst

-----------------------------------------------------------------------------
(* Facts about the tables of states and calls                              *)

\* The pipeline's next state is a state, one rank above, and never the first.
LEMMA SuccessorFacts ==
    ASSUME NEW s \in DOMAIN Successor
    PROVE  /\ s \in BootstrapState
           /\ Successor[s] \in BootstrapState \ {"UNINITIALIZED"}
           /\ Successor[s] = "READY" \/ Successor[s] \in DOMAIN Successor
           /\ Successor[s] \in Provisioning \cup {"READY"} \/ Successor[s] = "CREATING_SECRETS"
           /\ Rank[Successor[s]] = Rank[s] + 1
BY DEF Successor, BootstrapState, Provisioning, Rank

\* Provisioning states are states the pipeline leaves by a transition.
LEMMA ProvisioningFacts ==
    /\ Provisioning \subseteq BootstrapState
    /\ Provisioning \subseteq DOMAIN Successor
    /\ "DNS_CHECK" \notin Provisioning
    /\ "AUTHENTIK_SETUP" \in Provisioning
    /\ "DNS_CHECK" \in DOMAIN Successor
    /\ "CREATING_SECRETS" \in DOMAIN Successor
    /\ {"UNINITIALIZED", "DNS_CHECK"} \subseteq BootstrapState
BY DEF Provisioning, BootstrapState, Successor

\* Every call creates a part, and the call after the lookup of the admin user
\* is the one that sets the password, which no later state relies on.
LEMMA CallFacts ==
    ASSUME NEW s \in Provisioning, NEW i \in 1 .. Len(Calls[s])
    PROVE  /\ Calls[s][i] \in Parts
           /\ Calls[s][i] = "adminUser" =>
                 i + 1 \in 1 .. Len(Calls[s]) /\ Calls[s][i + 1] = "adminPassword"
<1>1. CASE s = "AUTHENTIK_SETUP"
  BY <1>1 DEF Calls, AuthentikCalls, Parts
<1>2. CASE s = "MAILCOW_SETUP"
  BY <1>2 DEF Calls, MailcowCalls, Parts
<1>3. CASE s = "TRAEFIK_CONFIG"
  BY <1>3 DEF Calls, TraefikCalls, Parts
<1> QED
  BY <1>1, <1>2, <1>3 DEF Provisioning

\* Every event in memory or in the table carries a state.
LEMMA EventFacts ==
    /\ \A s \in BootstrapState, e \in EventSteps : [state |-> s, step |-> e] \in BootstrapEvent
    /\ \A e \in BootstrapEvent \cup {NoEvent} : e.state \in BootstrapState
BY ProvisioningFacts DEF BootstrapEvent, NoEvent

\* The first two states rely on nothing.
LEMMA RequiredOfFirst ==
    /\ Required("UNINITIALIZED") = {}
    /\ Required("DNS_CHECK") = {}
    /\ Required("CREATING_SECRETS") = {}
BY DEF Required, Provisioning, Rank

\* What a state relies on is what its predecessor relies on and makes.
LEMMA RequiredOfNext ==
    /\ \A s \in DOMAIN Successor \ Provisioning : Required(Successor[s]) = {}
    /\ \A s \in Provisioning :
          Required(Successor[s]) \subseteq Required(s) \cup (CallsOf(s) \cap Essential)
<1>1. ASSUME NEW s \in DOMAIN Successor \ Provisioning PROVE Required(Successor[s]) = {}
  BY DEF Required, Provisioning, Rank, Successor
<1>2. ASSUME NEW s \in Provisioning
      PROVE  Required(Successor[s]) \subseteq Required(s) \cup (CallsOf(s) \cap Essential)
  BY DEF Required, Provisioning, Rank, Successor
<1> QED
  BY <1>1, <1>2

\* The admin user is looked up first, and its password set right after it.
LEMMA AuthentikCallFacts ==
    /\ Calls["AUTHENTIK_SETUP"][1] = "adminUser"
    /\ Calls["AUTHENTIK_SETUP"][2] = "adminPassword"
    /\ Len(Calls["AUTHENTIK_SETUP"]) = 5
BY DEF Calls, AuthentikCalls

-----------------------------------------------------------------------------
(* The two ways a call inside provision() ends                             *)

\* Going on to a later call.
LEMMA SkipType ==
    ASSUME TypeOK, NEW j \in Callers, NEW n \in Nat, Skip(j, n)
    PROVE  /\ phase' \in [Jobs -> Phases]
           /\ idx' \in [Jobs -> Nat \ {0}]
           /\ UNCHANGED <<currentState, lastEvent, saving>>
BY DEF TypeOK, Callers, Jobs, Skip, GoTo, Phases

\* Leaving provision() by an exception.
LEMMA RejectType ==
    ASSUME TypeOK, NEW j \in Callers, Reject(j)
    PROVE  /\ phase' \in [Jobs -> Phases]
           /\ lastEvent' \in BootstrapEvent \cup {NoEvent}
           /\ saving' \in [Jobs -> BootstrapEvent \cup {NoEvent}]
           /\ UNCHANGED <<currentState, idx>>
<1>1. [state |-> currentState, step |-> "error"] \in BootstrapEvent
  BY DEF TypeOK, BootstrapEvent, EventSteps
<1>2. CASE j \in Runs
  BY <1>1, <1>2 DEF TypeOK, Callers, Jobs, Reject, emitEvent, GoTo, Phases
<1>3. CASE j \notin Runs
  BY <1>3 DEF TypeOK, Callers, Jobs, Reject, GoTo, Phases
<1> QED
  BY <1>2, <1>3

\* Going on is right when the call made, and the one skipped with it, has been
\* done or does not matter.
LEMMA SkipCalls ==
    ASSUME TypeOK, CallsMade, NEW j \in Callers, NEW n \in {1, 2}, Skip(j, n),
           phase[j] \in {"look", "make"}, UNCHANGED stage, exists \subseteq exists',
           \A i \in {idx[j], idx[j] + n - 1} :
               Calls[stage[j]][i] \in Essential => Calls[stage[j]][i] \in exists'
    PROVE  CallsMade'
<1> USE DEF TypeOK, Callers, Jobs
<1>1. idx[j] \in Nat /\ idx'[j] = idx[j] + n /\ \A k \in Callers \ {j} : idx'[k] = idx[k]
  BY DEF Skip
<1>2. Covered(stage[j], idx[j])
  BY DEF CallsMade
<1>3. ASSUME NEW i \in 1 .. Len(Calls[stage[j]]), i < idx'[j], Calls[stage[j]][i] \in Essential
      PROVE  Calls[stage[j]][i] \in exists'
  <2>1. i < idx[j] \/ i = idx[j] \/ i = idx[j] + n - 1
    BY <1>1, <1>3
  <2>2. CASE i < idx[j]
    BY <1>2, <1>3, <2>2 DEF Covered
  <2>3. CASE i \in {idx[j], idx[j] + n - 1}
    BY <1>3, <2>3
  <2> QED
    BY <2>1, <2>2, <2>3
<1>4. ASSUME NEW k \in Callers, phase'[k] \in {"look", "make"}
      PROVE  Covered(stage[k], idx[k])'
  <2>1. CASE k = j
    BY <1>3, <2>1 DEF Covered
  <2>2. CASE k # j
    BY <1>1, <1>4, <2>2 DEF CallsMade, Covered, Skip, GoTo
  <2> QED
    BY <2>1, <2>2
<1>5. ASSUME NEW r \in Runs, phase'[r] = "advance", stage[r] \in Provisioning
      PROVE  CallsOf(stage[r]) \cap Essential \subseteq exists'
  BY <1>5 DEF CallsMade, Skip, GoTo
<1> QED
  BY <1>4, <1>5 DEF CallsMade, CallsOf

\* A job that leaves provision() claims nothing.
LEMMA RejectCalls ==
    ASSUME TypeOK, CallsMade, NEW j \in Callers, Reject(j), UNCHANGED stage,
           exists \subseteq exists'
    PROVE  CallsMade'
BY DEF TypeOK, Callers, Jobs, CallsMade, Covered, CallsOf, Reject, GoTo

-----------------------------------------------------------------------------
(* The inductive step, one part of the invariant at a time                 *)

\* Every step keeps the types.
LEMMA TypeStep ==
    ASSUME TypeOK, PhaseFits, [Next]_vars
    PROVE  TypeOK'
<1> USE BootstrapAssumption, ProvisioningFacts, SuccessorFacts DEF Callers, Jobs,
       TypeOK, PhaseFits, counters, Phases
<1>1. ASSUME NEW readable \in BOOLEAN, Boot(readable) PROVE TypeOK'
  BY <1>1 DEF Boot, RestoredRow, BootstrapEvent, EventSteps, NoEvent
<1>2. ASSUME NEW readable \in BOOLEAN, NEW r \in Runs, BootAndStart(readable, r) PROVE TypeOK'
  BY <1>2 DEF BootAndStart, RestoredRow, BeginPipeline, GoTo, BootstrapEvent,
         EventSteps, NoEvent
<1>3. ASSUME Crash PROVE TypeOK'
  <2>1. "UNINITIALIZED" \in BootstrapState /\ "idle" \in Phases /\ 1 \in Nat \ {0}
    BY DEF BootstrapState
  <2>2. /\ phase' \in [Jobs -> Phases]
        /\ stage' \in [Jobs -> BootstrapState]
        /\ idx' \in [Jobs -> Nat \ {0}]
        /\ saving' \in [Jobs -> BootstrapEvent \cup {NoEvent}]
    BY <1>3, <2>1, Zenon DEF Crash
  <2>3. crashes' \in Nat
    BY <1>3 DEF Crash
  <2> QED
    BY <1>3, <2>1, <2>2, <2>3, Zenon DEF Crash
<1>4. ASSUME NEW r \in Runs, startBootstrap(r) PROVE TypeOK'
  BY <1>4 DEF startBootstrap, BeginPipeline, GoTo, BootstrapEvent, EventSteps, NoEvent
<1>5. ASSUME NEW j \in Runs \cup Probers, verifyDNS(j) PROVE TypeOK'
  BY <1>5 DEF verifyDNS, Awake, emitEvent, GoTo, ProbeUnchanged, BootstrapEvent,
         EventSteps, NoEvent
<1>6. ASSUME NEW j \in Runs \cup Probers, verifyPorts(j) PROVE TypeOK'
  BY <1>6 DEF verifyPorts, Awake, emitEvent, GoTo, ProbeUnchanged, BootstrapEvent,
         EventSteps, NoEvent
<1>7. ASSUME NEW j \in Runs \cup Probers, DnsReply(j) PROVE TypeOK'
  BY <1>7 DEF DnsReply, Awake, ProbeFails, emitEvent, GoTo, ProbeUnchanged,
         BootstrapEvent, EventSteps, NoEvent
<1>8. ASSUME NEW j \in Runs \cup Probers, PortsReply(j) PROVE TypeOK'
  BY <1>8 DEF PortsReply, Awake, ProbeFails, emitEvent, GoTo, ProbeUnchanged,
         BootstrapEvent, EventSteps, NoEvent
<1>9. ASSUME NEW r \in Runs, EnterNextState(r) PROVE TypeOK'
  BY <1>9 DEF EnterNextState, Awake, transition, emitEvent, GoTo, counters,
         BootstrapEvent, EventSteps, NoEvent
<1>10. ASSUME NEW j \in Jobs, persistEvent(j) PROVE TypeOK'
  <2>1. saving[j] \in BootstrapEvent
    BY <1>10 DEF persistEvent
  <2>2. readyRow' \in BOOLEAN
    BY <1>10, Zenon DEF persistEvent
  <2> QED
    BY <1>10, <2>1, <2>2 DEF persistEvent
<1>11. ASSUME reprovisionAuthentik PROVE TypeOK'
  BY <1>11 DEF reprovisionAuthentik, Awake, GoTo, BootstrapEvent, EventSteps, NoEvent
<1>12. ASSUME NEW j \in Callers, Look(j) PROVE TypeOK'
  <2>1. ASSUME NEW n \in {1, 2}, Skip(j, n) PROVE TypeOK'
    <3>1. /\ phase' \in [Jobs -> Phases]
          /\ idx' \in [Jobs -> Nat \ {0}]
          /\ UNCHANGED <<currentState, lastEvent, saving>>
      BY <2>1, SkipType
    <3>2. UNCHANGED <<up, lastRow, readyRow, exists, stage, verified, counters>>
      BY <1>12 DEF Look
    <3> QED
      BY <3>1, <3>2
  <2>2. CASE GoTo(j, "make") /\ UNCHANGED <<currentState, lastEvent, idx, saving>>
    BY <1>12, <2>2 DEF Look, GoTo, counters
  <2>3. CASE Reject(j)
    BY <1>12, <2>3, RejectType DEF Look, counters
  <2> QED
    BY <1>12, <2>1, <2>2, <2>3 DEF Look, Fail
<1>13. ASSUME NEW j \in Callers, Make(j) PROVE TypeOK'
  <2>0. exists' \subseteq Parts
    BY <1>13, CallFacts DEF Make, Awake, HasCall, Call
  <2>1. CASE Skip(j, 1)
    BY <1>13, <2>0, <2>1, SkipType DEF Make, counters
  <2>2. CASE Reject(j)
    BY <1>13, <2>0, <2>2, RejectType DEF Make, counters
  <2> QED
    BY <1>13, <2>1, <2>2 DEF Make, Fail
<1>14. ASSUME NEW j \in Callers, Provisioned(j) PROVE TypeOK'
  <2>1. [state |-> stage[j], step |-> "provisioned"] \in BootstrapEvent
    BY DEF BootstrapEvent, EventSteps
  <2>2. CASE j \in Runs
    BY <1>14, <2>1, <2>2 DEF Provisioned, emitEvent, GoTo
  <2>3. CASE j \notin Runs
    BY <1>14, <2>3 DEF Provisioned, GoTo
  <2> QED
    BY <2>2, <2>3
<1>15. CASE UNCHANGED vars
  BY <1>15 DEF vars, memory, counters
<1> QED
  BY <1>1, <1>2, <1>3, <1>4, <1>5, <1>6, <1>7, <1>8, <1>9, <1>10, <1>11, <1>12, <1>13,
         <1>14, <1>15 DEF Next, Callers

\* A crash ends every job, and nothing starts while the process is down.
LEMMA QuietStep ==
    ASSUME TypeOK, DownIsQuiet, [Next]_vars
    PROVE  DownIsQuiet'
<1> USE BootstrapAssumption DEF Callers, Jobs, TypeOK, DownIsQuiet
<1>1. ASSUME NEW readable \in BOOLEAN, Boot(readable) PROVE DownIsQuiet'
  BY <1>1 DEF Boot, RestoredRow
<1>2. ASSUME NEW readable \in BOOLEAN, NEW r \in Runs, BootAndStart(readable, r) PROVE DownIsQuiet'
  BY <1>2 DEF BootAndStart, RestoredRow, BeginPipeline, GoTo
<1>3. ASSUME Crash PROVE DownIsQuiet'
  BY <1>3 DEF Crash
<1>4. ASSUME NEW r \in Runs, startBootstrap(r) PROVE DownIsQuiet'
  BY <1>4 DEF startBootstrap, BeginPipeline, GoTo
<1>5. ASSUME NEW j \in Runs \cup Probers, verifyDNS(j) PROVE DownIsQuiet'
  BY <1>5 DEF verifyDNS, Awake, emitEvent, GoTo, ProbeUnchanged
<1>6. ASSUME NEW j \in Runs \cup Probers, verifyPorts(j) PROVE DownIsQuiet'
  BY <1>6 DEF verifyPorts, Awake, emitEvent, GoTo, ProbeUnchanged
<1>7. ASSUME NEW j \in Runs \cup Probers, DnsReply(j) PROVE DownIsQuiet'
  BY <1>7 DEF DnsReply, Awake, ProbeFails, emitEvent, GoTo, ProbeUnchanged
<1>8. ASSUME NEW j \in Runs \cup Probers, PortsReply(j) PROVE DownIsQuiet'
  BY <1>8 DEF PortsReply, Awake, ProbeFails, emitEvent, GoTo, ProbeUnchanged
<1>9. ASSUME NEW r \in Runs, EnterNextState(r) PROVE DownIsQuiet'
  BY <1>9 DEF EnterNextState, Awake, transition, emitEvent, GoTo, counters
<1>10. ASSUME NEW j \in Jobs, persistEvent(j) PROVE DownIsQuiet'
  BY <1>10 DEF persistEvent
<1>11. ASSUME reprovisionAuthentik PROVE DownIsQuiet'
  BY <1>11 DEF reprovisionAuthentik, Awake, GoTo
<1>12. ASSUME NEW j \in Callers, Look(j) PROVE DownIsQuiet'
  BY <1>12 DEF Look, Awake, Skip, Fail, Reject, emitEvent, GoTo, counters
<1>13. ASSUME NEW j \in Callers, Make(j) PROVE DownIsQuiet'
  BY <1>13 DEF Make, Awake, Skip, Fail, Reject, emitEvent, GoTo, counters
<1>14. ASSUME NEW j \in Callers, Provisioned(j) PROVE DownIsQuiet'
  BY <1>14 DEF Provisioned, Awake, emitEvent, GoTo, counters
<1>15. CASE UNCHANGED vars
  BY <1>15 DEF vars, memory, counters
<1> QED
  BY <1>1, <1>2, <1>3, <1>4, <1>5, <1>6, <1>7, <1>8, <1>9, <1>10, <1>11, <1>12, <1>13,
         <1>14, <1>15 DEF Next, Callers

\* Each phase keeps to the states it belongs to.
LEMMA PhaseStep ==
    ASSUME TypeOK, DownIsQuiet, PhaseFits, [Next]_vars
    PROVE  PhaseFits'
<1> USE BootstrapAssumption, ProvisioningFacts, SuccessorFacts DEF Callers, Jobs,
       TypeOK, DownIsQuiet, PhaseFits
<1>1. ASSUME NEW readable \in BOOLEAN, Boot(readable) PROVE PhaseFits'
  BY <1>1 DEF Boot, RestoredRow
<1>2. ASSUME NEW readable \in BOOLEAN, NEW r \in Runs, BootAndStart(readable, r) PROVE PhaseFits'
  BY <1>2 DEF BootAndStart, RestoredRow, BeginPipeline, GoTo
<1>3. ASSUME Crash PROVE PhaseFits'
  BY <1>3 DEF Crash
<1>4. ASSUME NEW r \in Runs, startBootstrap(r) PROVE PhaseFits'
  BY <1>4 DEF startBootstrap, BeginPipeline, GoTo
<1>5. ASSUME NEW j \in Runs \cup Probers, verifyDNS(j) PROVE PhaseFits'
  BY <1>5 DEF verifyDNS, Awake, emitEvent, GoTo, ProbeUnchanged
<1>6. ASSUME NEW j \in Runs \cup Probers, verifyPorts(j) PROVE PhaseFits'
  BY <1>6 DEF verifyPorts, Awake, emitEvent, GoTo, ProbeUnchanged
<1>7. ASSUME NEW j \in Runs \cup Probers, DnsReply(j) PROVE PhaseFits'
  BY <1>7 DEF DnsReply, Awake, ProbeFails, emitEvent, GoTo, ProbeUnchanged
<1>8. ASSUME NEW j \in Runs \cup Probers, PortsReply(j) PROVE PhaseFits'
  BY <1>8 DEF PortsReply, Awake, ProbeFails, emitEvent, GoTo, ProbeUnchanged
<1>9. ASSUME NEW r \in Runs, EnterNextState(r) PROVE PhaseFits'
  BY <1>9 DEF EnterNextState, Awake, transition, emitEvent, GoTo, counters
<1>10. ASSUME NEW j \in Jobs, persistEvent(j) PROVE PhaseFits'
  BY <1>10 DEF persistEvent
<1>11. ASSUME reprovisionAuthentik PROVE PhaseFits'
  BY <1>11 DEF reprovisionAuthentik, Awake, GoTo
<1>12. ASSUME NEW j \in Callers, Look(j) PROVE PhaseFits'
  BY <1>12 DEF Look, Awake, Skip, Fail, Reject, emitEvent, GoTo, counters
<1>13. ASSUME NEW j \in Callers, Make(j) PROVE PhaseFits'
  BY <1>13 DEF Make, Awake, Skip, Fail, Reject, emitEvent, GoTo, counters
<1>14. ASSUME NEW j \in Callers, Provisioned(j) PROVE PhaseFits'
  BY <1>14 DEF Provisioned, Awake, emitEvent, GoTo, counters
<1>15. CASE UNCHANGED vars
  BY <1>15 DEF vars, memory, counters
<1> QED
  BY <1>1, <1>2, <1>3, <1>4, <1>5, <1>6, <1>7, <1>8, <1>9, <1>10, <1>11, <1>12, <1>13,
         <1>14, <1>15 DEF Next, Callers

\* A pipeline starts only where none runs, and works in the current state.
LEMMA RunsStep ==
    ASSUME TypeOK, DownIsQuiet, PhaseFits, RunsInState, SinglePipeline, [Next]_vars
    PROVE  (RunsInState /\ SinglePipeline)'
<1> USE BootstrapAssumption, ProvisioningFacts, SuccessorFacts DEF Callers, Jobs,
       TypeOK, DownIsQuiet, PhaseFits, RunsInState, SinglePipeline, Active
<1>1. ASSUME NEW readable \in BOOLEAN, Boot(readable) PROVE (RunsInState /\ SinglePipeline)'
  BY <1>1 DEF Boot, RestoredRow
<1>2. ASSUME NEW readable \in BOOLEAN, NEW r \in Runs, BootAndStart(readable, r)
      PROVE  (RunsInState /\ SinglePipeline)'
  BY <1>2 DEF BootAndStart, RestoredRow, BeginPipeline, GoTo
<1>3. ASSUME Crash PROVE (RunsInState /\ SinglePipeline)'
  BY <1>3 DEF Crash
<1>4. ASSUME NEW r \in Runs, startBootstrap(r) PROVE (RunsInState /\ SinglePipeline)'
  BY <1>4 DEF startBootstrap, BeginPipeline, GoTo
<1>5. ASSUME NEW j \in Runs \cup Probers, verifyDNS(j) PROVE (RunsInState /\ SinglePipeline)'
  BY <1>5 DEF verifyDNS, Awake, emitEvent, GoTo, ProbeUnchanged
<1>6. ASSUME NEW j \in Runs \cup Probers, verifyPorts(j) PROVE (RunsInState /\ SinglePipeline)'
  BY <1>6 DEF verifyPorts, Awake, emitEvent, GoTo, ProbeUnchanged
<1>7. ASSUME NEW j \in Runs \cup Probers, DnsReply(j) PROVE (RunsInState /\ SinglePipeline)'
  BY <1>7 DEF DnsReply, Awake, ProbeFails, emitEvent, GoTo, ProbeUnchanged
<1>8. ASSUME NEW j \in Runs \cup Probers, PortsReply(j) PROVE (RunsInState /\ SinglePipeline)'
  BY <1>8 DEF PortsReply, Awake, ProbeFails, emitEvent, GoTo, ProbeUnchanged
<1>9. ASSUME NEW r \in Runs, EnterNextState(r) PROVE (RunsInState /\ SinglePipeline)'
  BY <1>9 DEF EnterNextState, Awake, transition, emitEvent, GoTo, counters
<1>10. ASSUME NEW j \in Jobs, persistEvent(j) PROVE (RunsInState /\ SinglePipeline)'
  BY <1>10 DEF persistEvent
<1>11. ASSUME reprovisionAuthentik PROVE (RunsInState /\ SinglePipeline)'
  BY <1>11 DEF reprovisionAuthentik, Awake, GoTo
<1>12. ASSUME NEW j \in Callers, Look(j) PROVE (RunsInState /\ SinglePipeline)'
  BY <1>12 DEF Look, Awake, Skip, Fail, Reject, emitEvent, GoTo, counters
<1>13. ASSUME NEW j \in Callers, Make(j) PROVE (RunsInState /\ SinglePipeline)'
  BY <1>13 DEF Make, Awake, Skip, Fail, Reject, emitEvent, GoTo, counters
<1>14. ASSUME NEW j \in Callers, Provisioned(j) PROVE (RunsInState /\ SinglePipeline)'
  BY <1>14 DEF Provisioned, Awake, emitEvent, GoTo, counters
<1>15. CASE UNCHANGED vars
  BY <1>15 DEF vars, memory, counters
<1> QED
  BY <1>1, <1>2, <1>3, <1>4, <1>5, <1>6, <1>7, <1>8, <1>9, <1>10, <1>11, <1>12, <1>13,
         <1>14, <1>15 DEF Next, Callers

\* Calls are made in order, and a pipeline leaves a state after its last call.
LEMMA CallsStep ==
    ASSUME TypeOK, DownIsQuiet, PhaseFits, CallsMade, [Next]_vars
    PROVE  CallsMade'
<1> USE BootstrapAssumption, ProvisioningFacts, SuccessorFacts, CallFacts DEF Callers,
       Jobs, TypeOK, DownIsQuiet, PhaseFits, CallsMade, HasCall, Call
<1>1. ASSUME NEW readable \in BOOLEAN, Boot(readable) PROVE CallsMade'
  BY <1>1 DEF Boot, RestoredRow, Covered
<1>2. ASSUME NEW readable \in BOOLEAN, NEW r \in Runs, BootAndStart(readable, r) PROVE CallsMade'
  BY <1>2 DEF BootAndStart, RestoredRow, BeginPipeline, GoTo, Covered
<1>3. ASSUME Crash PROVE CallsMade'
  BY <1>3 DEF Crash, Covered
<1>4. ASSUME NEW r \in Runs, startBootstrap(r) PROVE CallsMade'
  BY <1>4 DEF startBootstrap, BeginPipeline, GoTo, Covered
<1>5. ASSUME NEW j \in Runs \cup Probers, verifyDNS(j) PROVE CallsMade'
  BY <1>5 DEF verifyDNS, Awake, emitEvent, GoTo, ProbeUnchanged, Covered
<1>6. ASSUME NEW j \in Runs \cup Probers, verifyPorts(j) PROVE CallsMade'
  BY <1>6 DEF verifyPorts, Awake, emitEvent, GoTo, ProbeUnchanged, Covered
<1>7. ASSUME NEW j \in Runs \cup Probers, DnsReply(j) PROVE CallsMade'
  BY <1>7 DEF DnsReply, Awake, ProbeFails, emitEvent, GoTo, ProbeUnchanged, Covered
<1>8. ASSUME NEW j \in Runs \cup Probers, PortsReply(j) PROVE CallsMade'
  BY <1>8 DEF PortsReply, Awake, ProbeFails, emitEvent, GoTo, ProbeUnchanged, Covered
<1>9. ASSUME NEW r \in Runs, EnterNextState(r) PROVE CallsMade'
  BY <1>9 DEF EnterNextState, Awake, transition, emitEvent, GoTo, counters, Covered
<1>10. ASSUME NEW j \in Jobs, persistEvent(j) PROVE CallsMade'
  BY <1>10 DEF persistEvent, Covered
<1>11. ASSUME reprovisionAuthentik PROVE CallsMade'
  BY <1>11 DEF reprovisionAuthentik, Awake, GoTo, Covered
<1>12. ASSUME NEW j \in Callers, Look(j) PROVE CallsMade'
  <2>1. phase[j] \in {"look", "make"} /\ UNCHANGED <<stage, exists>>
    BY <1>12 DEF Look
  <2>2. CASE Reject(j)
    BY <2>1, <2>2, RejectCalls
  <2>3. CASE GoTo(j, "make") /\ UNCHANGED idx
    BY <2>1, <2>3 DEF GoTo, Covered
  <2>4. CASE Call(j) \in NonFatal /\ Skip(j, 1)
    <3>1. Call(j) \notin Essential
      BY <2>4 DEF NonFatal, Essential
    <3> QED
      BY <2>1, <2>4, <3>1, SkipCalls
  <2>5. CASE Call(j) \in exists /\ Call(j) # "adminUser" /\ Skip(j, 1)
    BY <2>1, <2>5, SkipCalls
  <2>6. CASE Call(j) \in exists /\ Call(j) = "adminUser" /\ Skip(j, 2)
    <3>1. stage[j] \in Provisioning /\ idx[j] \in 1 .. Len(Calls[stage[j]])
      BY <1>12, <2>1 DEF Look
    <3>2. Calls[stage[j]][idx[j] + 1] \notin Essential
      BY <2>6, <3>1, CallFacts DEF Essential
    <3> QED
      BY <2>1, <2>6, <3>2, SkipCalls
  <2> QED
    BY <1>12, <2>2, <2>3, <2>4, <2>5, <2>6 DEF Look, Fail
<1>13. ASSUME NEW j \in Callers, Make(j) PROVE CallsMade'
  <2>1. /\ phase[j] \in {"look", "make"}
        /\ UNCHANGED stage
        /\ exists \subseteq exists'
    BY <1>13 DEF Make
  <2>2. CASE Reject(j)
    BY <2>1, <2>2, RejectCalls
  <2>3. CASE Call(j) \in exists' /\ Skip(j, 1)
    BY <2>1, <2>3, SkipCalls
  <2>4. CASE Call(j) \in NonFatal /\ Skip(j, 1)
    <3>1. Call(j) \notin Essential
      BY <2>4 DEF NonFatal, Essential
    <3> QED
      BY <2>1, <2>4, <3>1, SkipCalls
  <2> QED
    BY <1>13, <2>2, <2>3, <2>4 DEF Make, Fail
<1>14. ASSUME NEW j \in Callers, Provisioned(j) PROVE CallsMade'
  <2>1. CallsOf(stage[j]) \cap Essential \subseteq exists
    BY <1>14 DEF Provisioned, Awake, Covered, CallsOf
  <2>2. UNCHANGED <<stage, idx, exists>>
    BY <1>14 DEF Provisioned
  <2>3. \A k \in Callers : phase'[k] \in {"look", "make"} => phase'[k] = phase[k]
    BY <1>14 DEF Provisioned, GoTo
  <2>4. \A r \in Runs \ {j} : phase'[r] = phase[r]
    BY <1>14 DEF Provisioned, GoTo
  <2> QED
    BY <2>1, <2>2, <2>3, <2>4 DEF Covered, CallsOf
<1>15. CASE UNCHANGED vars
  BY <1>15 DEF vars, memory, counters, Covered
<1> QED
  BY <1>1, <1>2, <1>3, <1>4, <1>5, <1>6, <1>7, <1>8, <1>9, <1>10, <1>11, <1>12, <1>13,
         <1>14, <1>15 DEF Next, Callers

\* A state becomes current, or is stored, only when what it relies on is there.
LEMMA HonestStep ==
    ASSUME TypeOK, DownIsQuiet, RunsInState, PhaseFits, CallsMade, Honest, [Next]_vars
    PROVE  Honest'
<1> USE BootstrapAssumption, ProvisioningFacts, SuccessorFacts, RequiredOfFirst,
       RequiredOfNext DEF Callers, Jobs, TypeOK, DownIsQuiet, PhaseFits, CallsMade,
       RunsInState, Honest, Active, NoEvent
<1>1. ASSUME NEW readable \in BOOLEAN, Boot(readable) PROVE Honest'
  BY <1>1 DEF Boot, RestoredRow
<1>2. ASSUME NEW readable \in BOOLEAN, NEW r \in Runs, BootAndStart(readable, r) PROVE Honest'
  BY <1>2 DEF BootAndStart, RestoredRow, BeginPipeline, GoTo
<1>3. ASSUME Crash PROVE Honest'
  BY <1>3 DEF Crash
<1>4. ASSUME NEW r \in Runs, startBootstrap(r) PROVE Honest'
  BY <1>4 DEF startBootstrap, BeginPipeline, GoTo
<1>5. ASSUME NEW j \in Runs \cup Probers, verifyDNS(j) PROVE Honest'
  BY <1>5 DEF verifyDNS, Awake, emitEvent, GoTo, ProbeUnchanged
<1>6. ASSUME NEW j \in Runs \cup Probers, verifyPorts(j) PROVE Honest'
  BY <1>6 DEF verifyPorts, Awake, emitEvent, GoTo, ProbeUnchanged
<1>7. ASSUME NEW j \in Runs \cup Probers, DnsReply(j) PROVE Honest'
  BY <1>7 DEF DnsReply, Awake, ProbeFails, emitEvent, GoTo, ProbeUnchanged
<1>8. ASSUME NEW j \in Runs \cup Probers, PortsReply(j) PROVE Honest'
  BY <1>8 DEF PortsReply, Awake, ProbeFails, emitEvent, GoTo, ProbeUnchanged
<1>9. ASSUME NEW r \in Runs, EnterNextState(r) PROVE Honest'
  BY <1>9 DEF EnterNextState, Awake, transition, emitEvent, GoTo, counters
<1>10. ASSUME NEW j \in Jobs, persistEvent(j) PROVE Honest'
  BY <1>10 DEF persistEvent
<1>11. ASSUME reprovisionAuthentik PROVE Honest'
  BY <1>11 DEF reprovisionAuthentik, Awake, GoTo
<1>12. ASSUME NEW j \in Callers, Look(j) PROVE Honest'
  BY <1>12 DEF Look, Awake, Skip, Fail, Reject, emitEvent, GoTo, counters
<1>13. ASSUME NEW j \in Callers, Make(j) PROVE Honest'
  BY <1>13 DEF Make, Awake, Skip, Fail, Reject, emitEvent, GoTo, counters
<1>14. ASSUME NEW j \in Callers, Provisioned(j) PROVE Honest'
  BY <1>14 DEF Provisioned, Awake, emitEvent, GoTo, counters
<1>15. CASE UNCHANGED vars
  BY <1>15 DEF vars, memory, counters
<1> QED
  BY <1>1, <1>2, <1>3, <1>4, <1>5, <1>6, <1>7, <1>8, <1>9, <1>10, <1>11, <1>12, <1>13,
         <1>14, <1>15 DEF Next, Callers

\* The pipeline and its failures log the state the pipeline works in.
LEMMA LogStep ==
    ASSUME TypeOK, RunsInState, PhaseFits, LogTailTellsState, [Next]_vars
    PROVE  LogTailTellsState'
<1> USE BootstrapAssumption, ProvisioningFacts DEF Callers, Jobs, TypeOK, RunsInState,
       PhaseFits, LogTailTellsState, Active, NoEvent
<1>1. ASSUME NEW readable \in BOOLEAN, Boot(readable) PROVE LogTailTellsState'
  BY <1>1 DEF Boot, RestoredRow
<1>2. ASSUME NEW readable \in BOOLEAN, NEW r \in Runs, BootAndStart(readable, r)
      PROVE  LogTailTellsState'
  BY <1>2 DEF BootAndStart, RestoredRow, BeginPipeline, GoTo
<1>3. ASSUME Crash PROVE LogTailTellsState'
  BY <1>3 DEF Crash
<1>4. ASSUME NEW r \in Runs, startBootstrap(r) PROVE LogTailTellsState'
  BY <1>4 DEF startBootstrap, BeginPipeline, GoTo
<1>5. ASSUME NEW j \in Runs \cup Probers, verifyDNS(j) PROVE LogTailTellsState'
  BY <1>5 DEF verifyDNS, Awake, emitEvent, GoTo, ProbeUnchanged
<1>6. ASSUME NEW j \in Runs \cup Probers, verifyPorts(j) PROVE LogTailTellsState'
  BY <1>6 DEF verifyPorts, Awake, emitEvent, GoTo, ProbeUnchanged
<1>7. ASSUME NEW j \in Runs \cup Probers, DnsReply(j) PROVE LogTailTellsState'
  BY <1>7 DEF DnsReply, Awake, ProbeFails, emitEvent, GoTo, ProbeUnchanged
<1>8. ASSUME NEW j \in Runs \cup Probers, PortsReply(j) PROVE LogTailTellsState'
  BY <1>8 DEF PortsReply, Awake, ProbeFails, emitEvent, GoTo, ProbeUnchanged
<1>9. ASSUME NEW r \in Runs, EnterNextState(r) PROVE LogTailTellsState'
  BY <1>9 DEF EnterNextState, Awake, transition, emitEvent, GoTo, counters
<1>10. ASSUME NEW j \in Jobs, persistEvent(j) PROVE LogTailTellsState'
  BY <1>10 DEF persistEvent
<1>11. ASSUME reprovisionAuthentik PROVE LogTailTellsState'
  BY <1>11 DEF reprovisionAuthentik, Awake, GoTo
<1>12. ASSUME NEW j \in Callers, Look(j) PROVE LogTailTellsState'
  BY <1>12 DEF Look, Awake, Skip, Fail, Reject, emitEvent, GoTo, counters
<1>13. ASSUME NEW j \in Callers, Make(j) PROVE LogTailTellsState'
  BY <1>13 DEF Make, Awake, Skip, Fail, Reject, emitEvent, GoTo, counters
<1>14. ASSUME NEW j \in Callers, Provisioned(j) PROVE LogTailTellsState'
  BY <1>14 DEF Provisioned, Awake, emitEvent, GoTo, counters
<1>15. CASE UNCHANGED vars
  BY <1>15 DEF vars, memory, counters
<1> QED
  BY <1>1, <1>2, <1>3, <1>4, <1>5, <1>6, <1>7, <1>8, <1>9, <1>10, <1>11, <1>12, <1>13,
         <1>14, <1>15 DEF Next, Callers

\* A run moves only after a start, and a second start is counted.
LEMMA OneStartStep ==
    ASSUME TypeOK, DownIsQuiet, OneStart, [Next]_vars
    PROVE  OneStart'
<1> USE BootstrapAssumption DEF Callers, Jobs, TypeOK, DownIsQuiet, Touched, OneStart, NoEvent
<1>1. ASSUME NEW readable \in BOOLEAN, Boot(readable) PROVE OneStart'
  BY <1>1 DEF Boot, RestoredRow
<1>2. ASSUME NEW readable \in BOOLEAN, NEW r \in Runs, BootAndStart(readable, r) PROVE OneStart'
  BY <1>2 DEF BootAndStart, RestoredRow, BeginPipeline, GoTo
<1>3. ASSUME Crash PROVE OneStart'
  BY <1>3 DEF Crash
<1>4. ASSUME NEW r \in Runs, startBootstrap(r) PROVE OneStart'
  BY <1>4 DEF startBootstrap, BeginPipeline, GoTo
<1>5. ASSUME NEW j \in Runs \cup Probers, verifyDNS(j) PROVE OneStart'
  BY <1>5 DEF verifyDNS, Awake, emitEvent, GoTo, ProbeUnchanged
<1>6. ASSUME NEW j \in Runs \cup Probers, verifyPorts(j) PROVE OneStart'
  BY <1>6 DEF verifyPorts, Awake, emitEvent, GoTo, ProbeUnchanged
<1>7. ASSUME NEW j \in Runs \cup Probers, DnsReply(j) PROVE OneStart'
  BY <1>7 DEF DnsReply, Awake, ProbeFails, emitEvent, GoTo, ProbeUnchanged
<1>8. ASSUME NEW j \in Runs \cup Probers, PortsReply(j) PROVE OneStart'
  BY <1>8 DEF PortsReply, Awake, ProbeFails, emitEvent, GoTo, ProbeUnchanged
<1>9. ASSUME NEW r \in Runs, EnterNextState(r) PROVE OneStart'
  BY <1>9 DEF EnterNextState, Awake, transition, emitEvent, GoTo, counters
<1>10. ASSUME NEW j \in Jobs, persistEvent(j) PROVE OneStart'
  BY <1>10 DEF persistEvent
<1>11. ASSUME reprovisionAuthentik PROVE OneStart'
  BY <1>11 DEF reprovisionAuthentik, Awake, GoTo
<1>12. ASSUME NEW j \in Callers, Look(j) PROVE OneStart'
  BY <1>12 DEF Look, Awake, Skip, Fail, Reject, emitEvent, GoTo, counters
<1>13. ASSUME NEW j \in Callers, Make(j) PROVE OneStart'
  BY <1>13 DEF Make, Awake, Skip, Fail, Reject, emitEvent, GoTo, counters
<1>14. ASSUME NEW j \in Callers, Provisioned(j) PROVE OneStart'
  BY <1>14 DEF Provisioned, Awake, emitEvent, GoTo, counters
<1>15. CASE UNCHANGED vars
  BY <1>15 DEF vars, memory, counters
<1> QED
  BY <1>1, <1>2, <1>3, <1>4, <1>5, <1>6, <1>7, <1>8, <1>9, <1>10, <1>11, <1>12, <1>13,
       <1>14, <1>15 DEF Next, Callers

\* Only an HTTP check sets a prober in motion, only the administrator the other job.
LEMMA OthersStep ==
    ASSUME TypeOK, DownIsQuiet, QuietOthers, [Next]_vars
    PROVE  QuietOthers'
<1> USE BootstrapAssumption DEF Callers, Jobs, TypeOK, DownIsQuiet, QuietOthers, NoEvent
<1>1. ASSUME NEW readable \in BOOLEAN, Boot(readable) PROVE QuietOthers'
  BY <1>1 DEF Boot, RestoredRow
<1>2. ASSUME NEW readable \in BOOLEAN, NEW r \in Runs, BootAndStart(readable, r) PROVE QuietOthers'
  BY <1>2 DEF BootAndStart, RestoredRow, BeginPipeline, GoTo
<1>3. ASSUME Crash PROVE QuietOthers'
  BY <1>3 DEF Crash
<1>4. ASSUME NEW r \in Runs, startBootstrap(r) PROVE QuietOthers'
  BY <1>4 DEF startBootstrap, BeginPipeline, GoTo
<1>5. ASSUME NEW j \in Runs \cup Probers, verifyDNS(j) PROVE QuietOthers'
  BY <1>5 DEF verifyDNS, Awake, emitEvent, GoTo, ProbeUnchanged
<1>6. ASSUME NEW j \in Runs \cup Probers, verifyPorts(j) PROVE QuietOthers'
  BY <1>6 DEF verifyPorts, Awake, emitEvent, GoTo, ProbeUnchanged
<1>7. ASSUME NEW j \in Runs \cup Probers, DnsReply(j) PROVE QuietOthers'
  BY <1>7 DEF DnsReply, Awake, ProbeFails, emitEvent, GoTo, ProbeUnchanged
<1>8. ASSUME NEW j \in Runs \cup Probers, PortsReply(j) PROVE QuietOthers'
  BY <1>8 DEF PortsReply, Awake, ProbeFails, emitEvent, GoTo, ProbeUnchanged
<1>9. ASSUME NEW r \in Runs, EnterNextState(r) PROVE QuietOthers'
  BY <1>9 DEF EnterNextState, Awake, transition, emitEvent, GoTo, counters
<1>10. ASSUME NEW j \in Jobs, persistEvent(j) PROVE QuietOthers'
  BY <1>10 DEF persistEvent
<1>11. ASSUME reprovisionAuthentik PROVE QuietOthers'
  BY <1>11 DEF reprovisionAuthentik, Awake, GoTo
<1>12. ASSUME NEW j \in Callers, Look(j) PROVE QuietOthers'
  BY <1>12 DEF Look, Awake, Skip, Fail, Reject, emitEvent, GoTo, counters
<1>13. ASSUME NEW j \in Callers, Make(j) PROVE QuietOthers'
  BY <1>13 DEF Make, Awake, Skip, Fail, Reject, emitEvent, GoTo, counters
<1>14. ASSUME NEW j \in Callers, Provisioned(j) PROVE QuietOthers'
  BY <1>14 DEF Provisioned, Awake, emitEvent, GoTo, counters
<1>15. CASE UNCHANGED vars
  BY <1>15 DEF vars, memory, counters
<1> QED
  BY <1>1, <1>2, <1>3, <1>4, <1>5, <1>6, <1>7, <1>8, <1>9, <1>10, <1>11, <1>12, <1>13,
       <1>14, <1>15 DEF Next, Callers

\* READY is the last event of the only start, and no row follows it.
LEMMA ReadyRowStep ==
    ASSUME TypeOK, DownIsQuiet, RunsInState, PhaseFits, OneStart, QuietOthers, ReadyRowLast, [Next]_vars
    PROVE  ReadyRowLast'
<1> USE BootstrapAssumption, ProvisioningFacts DEF Callers, Jobs, TypeOK, DownIsQuiet,
     Touched, RunsInState, PhaseFits, Active, OneStart, QuietOthers, ReadyRowLast, NoEvent
<1>1. ASSUME NEW readable \in BOOLEAN, Boot(readable) PROVE ReadyRowLast'
  <2>1. CASE readable
    BY <1>1, <2>1 DEF Boot, RestoredRow, counters
  <2>2. CASE ~readable
    BY <1>1, <2>2 DEF Boot, RestoredRow, counters
  <2> QED
    BY <2>1, <2>2
<1>2. ASSUME NEW readable \in BOOLEAN, NEW r \in Runs, BootAndStart(readable, r) PROVE ReadyRowLast'
  BY <1>2 DEF BootAndStart, RestoredRow, BeginPipeline, GoTo
<1>3. ASSUME Crash PROVE ReadyRowLast'
  BY <1>3 DEF Crash
<1>4. ASSUME NEW r \in Runs, startBootstrap(r) PROVE ReadyRowLast'
  BY <1>4 DEF startBootstrap, BeginPipeline, GoTo
<1>5. ASSUME NEW j \in Runs \cup Probers, verifyDNS(j) PROVE ReadyRowLast'
  BY <1>5 DEF verifyDNS, Awake, emitEvent, GoTo, ProbeUnchanged
<1>6. ASSUME NEW j \in Runs \cup Probers, verifyPorts(j) PROVE ReadyRowLast'
  BY <1>6 DEF verifyPorts, Awake, emitEvent, GoTo, ProbeUnchanged
<1>7. ASSUME NEW j \in Runs \cup Probers, DnsReply(j) PROVE ReadyRowLast'
  BY <1>7 DEF DnsReply, Awake, ProbeFails, emitEvent, GoTo, ProbeUnchanged
<1>8. ASSUME NEW j \in Runs \cup Probers, PortsReply(j) PROVE ReadyRowLast'
  BY <1>8 DEF PortsReply, Awake, ProbeFails, emitEvent, GoTo, ProbeUnchanged
<1>9. ASSUME NEW r \in Runs, EnterNextState(r) PROVE ReadyRowLast'
  BY <1>9 DEF EnterNextState, Awake, transition, emitEvent, GoTo, counters
<1>10. ASSUME NEW j \in Jobs, persistEvent(j) PROVE ReadyRowLast'
  BY <1>10 DEF persistEvent
<1>11. ASSUME reprovisionAuthentik PROVE ReadyRowLast'
  BY <1>11 DEF reprovisionAuthentik, Awake, GoTo
<1>12. ASSUME NEW j \in Callers, Look(j) PROVE ReadyRowLast'
  BY <1>12 DEF Look, Awake, Skip, Fail, Reject, emitEvent, GoTo, counters, Provisioning
<1>13. ASSUME NEW j \in Callers, Make(j) PROVE ReadyRowLast'
  BY <1>13 DEF Make, Awake, Skip, Fail, Reject, emitEvent, GoTo, counters, Provisioning
<1>14. ASSUME NEW j \in Callers, Provisioned(j) PROVE ReadyRowLast'
  BY <1>14 DEF Provisioned, Awake, emitEvent, GoTo, counters, Provisioning
<1>15. CASE UNCHANGED vars
  BY <1>15 DEF vars, memory, counters
<1> QED
  BY <1>1, <1>2, <1>3, <1>4, <1>5, <1>6, <1>7, <1>8, <1>9, <1>10, <1>11, <1>12, <1>13,
       <1>14, <1>15 DEF Next, Callers

\* The only start sets the password before it leaves AUTHENTIK_SETUP.
LEMMA PasswordStep ==
    ASSUME TypeOK, DownIsQuiet, RunsInState, PhaseFits, OneStart, QuietOthers, PasswordFirst,
        [Next]_vars
    PROVE  PasswordFirst'
<1> USE BootstrapAssumption, ProvisioningFacts DEF Callers, Jobs, TypeOK, DownIsQuiet,
     Touched, RunsInState, PhaseFits, Active, OneStart, QuietOthers, PasswordFirst, Behind,
     BeforeUser, AfterPassword, Rank, NoEvent
<1>1. ASSUME NEW readable \in BOOLEAN, Boot(readable) PROVE PasswordFirst'
  <2>1. CASE readable
    BY <1>1, <2>1 DEF Boot, RestoredRow, counters
  <2>2. CASE ~readable
    BY <1>1, <2>2 DEF Boot, RestoredRow, counters
  <2> QED
    BY <2>1, <2>2
<1>2. ASSUME NEW readable \in BOOLEAN, NEW r \in Runs, BootAndStart(readable, r) PROVE PasswordFirst'
  BY <1>2 DEF BootAndStart, RestoredRow, BeginPipeline, GoTo
<1>3. ASSUME Crash PROVE PasswordFirst'
  BY <1>3 DEF Crash
<1>4. ASSUME NEW r \in Runs, startBootstrap(r) PROVE PasswordFirst'
  BY <1>4 DEF startBootstrap, BeginPipeline, GoTo
<1>5. ASSUME NEW j \in Runs \cup Probers, verifyDNS(j) PROVE PasswordFirst'
  BY <1>5 DEF verifyDNS, Awake, emitEvent, GoTo, ProbeUnchanged
<1>6. ASSUME NEW j \in Runs \cup Probers, verifyPorts(j) PROVE PasswordFirst'
  BY <1>6 DEF verifyPorts, Awake, emitEvent, GoTo, ProbeUnchanged
<1>7. ASSUME NEW j \in Runs \cup Probers, DnsReply(j) PROVE PasswordFirst'
  BY <1>7 DEF DnsReply, Awake, ProbeFails, emitEvent, GoTo, ProbeUnchanged
<1>8. ASSUME NEW j \in Runs \cup Probers, PortsReply(j) PROVE PasswordFirst'
  BY <1>8 DEF PortsReply, Awake, ProbeFails, emitEvent, GoTo, ProbeUnchanged
<1>9. ASSUME NEW r \in Runs, EnterNextState(r) PROVE PasswordFirst'
  <2>1. stage'[r] = "AUTHENTIK_SETUP" => phase'[r] = "look" /\ idx'[r] = 1
    <3>1. stage'[r] = Successor[stage[r]] /\ idx'[r] = 1
      BY <1>9 DEF EnterNextState, transition
    <3>2. "READY" \notin Provisioning
      BY DEF Provisioning
    <3>3. Successor[stage[r]] \in Provisioning => phase'[r] = "look"
      BY <1>9, <3>2, Zenon DEF EnterNextState, GoTo
    <3> QED
      BY <3>1, <3>3
  <2>2. /\ phase[r] = "advance" /\ stage[r] = currentState
        /\ stage' = [stage EXCEPT ![r] = Successor[stage[r]]]
        /\ currentState' = Successor[stage[r]]
               /\ saving' = [saving EXCEPT ![r] = [state |-> Successor[stage[r]], step |-> "transition"]]
        /\ UNCHANGED <<exists, lastRow, starts, reprovisions>>
        /\ \A q \in Jobs \ {r} : phase'[q] = phase[q] /\ idx'[q] = idx[q]
    BY <1>9 DEF EnterNextState, transition, emitEvent, GoTo, counters
  <2>3. Rank[Successor[stage[r]]] = Rank[stage[r]] + 1 /\ Rank[stage[r]] \in Nat
        /\ (Rank[stage[r]] = 3 => stage[r] = "AUTHENTIK_SETUP")
    BY <2>2 DEF Successor
  <2>4. Behind(currentState)' => "adminPassword" \in exists \/ starts > 1 \/ reprovisions # 0
    BY <2>2, <2>3
  <2>5. ASSUME NEW q \in Runs, BeforeUser(q)' PROVE BeforeUser(q)
    BY <2>1, <2>2, <2>3, <2>5
  <2>6. ASSUME NEW q \in Runs, AfterPassword(q)' PROVE AfterPassword(q)
    BY <2>1, <2>2, <2>6
  <2>7. ASSUME NEW q \in Jobs, Behind(saving[q].state)'
        PROVE  Behind(currentState)' \/ Behind(saving[q].state)
    BY <2>2, <2>7
  <2> QED
    BY <2>2, <2>4, <2>5, <2>6, <2>7 DEF PasswordFirst
<1>10. ASSUME NEW j \in Jobs, persistEvent(j) PROVE PasswordFirst'
  BY <1>10 DEF persistEvent
<1>11. ASSUME reprovisionAuthentik PROVE PasswordFirst'
  BY <1>11 DEF reprovisionAuthentik, Awake, GoTo
<1>12. ASSUME NEW j \in Callers, Look(j) PROVE PasswordFirst'
  <2> SUFFICES ASSUME (starts < 2 /\ reprovisions = 0)' PROVE PasswordFirst'
    OBVIOUS
  <2>1. UNCHANGED <<stage, starts, reprovisions, lastRow>> /\ exists \subseteq exists'
    BY <1>12 DEF Look, counters
  <2>2. /\ j \in Runs /\ stage[j] \in Provisioning
        /\ \A q \in Runs \ {j} : phase[q] = "idle"
    BY <1>12, <2>1 DEF Look
  <2>3. exists' = exists /\ \A q \in Jobs \ {j} : phase'[q] = phase[q] /\ idx'[q] = idx[q]
    BY <1>12 DEF Look, Fail, Skip, Reject, GoTo
  <2>4. currentState' = currentState
            /\ (Behind(saving[j].state)' => Behind(saving[j].state) \/ Behind(currentState))
        /\ \A q \in Jobs \ {j} : saving'[q] = saving[q]
    BY <1>12 DEF Look, Fail, Skip, Reject, emitEvent
  <2>5. BeforeUser(j)' => BeforeUser(j)
    BY <1>12, <2>1, <2>2 DEF Look, Fail, Skip, Reject, GoTo, Provisioning
  <2>6. AfterPassword(j)' => AfterPassword(j)
    <3> SUFFICES ASSUME AfterPassword(j)' PROVE AfterPassword(j)
      OBVIOUS
    <3>1. CASE idx[j] = 1
      <4>1. Call(j) = "adminUser" /\ Call(j) \notin exists
        BY <1>12, <2>1, <2>2, <3>1, AuthentikCallFacts DEF Look, Call
      <4> QED
        BY <1>12, <2>1, <2>2, <3>1, <4>1 DEF Look, Fail, Skip, Reject, GoTo, NonFatal
    <3>2. CASE idx[j] = 2
      BY <1>12, <2>1, <2>2, <3>2, AuthentikCallFacts DEF Look, Call, LookedUp
    <3>3. CASE idx[j] > 2
      BY <1>12, <2>1, <3>3 DEF Look
    <3> QED
      BY <3>1, <3>2, <3>3
  <2> QED
    BY <2>1, <2>2, <2>3, <2>4, <2>5, <2>6
<1>13. ASSUME NEW j \in Callers, Make(j) PROVE PasswordFirst'
  <2> SUFFICES ASSUME (starts < 2 /\ reprovisions = 0)' PROVE PasswordFirst'
    OBVIOUS
  <2>1. UNCHANGED <<stage, starts, reprovisions, lastRow>> /\ exists \subseteq exists'
    BY <1>13 DEF Make, counters
  <2>2. /\ j \in Runs /\ stage[j] \in Provisioning
        /\ \A q \in Runs \ {j} : phase[q] = "idle"
    BY <1>13, <2>1 DEF Make
  <2>3. /\ exists' \subseteq exists \cup {Call(j)}
        /\ \A q \in Jobs \ {j} : phase'[q] = phase[q] /\ idx'[q] = idx[q]
    BY <1>13 DEF Make, Fail, Skip, Reject, GoTo
  <2>4. currentState' = currentState
            /\ (Behind(saving[j].state)' => Behind(saving[j].state) \/ Behind(currentState))
        /\ \A q \in Jobs \ {j} : saving'[q] = saving[q]
    BY <1>13 DEF Make, Fail, Skip, Reject, emitEvent
  <2>5. BeforeUser(j)' => FALSE
    BY <1>13, <2>1, <2>2, AuthentikCallFacts DEF Make, Call, Fail, Skip, Reject, GoTo,
         Provisioning, NonFatal
  <2>6. AfterPassword(j)' => "adminPassword" \in exists'
    <3> SUFFICES ASSUME AfterPassword(j)' PROVE "adminPassword" \in exists'
      OBVIOUS
    <3>1. CASE idx[j] = 1
      BY <1>13, <2>1, <2>2, <3>1 DEF Make, Fail, Skip, Reject, GoTo
    <3>2. CASE idx[j] = 2
      <4>1. Call(j) = "adminPassword"
        BY <1>13, <2>1, <2>2, <3>2, AuthentikCallFacts DEF Call
      <4> QED
        BY <1>13, <2>1, <2>2, <3>2, <4>1 DEF Make, Fail, Skip, Reject, GoTo, NonFatal
    <3>3. CASE idx[j] > 2
      BY <1>13, <2>1, <3>3 DEF Make
    <3> QED
      BY <3>1, <3>2, <3>3
  <2>7. starts # 0
    BY <1>13, <2>2 DEF Make
  <2>8. \A q \in Runs : ~BeforeUser(q)'
    BY <2>2, <2>3, <2>5
  <2> QED
    BY <2>1, <2>2, <2>3, <2>4, <2>6, <2>7, <2>8
<1>14. ASSUME NEW j \in Callers, Provisioned(j) PROVE PasswordFirst'
  <2>1. /\ UNCHANGED <<currentState, exists, stage, starts, reprovisions, lastRow, idx>>
        /\ stage[j] \in Provisioning
        /\ \A q \in Jobs \ {j} : phase'[q] = phase[q] /\ saving'[q] = saving[q]
        /\ phase[j] = "look" /\ phase'[j] \in {"advance", "idle"}
        /\ saving'[j].state = saving[j].state \/ (j \in Runs /\ saving'[j].state = stage[j])
    BY <1>14 DEF Provisioned, emitEvent, GoTo, counters
  <2>2. stage[j] = "AUTHENTIK_SETUP" => idx[j] > 2
    BY <1>14, AuthentikCallFacts DEF Provisioned, HasCall
  <2>3. BeforeUser(j)' => BeforeUser(j)
    BY <2>1 DEF Provisioning
  <2>4. AfterPassword(j)' => AfterPassword(j)
    BY <2>1, <2>2
  <2>5. Behind(saving[j].state)' => Behind(saving[j].state) \/ Behind(currentState)
    BY <2>1
  <2> QED
    BY <2>1, <2>3, <2>4, <2>5
<1>15. CASE UNCHANGED vars
  BY <1>15 DEF vars, memory, counters
<1> QED
  BY <1>1, <1>2, <1>3, <1>4, <1>5, <1>6, <1>7, <1>8, <1>9, <1>10, <1>11, <1>12, <1>13,
       <1>14, <1>15 DEF Next, Callers

-----------------------------------------------------------------------------
(* Theorems                                                                *)

\* A process that was never started promises nothing.
LEMMA InitInvariant == Init => IInv
<1> SUFFICES ASSUME Init PROVE IInv
  OBVIOUS
<1> USE DEF Init
<1>1. TypeOK
  <2>1. /\ "idle" \in Phases /\ "UNINITIALIZED" \in BootstrapState /\ 1 \in Nat \ {0}
        /\ 0 \in Nat
    BY ProvisioningFacts DEF Phases
  <2> QED
    BY <2>1, Zenon DEF TypeOK
<1>2. DownIsQuiet /\ RunsInState /\ SinglePipeline /\ PhaseFits /\ CallsMade
  BY DEF DownIsQuiet, RunsInState, SinglePipeline, PhaseFits, CallsMade, Active, Jobs,
         Callers
<1>3. Honest
  BY RequiredOfFirst DEF Honest, NoEvent
<1>4. LogTailTellsState
  BY DEF LogTailTellsState
<1>5. OneStart /\ QuietOthers /\ ReadyRowLast /\ PasswordFirst
  BY DEF OneStart, QuietOthers, ReadyRowLast, PasswordFirst, Touched, BeforeUser,
         AfterPassword, Behind, Active, Jobs, NoEvent, Rank
<1> QED
  BY <1>1, <1>2, <1>3, <1>4, <1>5 DEF IInv

\* The parts of the invariant are inductive together: a start relies on what a
\* crash leaves, a new state on the calls made, and the log on the stage.
THEOREM Invariance == Spec => []IInv
<1>1. Init => IInv
  BY InitInvariant
<1>2. IInv /\ [Next]_vars => IInv'
  BY TypeStep, QuietStep, PhaseStep, RunsStep, CallsStep, HonestStep, LogStep,
     OneStartStep, OthersStep, ReadyRowStep, PasswordStep DEF IInv
<1> QED
  BY <1>1, <1>2, PTL DEF Spec

\* Every variable keeps its type.
THEOREM TypeCorrect == Spec => []TypeOK
<1>1. IInv => TypeOK
  BY DEF IInv
<1> QED
  BY <1>1, Invariance, PTL

\* However many starts arrive, by HTTP or at boot, one pipeline runs at a time.
THEOREM OnePipeline == Spec => []SinglePipeline
<1>1. IInv => SinglePipeline
  BY DEF IInv
<1> QED
  BY <1>1, Invariance, PTL

\* The current state, restored or reached, promises only what was provisioned.
THEOREM StateIsHonest == Spec => []StateImpliesParts
<1>1. IInv => StateImpliesParts
  BY DEF IInv, Honest, StateImpliesParts
<1> QED
  BY <1>1, Invariance, PTL

\* The tail of the log tells the state, except behind a DNS or port check.
THEOREM LogIsHonest == Spec => []LogTailTellsState
<1>1. IInv => LogTailTellsState
  BY DEF IInv
<1> QED
  BY <1>1, Invariance, PTL

\* In a living process the state moves to its successor or not at all.
THEOREM OnlyForward == Spec => ForwardOnly
<1>1. ASSUME IInv, [Next]_vars, up, up', currentState' # currentState
      PROVE  Rank[currentState'] = Rank[currentState] + 1
  <2>1. CASE \E r \in Runs : startBootstrap(r)
    BY <1>1, <2>1 DEF startBootstrap, BeginPipeline, Rank
  <2>2. CASE \E r \in Runs : EnterNextState(r)
    <3>1. PICK r \in Runs : EnterNextState(r)
      BY <2>2
    <3>2. stage[r] = currentState /\ stage[r] \in DOMAIN Successor
      BY <1>1, <3>1 DEF EnterNextState, IInv, RunsInState, PhaseFits, Active
    <3> QED
      BY <3>1, <3>2, SuccessorFacts DEF EnterNextState, transition
  <2>3. CASE \E j \in Callers : Look(j) \/ Make(j)
    BY <1>1, <2>3 DEF Look, Make, Fail, Skip, Reject
  <2> QED
    BY <1>1, <2>1, <2>2, <2>3 DEF Next, Callers, Boot, BootAndStart, Crash, verifyDNS,
       verifyPorts, DnsReply, PortsReply, ProbeUnchanged, persistEvent,
       reprovisionAuthentik, Provisioned, vars, memory
<1>2. IInv /\ [Next]_vars =>
        [up /\ up' /\ currentState' # currentState
            => Rank[currentState'] = Rank[currentState] + 1]_vars
  BY <1>1
<1> QED
  BY <1>2, Invariance, PTL DEF Spec, ForwardOnly

\* A restart finds READY again, unless an HTTP check wrote a row behind it or
\* an unreadable table made the pipeline start over.
THEOREM ReadySurvives == Spec => []ReadyIsRemembered
<1>1. IInv => ReadyIsRemembered
  BY DEF IInv, TypeOK, ReadyRowLast, ReadyIsRemembered
<1> QED
  BY <1>1, Invariance, PTL

\* Whatever failed or crashed on the way, a first attempt that reached READY
\* has set the password of the admin user.
THEOREM PasswordWasSet == Spec => []PasswordUnlessRetried
<1>1. IInv => PasswordUnlessRetried
  BY DEF IInv, PasswordFirst, PasswordUnlessRetried, Behind, Rank
<1> QED
  BY <1>1, Invariance, PTL

-----------------------------------------------------------------------------
(* What becomes of a pipeline, and of a server without one                 *)

\* The setup is somewhere between its start and its end, and no pipeline runs.
Stranded ==
    /\ up
    /\ currentState # "UNINITIALIZED"
    /\ \A r \in Runs : ~Active(r)

\* A server that has restarted in the middle of the setup, or whose pipeline has failed,
\* stays where it is until the process ends: no request and no check sets it going again.
THEOREM StrandedStays ==
    Spec => [][Stranded /\ up' => Stranded' /\ currentState' = currentState]_vars
<1>1. ASSUME TypeOK, [Next]_vars, Stranded, up'
      PROVE  Stranded' /\ currentState' = currentState
  <2> USE <1>1, BootstrapAssumption DEF Stranded, TypeOK, Active, Callers, Jobs
  <2>1. ASSUME NEW j \in Runs \cup Probers, verifyDNS(j) \/ verifyPorts(j)
        PROVE  Stranded' /\ currentState' = currentState
    BY <2>1 DEF verifyDNS, verifyPorts, emitEvent, GoTo, ProbeUnchanged
  <2>2. ASSUME NEW j \in Runs \cup Probers, DnsReply(j) \/ PortsReply(j)
        PROVE  Stranded' /\ currentState' = currentState
    BY <2>2 DEF DnsReply, PortsReply, ProbeFails, emitEvent, GoTo, ProbeUnchanged
  <2>3. ASSUME NEW j \in Callers, Look(j) \/ Make(j)
        PROVE  Stranded' /\ currentState' = currentState
    BY <2>3 DEF Look, Make, Fail, Skip, Reject, GoTo, emitEvent
  <2>4. ASSUME NEW j \in Callers, Provisioned(j)
        PROVE  Stranded' /\ currentState' = currentState
    BY <2>4 DEF Provisioned, GoTo
  <2>5. CASE reprovisionAuthentik
    BY <2>5 DEF reprovisionAuthentik, GoTo
  <2>6. CASE \E j \in Jobs : persistEvent(j)
    BY <2>6 DEF persistEvent
  <2>7. CASE UNCHANGED vars
    BY <2>7 DEF vars, memory
  <2> QED
    BY <2>1, <2>2, <2>3, <2>4, <2>5, <2>6, <2>7 DEF Next, Boot, BootAndStart, Crash,
       startBootstrap, EnterNextState
<1>2. TypeOK /\ [Next]_vars
        => [Stranded /\ up' => Stranded' /\ currentState' = currentState]_vars
  BY <1>1
<1> QED
  BY <1>2, TypeCorrect, PTL DEF Spec

\* In its first life a server that is not running has stored nothing, and one that runs is
\* between the first state and READY only on behalf of a pipeline.
FirstLife ==
    crashes = 0 =>
        /\ ~up => lastRow = NoEvent
        /\ up /\ currentState \notin {"UNINITIALIZED", "READY"} => \E r \in Runs : phase[r] # "idle"

LEMMA FirstLifeStep ==
    ASSUME TypeOK, PhaseFits, FirstLife, [Next]_vars
    PROVE  FirstLife'
<1> SUFFICES ASSUME crashes' = 0 PROVE FirstLife'
  BY DEF FirstLife
<1> USE BootstrapAssumption DEF TypeOK, FirstLife, Callers, Jobs
<1>1. ASSUME NEW readable \in BOOLEAN, Boot(readable) PROVE FirstLife'
  BY <1>1 DEF Boot, RestoredRow, NoEvent, counters
<1>2. ASSUME NEW r \in Runs, BeginPipeline(r), up' PROVE FirstLife'
  <2>1. phase'[r] # "idle"
    BY <1>2 DEF BeginPipeline, GoTo
  <2> QED
    BY <1>2, <2>1
<1>3. ASSUME Crash PROVE FirstLife'
  BY <1>3 DEF Crash
\* A step that ends no pipeline and leaves the state.
<1>4. ASSUME UNCHANGED <<up, crashes, currentState>>, up,
             \A r \in Runs : phase[r] # "idle" => phase'[r] # "idle"
      PROVE  FirstLife'
  BY <1>4
<1>5. ASSUME NEW j \in Runs \cup Probers, verifyDNS(j) \/ verifyPorts(j) PROVE FirstLife'
  BY <1>4, <1>5 DEF verifyDNS, verifyPorts, Awake, GoTo, ProbeUnchanged
<1>6. ASSUME NEW j \in Runs \cup Probers, DnsReply(j) \/ PortsReply(j) PROVE FirstLife'
  BY <1>4, <1>6 DEF DnsReply, PortsReply, Awake, ProbeFails, GoTo, ProbeUnchanged
<1>7. ASSUME NEW r \in Runs, EnterNextState(r) PROVE FirstLife'
  <2>1. up' /\ (currentState' # "READY" => phase'[r] # "idle")
    BY <1>7 DEF EnterNextState, Awake, transition, GoTo
  <2> QED
    BY <2>1
<1>8. ASSUME NEW j \in Callers, Look(j) \/ Make(j) PROVE FirstLife'
  BY <1>4, <1>8 DEF Look, Make, Awake, Fail, Skip, Reject, GoTo, counters
<1>9. ASSUME NEW j \in Callers, Provisioned(j) PROVE FirstLife'
  BY <1>4, <1>9 DEF Provisioned, Awake, GoTo, counters
<1>10. CASE reprovisionAuthentik
  BY <1>4, <1>10 DEF reprovisionAuthentik, Awake, GoTo
<1>11. CASE \E j \in Jobs : persistEvent(j)
  BY <1>4, <1>11 DEF persistEvent
<1>12. CASE UNCHANGED vars
  BY <1>12 DEF vars, memory, counters
<1> QED
  BY <1>1, <1>2, <1>3, <1>5, <1>6, <1>7, <1>8, <1>9, <1>10, <1>11, <1>12
     DEF Next, BootAndStart, startBootstrap

\* Unless the process has crashed, a setup that has begun and not ended has a pipeline that
\* runs or has failed and said so: what the README says of restarts fails for a crash only.
THEOREM BegunIsPursued ==
    Spec => [](/\ up /\ crashes = 0 /\ currentState \notin {"UNINITIALIZED", "READY"}
               => \E r \in Runs : phase[r] # "idle")
<1>1. Init => FirstLife
  BY DEF Init, FirstLife
<1>2. IInv /\ FirstLife /\ [Next]_vars => FirstLife'
  BY FirstLifeStep DEF IInv
<1>3. FirstLife => (/\ up /\ crashes = 0 /\ currentState \notin {"UNINITIALIZED", "READY"}
                    => \E r \in Runs : phase[r] # "idle")
  BY DEF FirstLife
<1> QED
  BY <1>1, <1>2, <1>3, Invariance, PTL DEF Spec

-----------------------------------------------------------------------------
(* How long a pipeline takes                                               *)

\* Where a pipeline is.
Where(r) == <<phase[r], stage[r], idx[r], saving[r]>>

\* The calls it has still to make in its state.
CallsLeft(r) == Len(Calls[stage[r]]) + 1 - idx[r]

\* The steps a phase takes, two for each of n calls.
PhaseSteps(ph, n) ==
    CASE ph = "dns" -> 5
      [] ph = "dnsReply" -> 4
      [] ph = "ports" -> 3
      [] ph = "portsReply" -> 2
      [] ph = "advance" -> 1
      [] ph = "look" -> 2 * n + 2
      [] ph = "make" -> 2 * n + 1
      [] OTHER -> 0

StateSteps(r) == PhaseSteps(phase[r], CallsLeft(r))

InsertSteps(r) == IF saving[r] = NoEvent THEN 0 ELSE 1

\* No state takes more than thirty steps, with the INSERT of an event after each.
StepsLeft(r) ==
    IF Active(r)
    THEN 30 * (Rank["READY"] - Rank[stage[r]]) + 2 * StateSteps(r) + InsertSteps(r)
    ELSE InsertSteps(r)

\* A pipeline inside provision() has a call to make, or has made the last.
CallsFit ==
    \A r \in Runs :
        /\ phase[r] = "look" => idx[r] <= Len(Calls[stage[r]]) + 1
        /\ phase[r] = "make" => idx[r] <= Len(Calls[stage[r]])

LEMMA CallCounts ==
    /\ \A s \in Provisioning : Len(Calls[s]) \in 1 .. 5
    /\ \A s \in Provisioning, i \in 1 .. 5 :
          i <= Len(Calls[s]) /\ Calls[s][i] = "adminUser" => i + 1 <= Len(Calls[s])
<1>1. ASSUME NEW s \in Provisioning PROVE Len(Calls[s]) \in 1 .. 5
  BY DEF Provisioning, Calls, AuthentikCalls, MailcowCalls, TraefikCalls
<1> QED
  BY <1>1, CallFacts

LEMMA PhaseStepsAre ==
    /\ \A n : PhaseSteps("advance", n) = 1 /\ PhaseSteps("failed", n) = 0 /\ PhaseSteps("idle", n) = 0
    /\ \A n : PhaseSteps("dns", n) = 5 /\ PhaseSteps("dnsReply", n) = 4
    /\ \A n : PhaseSteps("ports", n) = 3 /\ PhaseSteps("portsReply", n) = 2
    /\ \A n \in Nat : PhaseSteps("look", n) = 2 * n + 2 /\ PhaseSteps("make", n) = 2 * n + 1
BY DEF PhaseSteps

\* What a pipeline inside provision() has before it.
LEMMA CallsLeftAre ==
    ASSUME TypeOK, PhaseFits, CallsFit, NEW r \in Runs, phase[r] \in {"look", "make"}
    PROVE  /\ Len(Calls[stage[r]]) \in 1 .. 5 /\ idx[r] \in Nat \ {0}
           /\ CallsLeft(r) \in 0 .. 5
           /\ phase[r] = "make" => CallsLeft(r) \in 1 .. 5
           /\ phase[r] = "look" => StateSteps(r) = 2 * CallsLeft(r) + 2
           /\ phase[r] = "make" => StateSteps(r) = 2 * CallsLeft(r) + 1
           /\ HasCall(r) <=> CallsLeft(r) \in 1 .. 5
<1>1. r \in Jobs /\ stage[r] \in Provisioning /\ idx[r] \in Nat \ {0}
  BY DEF TypeOK, PhaseFits, Jobs
<1>2. Len(Calls[stage[r]]) \in 1 .. 5
  BY <1>1, CallCounts
<1>3. /\ phase[r] = "look" => idx[r] <= Len(Calls[stage[r]]) + 1
      /\ phase[r] = "make" => idx[r] <= Len(Calls[stage[r]])
  BY DEF CallsFit
<1>4. CallsLeft(r) \in 0 .. 5 /\ (phase[r] = "make" => CallsLeft(r) \in 1 .. 5)
  <2>1. PICK calls \in 1 .. 5, i \in Nat \ {0} : calls = Len(Calls[stage[r]]) /\ i = idx[r]
    BY <1>1, <1>2
  <2>2. CallsLeft(r) = calls + 1 - i /\ i <= calls + 1 /\ (phase[r] = "make" => i <= calls)
    BY <1>3, <2>1 DEF CallsLeft
  <2> QED
    BY <2>2
<1>5. HasCall(r) <=> CallsLeft(r) \in 1 .. 5
  <2>1. PICK calls \in 1 .. 5, i \in Nat \ {0} : calls = Len(Calls[stage[r]]) /\ i = idx[r]
    BY <1>1, <1>2
  <2>2. CallsLeft(r) = calls + 1 - i
    BY <2>1 DEF CallsLeft
  <2>3. HasCall(r) <=> i \in 1 .. calls
    BY <2>1 DEF HasCall
  <2> QED
    BY <2>2, <2>3
<1>6. /\ phase[r] = "look" => StateSteps(r) = 2 * CallsLeft(r) + 2
      /\ phase[r] = "make" => StateSteps(r) = 2 * CallsLeft(r) + 1
  BY <1>4, PhaseStepsAre DEF StateSteps
<1> QED
  BY <1>1, <1>2, <1>4, <1>5, <1>6

\* A step of a process that lives on is one of the pipeline's own, or leaves it where it is.
LEMMA OwnSteps ==
    ASSUME TypeOK, [Next]_vars, up, up', NEW r \in Runs, Active(r)
    PROVE  PipelineStep(r) \/ Where(r)' = Where(r)
<1> USE BootstrapAssumption DEF TypeOK, Callers, Jobs, Active, Where
<1>0. r \in Jobs
  OBVIOUS
<1>1. ASSUME NEW j \in Runs \cup Probers, verifyDNS(j) \/ verifyPorts(j)
      PROVE  PipelineStep(r) \/ Where(r)' = Where(r)
  <2>1. CASE j # r
    BY <1>1, <2>1 DEF verifyDNS, verifyPorts, emitEvent, GoTo, ProbeUnchanged
  <2> QED
    BY <1>1, <2>1 DEF PipelineStep
<1>2. ASSUME NEW j \in Runs \cup Probers, DnsReply(j) \/ PortsReply(j)
      PROVE  PipelineStep(r) \/ Where(r)' = Where(r)
  <2>1. CASE j # r
    BY <1>2, <2>1 DEF DnsReply, PortsReply, ProbeFails, emitEvent, GoTo, ProbeUnchanged
  <2> QED
    BY <1>2, <2>1 DEF PipelineStep
<1>3. ASSUME NEW j \in Runs, EnterNextState(j)
      PROVE  PipelineStep(r) \/ Where(r)' = Where(r)
  <2>1. CASE j # r
    BY <1>3, <2>1 DEF EnterNextState, transition, emitEvent, GoTo
  <2> QED
    BY <1>3, <2>1 DEF PipelineStep
<1>4. ASSUME NEW j \in Callers, Look(j) \/ Make(j)
      PROVE  PipelineStep(r) \/ Where(r)' = Where(r)
  <2>1. CASE j # r
    BY <1>4, <2>1 DEF Look, Make, Fail, Skip, Reject, emitEvent, GoTo
  <2> QED
    BY <1>4, <2>1 DEF PipelineStep
<1>5. ASSUME NEW j \in Callers, Provisioned(j)
      PROVE  PipelineStep(r) \/ Where(r)' = Where(r)
  <2>1. CASE j # r
    BY <1>5, <2>1 DEF Provisioned, emitEvent, GoTo
  <2> QED
    BY <1>5, <2>1 DEF PipelineStep
<1>6. ASSUME NEW j \in Jobs, persistEvent(j)
      PROVE  PipelineStep(r) \/ Where(r)' = Where(r)
  <2>1. CASE j # r
    BY <1>6, <2>1 DEF persistEvent
  <2> QED
    BY <1>6, <2>1 DEF PipelineStep
<1>7. CASE reprovisionAuthentik
  BY <1>7 DEF reprovisionAuthentik, GoTo
<1>8. CASE \E q \in Runs : startBootstrap(q)
  <2>1. PICK q \in Runs : startBootstrap(q)
    BY <1>8
  <2>2. q # r
    BY <2>1 DEF startBootstrap
  <2> QED
    BY <2>1, <2>2 DEF startBootstrap, BeginPipeline, GoTo
<1>9. CASE UNCHANGED vars
  BY <1>9 DEF vars, memory
<1> QED
  BY <1>1, <1>2, <1>3, <1>4, <1>5, <1>6, <1>7, <1>8, <1>9
     DEF Next, Boot, BootAndStart, Crash

\* Each step of a pipeline of its own takes it nearer to its end.
LEMMA OwnStepsDescend ==
    ASSUME TypeOK, PhaseFits, CallsFit, NEW r \in Runs, Active(r), PipelineStep(r)
    PROVE  /\ StepsLeft(r)' < StepsLeft(r)
           /\ phase'[r] = "look" => idx'[r] <= Len(Calls[stage'[r]]) + 1
           /\ phase'[r] = "make" => idx'[r] <= Len(Calls[stage'[r]])
<1> DEFINE Fits == /\ phase'[r] = "look" => idx'[r] <= Len(Calls[stage'[r]]) + 1
                   /\ phase'[r] = "make" => idx'[r] <= Len(Calls[stage'[r]])
           Goal == StepsLeft(r)' < StepsLeft(r) /\ Fits
<1>1. /\ r \in Jobs /\ r \in Callers /\ r \notin Probers
      /\ phase[r] \in Phases \ {"idle", "failed"}
      /\ stage[r] \in BootstrapState /\ idx[r] \in Nat \ {0}
      /\ Rank[stage[r]] \in 0 .. 6 /\ Rank["READY"] = 6
  BY BootstrapAssumption DEF TypeOK, Active, Jobs, Callers, Phases, BootstrapState, Rank
<1>2. InsertSteps(r) \in {0, 1} /\ InsertSteps(r)' \in {0, 1}
  BY DEF InsertSteps
<1>3. StateSteps(r) \in 1 .. 12
  <2>1. CASE phase[r] \in {"look", "make"}
    BY <2>1, CallsLeftAre
  <2>2. CASE phase[r] \notin {"look", "make"}
    BY <1>1, <2>2, PhaseStepsAre DEF StateSteps, Phases
  <2> QED
    BY <2>1, <2>2
\* Nearer within the state, or at the end of the pipeline.
<1>4. ASSUME saving[r] = NoEvent, UNCHANGED stage,
             StateSteps(r) \in Nat, StateSteps(r)' \in Nat, StateSteps(r)' < StateSteps(r)
      PROVE  StepsLeft(r)' < StepsLeft(r)
  <2>1. StepsLeft(r) = 30 * (6 - Rank[stage[r]]) + 2 * StateSteps(r)
    BY <1>1, <1>4 DEF StepsLeft, InsertSteps
  <2>2. CASE Active(r)'
    <3>1. StepsLeft(r)' = 30 * (6 - Rank[stage[r]]) + 2 * StateSteps(r)' + InsertSteps(r)'
      BY <1>1, <1>4, <2>2 DEF StepsLeft
    <3> QED
      BY <1>1, <1>2, <1>4, <2>1, <3>1
  <2>3. CASE ~Active(r)'
    <3>1. StepsLeft(r)' = InsertSteps(r)'
      BY <2>3 DEF StepsLeft
    <3> QED
      BY <1>1, <1>2, <1>4, <2>1, <3>1
  <2> QED
    BY <2>2, <2>3
<1>5. CASE persistEvent(r)
  <2>1. /\ saving[r] # NoEvent /\ saving'[r] = NoEvent
        /\ phase'[r] = phase[r] /\ stage'[r] = stage[r] /\ idx'[r] = idx[r]
    BY <1>1, <1>5 DEF persistEvent, TypeOK
  <2>2. StateSteps(r)' = StateSteps(r) /\ Active(r)'
    BY <2>1 DEF StateSteps, CallsLeft, Active
  <2>3. Fits
    BY <2>1 DEF CallsFit
  <2>4. StateSteps(r) \in Nat
    BY <1>3
  <2>5. InsertSteps(r) = 1 /\ InsertSteps(r)' = 0
    BY <2>1 DEF InsertSteps
  <2>6. /\ StepsLeft(r) = 30 * (6 - Rank[stage[r]]) + 2 * StateSteps(r) + 1
        /\ StepsLeft(r)' = 30 * (6 - Rank[stage[r]]) + 2 * StateSteps(r) + 0
    BY <1>1, <2>1, <2>2, <2>5 DEF StepsLeft
  <2> QED
    BY <1>1, <2>3, <2>4, <2>6
<1>6. CASE verifyDNS(r) \/ verifyPorts(r)
  <2>1. /\ saving[r] = NoEvent /\ UNCHANGED stage
        /\ \/ phase[r] = "dns" /\ phase'[r] = "dnsReply"
           \/ phase[r] = "ports" /\ phase'[r] = "portsReply"
    BY <1>1, <1>6 DEF verifyDNS, verifyPorts, Awake, GoTo, ProbeUnchanged, TypeOK
  <2>2. StateSteps(r) \in Nat /\ StateSteps(r)' \in Nat /\ StateSteps(r)' < StateSteps(r)
    BY <2>1, PhaseStepsAre DEF StateSteps
  <2>3. phase'[r] \notin {"look", "make"}
    BY <2>1
  <2> QED
    BY <1>4, <2>1, <2>2, <2>3
<1>7. CASE DnsReply(r) \/ PortsReply(r)
  <2>1. /\ saving[r] = NoEvent /\ UNCHANGED stage
        /\ \/ phase[r] = "dnsReply" /\ phase'[r] \in {"ports", "advance"}
           \/ phase[r] = "portsReply" /\ phase'[r] = "advance"
    BY <1>1, <1>7 DEF DnsReply, PortsReply, Awake, ProbeFails, GoTo, ProbeUnchanged, TypeOK
  <2>2. StateSteps(r) \in Nat /\ StateSteps(r)' \in Nat /\ StateSteps(r)' < StateSteps(r)
    BY <2>1, PhaseStepsAre DEF StateSteps
  <2>3. phase'[r] \notin {"look", "make"}
    BY <2>1
  <2> QED
    BY <1>4, <2>1, <2>2, <2>3
<1>8. CASE EnterNextState(r)
  <2>1. /\ saving[r] = NoEvent /\ phase[r] = "advance" /\ stage[r] \in DOMAIN Successor
        /\ stage'[r] = Successor[stage[r]] /\ idx'[r] = 1
    BY <1>1, <1>8 DEF EnterNextState, Awake, transition, TypeOK, PhaseFits
  <2>7. /\ stage'[r] \in Provisioning => phase'[r] = "look"
        /\ stage'[r] \notin Provisioning /\ stage'[r] = "READY" => phase'[r] = "idle"
        /\ stage'[r] \notin Provisioning /\ stage'[r] # "READY" => phase'[r] = "advance"
    <3>1. PICK next : next = Successor[stage[r]]
      OBVIOUS
    <3>2. GoTo(r, CASE next \in Provisioning -> "look"
                    [] next = "READY" -> "idle"
                    [] OTHER -> "advance")
      BY <1>8, <3>1 DEF EnterNextState
    <3>3. phase'[r] = CASE next \in Provisioning -> "look"
                        [] next = "READY" -> "idle"
                        [] OTHER -> "advance"
      BY <1>1, <3>2 DEF GoTo, TypeOK
    <3>4. CASE next \in Provisioning
      BY <2>1, <3>1, <3>3, <3>4 DEF Provisioning
    <3>5. CASE next \notin Provisioning /\ next = "READY"
      BY <2>1, <3>1, <3>3, <3>5
    <3>6. CASE next \notin Provisioning /\ next # "READY"
      BY <2>1, <3>1, <3>3, <3>6
    <3> QED
      BY <3>4, <3>5, <3>6
  <2>2. Rank[stage'[r]] = Rank[stage[r]] + 1 /\ Rank[stage'[r]] \in 0 .. 6
    BY <2>1, SuccessorFacts DEF BootstrapState, Rank
  <2>3. StepsLeft(r) = 30 * (6 - Rank[stage[r]]) + 2
    BY <1>1, <2>1, PhaseStepsAre DEF StepsLeft, StateSteps, InsertSteps
  <2>4. CASE stage'[r] \in Provisioning
    <3>1. Len(Calls[stage'[r]]) \in 1 .. 5
      BY <2>4, CallCounts
    <3>2. phase'[r] = "look"
      BY <2>7, <2>4
    <3>4. PICK calls \in 1 .. 5 : calls = Len(Calls[stage'[r]])
      BY <3>1
    <3>5. CallsLeft(r)' = calls + 1 - 1
      BY <2>1, <3>4 DEF CallsLeft
    <3>6. StateSteps(r)' = 2 * calls + 2
      BY <3>2, <3>5, PhaseStepsAre DEF StateSteps
    <3>7. StateSteps(r)' \in Nat /\ StateSteps(r)' <= 12
      BY <3>6
    <3>3. StepsLeft(r)' = 30 * (6 - Rank[stage'[r]]) + 2 * StateSteps(r)' + InsertSteps(r)'
      BY <1>1, <3>2 DEF StepsLeft, Active
    <3>8. Fits
      BY <2>1, <3>2, <3>4
    <3>9. StepsLeft(r)' < StepsLeft(r)
      <4>1. PICK k \in 0 .. 6, x \in Nat, y \in 0 .. 1 :
                 k = Rank[stage[r]] /\ x = StateSteps(r)' /\ y = InsertSteps(r)'
        BY <1>1, <1>2, <3>7
      <4>2. /\ StepsLeft(r) = 30 * (6 - k) + 2
            /\ StepsLeft(r)' = 30 * (6 - (k + 1)) + 2 * x + y
            /\ x <= 12
        BY <1>1, <2>2, <2>3, <3>3, <3>7, <4>1
      <4> QED
        BY <4>1, <4>2
    <3> QED
      BY <3>8, <3>9
  <2>5. CASE stage'[r] \notin Provisioning /\ stage'[r] = "READY"
    <3>1. StepsLeft(r)' = InsertSteps(r)' /\ Fits
      BY <2>7, <2>5 DEF StepsLeft, Active
    <3> QED
      BY <1>1, <1>2, <2>2, <2>3, <3>1
  <2>6. CASE stage'[r] \notin Provisioning /\ stage'[r] # "READY"
    <3>1. StateSteps(r)' = 1 /\ Active(r)' /\ Fits
      BY <2>7, <2>6, PhaseStepsAre DEF StateSteps, Active
    <3>2. StepsLeft(r)' = 30 * (6 - Rank[stage'[r]]) + 2 * StateSteps(r)' + InsertSteps(r)'
      BY <1>1, <3>1 DEF StepsLeft
    <3> QED
      BY <1>1, <1>2, <2>2, <2>3, <3>1, <3>2
  <2> QED
    BY <2>4, <2>5, <2>6
\* Inside provision().
<1>9. CASE Look(r) \/ Make(r)
  <2>1. /\ saving[r] = NoEvent /\ UNCHANGED stage
        /\ phase[r] \in {"look", "make"} /\ stage[r] \in Provisioning /\ HasCall(r)
    BY <1>1, <1>9 DEF Look, Make, Awake, PhaseFits
  <2>2. /\ Len(Calls[stage[r]]) \in 1 .. 5 /\ CallsLeft(r) \in 1 .. 5
        /\ StateSteps(r) >= 2 * CallsLeft(r) + 1 /\ StateSteps(r) \in Nat
        /\ phase[r] = "look" => StateSteps(r) = 2 * CallsLeft(r) + 2
    BY <2>1, CallsLeftAre
  <2>3. PICK calls \in 1 .. 5 : calls = Len(Calls[stage[r]])
    BY <2>2
  <2>4. ASSUME NEW n \in {1, 2}, Skip(r, n), idx[r] + n <= calls + 1
        PROVE  Goal
    <3>1. phase'[r] = "look" /\ idx'[r] = idx[r] + n
      BY <1>1, <2>4 DEF Skip, GoTo, TypeOK
    <3>2. CallsLeft(r)' = CallsLeft(r) - n /\ CallsLeft(r)' \in Nat
      <4>1. PICK i \in Nat \ {0} : i = idx[r]
        BY <1>1
      <4>2. CallsLeft(r) = calls + 1 - i /\ CallsLeft(r)' = calls + 1 - (i + n)
        BY <2>1, <2>3, <3>1, <4>1 DEF CallsLeft
      <4> QED
        BY <2>4, <4>1, <4>2
    <3>3. StateSteps(r)' = 2 * CallsLeft(r)' + 2
      BY <3>1, <3>2, PhaseStepsAre DEF StateSteps
    <3>4. StateSteps(r)' \in Nat /\ StateSteps(r)' < StateSteps(r)
      <4>1. PICK x \in Nat, y \in Nat, z \in Nat :
                 x = CallsLeft(r) /\ y = CallsLeft(r)' /\ z = StateSteps(r)
        BY <2>2, <3>2
      <4>2. y = x - n /\ z >= 2 * x + 1 /\ StateSteps(r)' = 2 * y + 2
        BY <2>2, <3>2, <3>3, <4>1
      <4> QED
        BY <4>1, <4>2
    <3>5. Fits
      BY <2>1, <2>3, <2>4, <3>1
    <3> QED
      BY <1>4, <2>1, <2>2, <3>4, <3>5
  <2>5. CASE GoTo(r, "make") /\ UNCHANGED idx /\ phase[r] = "look"
    <3>1. phase'[r] = "make" /\ idx'[r] = idx[r]
      BY <1>1, <2>5 DEF GoTo, TypeOK
    <3>2. CallsLeft(r)' = CallsLeft(r)
      BY <2>1, <3>1 DEF CallsLeft
    <3>3. StateSteps(r)' = 2 * CallsLeft(r) + 1
      BY <2>2, <3>1, <3>2, PhaseStepsAre DEF StateSteps
    <3>4. StateSteps(r)' \in Nat /\ StateSteps(r)' < StateSteps(r)
      BY <2>2, <2>5, <3>3
    <3>5. Fits
      BY <1>1, <2>1, <3>1 DEF HasCall
    <3> QED
      BY <1>4, <2>1, <2>2, <3>4, <3>5
  <2>6. CASE Reject(r)
    <3>1. phase'[r] = "failed"
      BY <1>1, <2>6 DEF Reject, GoTo, TypeOK
    <3>2. StateSteps(r)' = 0
      BY <3>1, PhaseStepsAre DEF StateSteps
    <3> QED
      BY <1>4, <1>3, <2>1, <3>1, <3>2
  <2>7. idx[r] + 1 <= calls + 1 /\ (Call(r) = "adminUser" => idx[r] + 2 <= calls + 1)
    BY <1>1, <2>1, <2>3, CallCounts DEF Call, HasCall
  <2>8. \/ Skip(r, 1)
        \/ Skip(r, 2) /\ Call(r) = "adminUser"
        \/ GoTo(r, "make") /\ UNCHANGED idx /\ phase[r] = "look"
        \/ Reject(r)
    BY <1>9 DEF Look, Make, Fail
  <2> QED
    BY <2>4, <2>5, <2>6, <2>7, <2>8
<1>10. CASE Provisioned(r)
  <2>1. /\ saving[r] = NoEvent /\ UNCHANGED stage
        /\ phase[r] = "look" /\ phase'[r] = "advance"
    BY <1>1, <1>10 DEF Provisioned, Awake, GoTo, TypeOK
  <2>2. StateSteps(r)' = 1 /\ StateSteps(r) \in Nat /\ StateSteps(r) >= 2
    BY <2>1, CallsLeftAre, PhaseStepsAre DEF StateSteps
  <2> QED
    BY <1>4, <2>1, <2>2
<1> QED
  BY <1>5, <1>6, <1>7, <1>8, <1>9, <1>10 DEF PipelineStep

LEMMA CallsFitStep ==
    ASSUME TypeOK, DownIsQuiet, PhaseFits, CallsFit, [Next]_vars
    PROVE  CallsFit'
<1> SUFFICES ASSUME NEW r \in Runs
             PROVE  /\ phase'[r] = "look" => idx'[r] <= Len(Calls[stage'[r]]) + 1
                    /\ phase'[r] = "make" => idx'[r] <= Len(Calls[stage'[r]])
  BY DEF CallsFit
<1>1. CASE up /\ up' /\ Active(r)
  <2>1. CASE Where(r)' = Where(r)
    BY <2>1 DEF Where, CallsFit
  <2>2. CASE PipelineStep(r)
    BY <1>1, <2>2, OwnStepsDescend
  <2> QED
    BY <1>1, <2>1, <2>2, OwnSteps
<1>2. CASE ~(up /\ up' /\ Active(r))
  <2>1. r \in Jobs
    BY DEF Jobs
  <2>2. phase'[r] \notin {"look", "make"}
    <3> USE <2>1, BootstrapAssumption DEF TypeOK, Active, Jobs
    <3>1. CASE Crash
      BY <3>1 DEF Crash
    <3>2. CASE \E readable \in BOOLEAN : Boot(readable)
      BY <3>2 DEF Boot, DownIsQuiet
    <3>3. ASSUME NEW q \in Runs, BeginPipeline(q), ~Active(r) \/ ~up
          PROVE  phase'[r] \notin {"look", "make"}
      BY <3>3 DEF BeginPipeline, GoTo, DownIsQuiet
    <3>4. ASSUME NEW q \in Runs, startBootstrap(q) PROVE phase'[r] \notin {"look", "make"}
      BY <1>2, <3>3, <3>4 DEF startBootstrap
    <3>5. ASSUME NEW q \in Runs, NEW readable \in BOOLEAN, BootAndStart(readable, q)
          PROVE  phase'[r] \notin {"look", "make"}
      BY <3>3, <3>5 DEF BootAndStart
    <3>6. CASE UNCHANGED vars
      BY <1>2, <3>6 DEF vars, memory, DownIsQuiet
    <3>7. ASSUME NEW j \in Runs \cup Probers, verifyDNS(j) \/ verifyPorts(j)
          PROVE  phase'[r] \notin {"look", "make"}
      BY <1>2, <3>7 DEF verifyDNS, verifyPorts, GoTo, ProbeUnchanged, Awake
    <3>8. ASSUME NEW j \in Runs \cup Probers, DnsReply(j) \/ PortsReply(j)
          PROVE  phase'[r] \notin {"look", "make"}
      BY <1>2, <3>8 DEF DnsReply, PortsReply, ProbeFails, GoTo, ProbeUnchanged, Awake
    <3>9. ASSUME NEW j \in Runs, EnterNextState(j) PROVE phase'[r] \notin {"look", "make"}
      BY <1>2, <3>9 DEF EnterNextState, GoTo, Awake
    <3>10. ASSUME NEW j \in Callers, Look(j) \/ Make(j) \/ Provisioned(j)
           PROVE  phase'[r] \notin {"look", "make"}
      BY <1>2, <3>10 DEF Look, Make, Provisioned, Fail, Skip, Reject, GoTo, Awake, Callers
    <3>11. CASE reprovisionAuthentik
      BY <1>2, <3>11 DEF reprovisionAuthentik, GoTo, Awake
    <3>12. CASE \E j \in Jobs : persistEvent(j)
      BY <1>2, <3>12 DEF persistEvent
    <3> QED
      BY <3>1, <3>2, <3>4, <3>5, <3>6, <3>7, <3>8, <3>9, <3>10, <3>11, <3>12 DEF Next, Callers
  <2> QED
    BY <2>2
<1> QED
  BY <1>1, <1>2

\* A pipeline has at most 161 steps to make, whatever fails on the way: nothing is tried
\* again, each of its own steps takes it nearer to READY or to its error, and no other job
\* of the process takes it back.
THEOREM PipelineEnds ==
    Spec => [][\A r \in Runs :
                 up /\ up' /\ Active(r) =>
                    /\ StepsLeft(r) \in 1 .. 161
                    /\ \/ PipelineStep(r) /\ StepsLeft(r)' < StepsLeft(r)
                       \/ ~PipelineStep(r) /\ Where(r)' = Where(r)]_vars
<1>1. Init => CallsFit
  BY DEF Init, CallsFit, Jobs
<1>2. IInv /\ CallsFit /\ [Next]_vars => CallsFit'
  BY CallsFitStep DEF IInv
<1>3. ASSUME IInv, CallsFit, NEW r \in Runs, Active(r) PROVE StepsLeft(r) \in 1 .. 161
  <2>1. /\ phase[r] \in Phases \ {"idle", "failed"} /\ idx[r] \in Nat \ {0}
        /\ stage[r] \in BootstrapState /\ stage[r] # "UNINITIALIZED"
    BY <1>3 DEF IInv, TypeOK, RunsInState, Jobs, Active
  <2>2. Rank[stage[r]] \in 1 .. 6 /\ Rank["READY"] = 6 /\ InsertSteps(r) \in {0, 1}
    BY <2>1 DEF BootstrapState, Rank, InsertSteps
  <2>3. ASSUME phase[r] \in {"look", "make"}
        PROVE  StateSteps(r) \in 1 .. 12 /\ Rank[stage[r]] \in 3 .. 5
    BY <1>3, <2>3, CallsLeftAre DEF IInv, PhaseFits, Provisioning, Rank, Jobs
  <2>4. ASSUME phase[r] \notin {"look", "make"}
        PROVE  StateSteps(r) \in 1 .. 5
    BY <2>1, <2>4, PhaseStepsAre DEF StateSteps, Phases
  <2>5. StepsLeft(r) = 30 * (6 - Rank[stage[r]]) + 2 * StateSteps(r) + InsertSteps(r)
    BY <1>3, <2>2 DEF StepsLeft
  <2> QED
    BY <2>2, <2>3, <2>4, <2>5
<1>4. ASSUME IInv, CallsFit, [Next]_vars, NEW r \in Runs, up, up', Active(r)
      PROVE  /\ StepsLeft(r) \in 1 .. 161
             /\ \/ PipelineStep(r) /\ StepsLeft(r)' < StepsLeft(r)
                \/ ~PipelineStep(r) /\ Where(r)' = Where(r)
  BY <1>3, <1>4, OwnSteps, OwnStepsDescend DEF IInv
<1>5. IInv /\ CallsFit /\ [Next]_vars =>
        [\A r \in Runs :
            up /\ up' /\ Active(r) =>
               /\ StepsLeft(r) \in 1 .. 161
               /\ \/ PipelineStep(r) /\ StepsLeft(r)' < StepsLeft(r)
                  \/ ~PipelineStep(r) /\ Where(r)' = Where(r)]_vars
  BY <1>4
<1> QED
  BY <1>1, <1>2, <1>5, Invariance, PTL DEF Spec
=============================================================================
