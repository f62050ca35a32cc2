----------------------------- MODULE PortalProofs -----------------------------
(***************************************************************************)
(* What is proved of the portal: of the view of the setup (BootstrapView), *)
(* the chat with the assistant (AssistantChat) and the pages that load and *)
(* change data (PortalPages), each for its own specification: an inductive *)
(* invariant and the property that the run of MCServices checks.           *)
(***************************************************************************)
EXTENDS BootstrapView, AssistantChat, PortalPages, CommonLemmas, FiniteSetTheorems

-----------------------------------------------------------------------------
(* Sequences *)

LEMMA RangeIs ==
    ASSUME NEW S, NEW s \in Seq(S)
    PROVE  \A e : e \in Range(s) <=> \E i \in 1 .. Len(s) : s[i] = e
BY DEF Range

LEMMA RangeAppend ==
    ASSUME NEW S, NEW s \in Seq(S), NEW e \in S
    PROVE  Range(Append(s, e)) = Range(s) \cup {e}
<1>1. /\ Append(s, e) \in Seq(S) /\ Len(Append(s, e)) = Len(s) + 1
      /\ \A i \in 1 .. Len(s) : Append(s, e)[i] = s[i]
      /\ Append(s, e)[Len(s) + 1] = e /\ Len(s) \in Nat
  BY AppendProperties
<1>2. DOMAIN s = 1 .. Len(s) /\ DOMAIN Append(s, e) = (1 .. Len(s)) \cup {Len(s) + 1}
  BY <1>1
<1> QED
  BY <1>1, <1>2 DEF Range

LEMMA RangeConcat ==
    ASSUME NEW S, NEW s \in Seq(S), NEW t \in Seq(S)
    PROVE  s \o t \in Seq(S) /\ Range(s \o t) = Range(s) \cup Range(t)
<1>1. /\ s \o t \in Seq(S) /\ Len(s) \in Nat /\ Len(t) \in Nat
      /\ Len(s \o t) = Len(s) + Len(t)
      /\ \A i \in 1 .. Len(s) + Len(t) : (s \o t)[i] = IF i <= Len(s) THEN s[i] ELSE t[i - Len(s)]
  BY ConcatProperties
<1>a. \A i \in 1 .. Len(s) : (s \o t)[i] = s[i]
  BY <1>1
<1>b. \A i \in 1 .. Len(t) : (s \o t)[Len(s) + i] = t[i]
  BY <1>1
<1>2. \A i \in 1 .. Len(s \o t) :
          i \in 1 .. Len(s) \/ \E k \in 1 .. Len(t) : i = Len(s) + k
  <2> SUFFICES ASSUME NEW i \in 1 .. Len(s \o t), i \notin 1 .. Len(s)
               PROVE  \E k \in 1 .. Len(t) : i = Len(s) + k
    OBVIOUS
  <2>1. i - Len(s) \in 1 .. Len(t) /\ i = Len(s) + (i - Len(s))
    BY <1>1
  <2> QED
    BY <2>1
<1>3. \A i \in 1 .. Len(s) : i \in 1 .. Len(s \o t)
  BY <1>1
<1>4. \A i \in 1 .. Len(t) : Len(s) + i \in 1 .. Len(s \o t)
  BY <1>1
<1>5. /\ \A e : e \in Range(s) <=> \E i \in 1 .. Len(s) : s[i] = e
      /\ \A e : e \in Range(t) <=> \E i \in 1 .. Len(t) : t[i] = e
      /\ \A e : e \in Range(s \o t) <=> \E i \in 1 .. Len(s \o t) : (s \o t)[i] = e
  BY <1>1, RangeIs
<1>6. Range(s \o t) \subseteq Range(s) \cup Range(t)
  BY <1>a, <1>b, <1>2, <1>5
<1>7. Range(s) \subseteq Range(s \o t) /\ Range(t) \subseteq Range(s \o t)
  BY <1>a, <1>b, <1>3, <1>4, <1>5
<1> QED
  BY <1>1, <1>6, <1>7

LEMMA Differences ==
    ASSUME NEW n \in Nat, NEW m \in Nat, m <= n
    PROVE  /\ n - m \in Nat /\ (n - m) + m = n /\ (n + 1) - (m + 1) = n - m
           /\ n - (m - 1) = (n - m) + 1
OBVIOUS

LEMMA Shifted ==
    ASSUME NEW g \in Nat, NEW m \in Nat, NEW n \in Nat, g + m = n
    PROVE  \A i \in 1 .. m : g + i \in 1 .. n
OBVIOUS

-----------------------------------------------------------------------------
(* BootstrapView *)

\* READY is a state only after an event said so; an error is shown only after one.
Truthful ==
    /\ READY \in {current.state, view.state, request.state} =>
           \E e \in emitted : e.state = READY
    /\ view.hasError => \E e \in emitted : e.step = "error"

\* Page, answer, stream, log and table have nothing but events there were.
Genuine ==
    /\ Range(view.log) \subseteq emitted /\ Range(request.log) \subseteq emitted
    /\ Range(stream.left) \subseteq emitted
    /\ Range(eventLog) \subseteq emitted /\ Range(table) \subseteq emitted

\* How many events the page has had from this connection, if it has missed none.
Got == Len(eventLog) - Len(stream.left)

\* As long as nothing went wrong with a connection, what is on its way is the end of the
\* log, and the page shows what came before.
InStep ==
    stream.at \in {"snapshot", "open"} /\ doubt = {} =>
        /\ Len(stream.left) <= Len(eventLog)
        /\ \A i \in 1 .. Len(stream.left) : stream.left[i] = eventLog[Got + i]
        /\ \A i \in 1 .. Got : /\ eventLog[i] \in Range(view.log)
                               /\ eventLog[i].step = "error" => view.hasError
        /\ Got > 0 => view.state = eventLog[Got].state

\* The stream is closed only when READY was shown.
ClosedAtReady ==
    stream.at = "closed" /\ "overwritten" \notin doubt => view.state = READY /\ view.log # <<>>

ViewInv == ViewTypeOK /\ Truthful /\ Genuine /\ InStep /\ ClosedAtReady

ViewRecord == [state : 0 .. READY, log : Seq(Events), hasError : BOOLEAN, config : BOOLEAN]
StreamRecord == [at : {"connecting", "snapshot", "open", "closed"}, left : Seq(Events)]
RequestRecord == [at : {"asked", "answered", "ended"}, state : 0 .. READY, log : Seq(Events),
                  config : BOOLEAN]
CurrentRecord == [state : 0 .. READY, runs : BOOLEAN, config : BOOLEAN]

LEMMA ViewTypes ==
    ViewTypeOK <=>
        /\ current \in CurrentRecord /\ view \in ViewRecord /\ request \in RequestRecord
        /\ stream \in StreamRecord /\ eventLog \in Seq(Events) /\ table \in Seq(Events)
        /\ restored \in 0 .. Len(eventLog) /\ emitted \subseteq Events /\ count \in 0 .. MaxEvents
        /\ again \in {"none", "asked", "with", "without", "ended"}
        /\ breaks \in 0 .. MaxBreaks /\ doubt \subseteq {"missed", "overwritten"}
BY DEF ViewTypeOK, CurrentRecord, ViewRecord, RequestRecord, StreamRecord

LEMMA ViewFacts ==
    ASSUME ViewTypeOK
    PROVE  /\ eventLog \in Seq(Events) /\ Len(eventLog) \in Nat
           /\ view.log \in Seq(Events) /\ Len(view.log) \in Nat /\ view.state \in 0 .. READY
           /\ stream.left \in Seq(Events) /\ Len(stream.left) \in Nat
           /\ stream.at \in {"connecting", "snapshot", "open", "closed"}
           /\ request.log \in Seq(Events)
           /\ current.state \in 0 .. READY
           /\ \A i \in 1 .. Len(eventLog) : eventLog[i] \in Events /\ eventLog[i] \in Range(eventLog)
<1>1. eventLog \in Seq(Events) /\ Len(eventLog) \in Nat
  BY DEF ViewTypeOK
<1>2. view.log \in Seq(Events) /\ stream.left \in Seq(Events) /\ request.log \in Seq(Events)
  BY DEF ViewTypeOK
<1>3. Len(view.log) \in Nat /\ Len(stream.left) \in Nat
  BY <1>2
<1>4. \A i \in 1 .. Len(eventLog) : eventLog[i] \in Events /\ eventLog[i] \in Range(eventLog)
  BY <1>1 DEF Range
<1> QED
  BY <1>1, <1>2, <1>3, <1>4 DEF ViewTypeOK

LEMMA ViewStart == ViewInit => ViewInv
<1> SUFFICES ASSUME ViewInit PROVE ViewInv
  OBVIOUS
<1>1. <<>> \in Seq(Events) /\ Len(<<>>) = 0
  OBVIOUS
<1>2. request = [at |-> "asked", state |-> 0, log |-> <<>>, config |-> FALSE]
  BY DEF ViewInit, Idle
<1>3. READY # 0 /\ 0 \in 0 .. READY /\ 0 \in 0 .. MaxBreaks /\ 0 <= MaxEvents
  BY ViewAssumption
<1>4. ViewTypeOK
  <2>1. current \in CurrentRecord /\ view \in ViewRecord
    BY <1>1, <1>3 DEF ViewInit, CurrentRecord, ViewRecord
  <2>2. request \in RequestRecord
    BY <1>1, <1>2, <1>3 DEF RequestRecord
  <2>3. stream \in StreamRecord
    BY <1>1 DEF ViewInit, StreamRecord
  <2> QED
    BY <1>1, <1>3, <2>1, <2>2, <2>3, ViewTypes DEF ViewInit
<1>5. Truthful
  BY <1>2, <1>3 DEF ViewInit, Truthful
<1>6. Genuine
  <2>1. Range(<<>>) = {}
    BY DEF Range
  <2> QED
    BY <1>2, <2>1 DEF ViewInit, Genuine
<1>7. InStep /\ ClosedAtReady
  BY DEF ViewInit, InStep, ClosedAtReady
<1> QED
  BY <1>4, <1>5, <1>6, <1>7 DEF ViewInv

\* A new event takes nothing from what was true of the log.
LEMMA EventAdds ==
    ASSUME ViewInv, NEW st \in 0 .. READY, NEW step \in Steps, emitEvent(st, step),
           UNCHANGED <<view, request>>
    PROVE  /\ eventLog' \in Seq(Events) /\ table' \in Seq(Events) /\ emitted' \subseteq Events
           /\ restored' \in 0 .. Len(eventLog') /\ count' \in 0 .. MaxEvents
           /\ stream' \in StreamRecord /\ doubt' \subseteq {"missed", "overwritten"}
           /\ emitted \subseteq emitted' /\ \E e \in emitted' : e.state = st
           /\ Genuine' /\ InStep' /\ ClosedAtReady'
<1>1. PICK e \in Events : e = [state |-> st, step |-> step]
  BY DEF Events
<1>2. /\ eventLog' = Append(eventLog, e) /\ emitted' = emitted \cup {e}
      /\ UNCHANGED <<table, restored>> /\ count < MaxEvents /\ count' = count + 1
      /\ stream' = IF stream.at = "open" THEN [stream EXCEPT !.left = Append(@, e)] ELSE stream
      /\ doubt' = IF stream.at = "snapshot" THEN doubt \cup {"missed"} ELSE doubt
  BY <1>1 DEF emitEvent
<1>3. ViewTypeOK
  BY DEF ViewInv
<1>4. /\ eventLog' \in Seq(Events) /\ Len(eventLog') = Len(eventLog) + 1
      /\ \A i \in 1 .. Len(eventLog) : eventLog'[i] = eventLog[i]
      /\ eventLog'[Len(eventLog) + 1] = e
  BY <1>2, <1>3, ViewFacts, AppendProperties
<1>5. Range(eventLog') = Range(eventLog) \cup {e} /\ e.state = st
  BY <1>1, <1>2, <1>3, ViewFacts, RangeAppend
<1>6. /\ Append(stream.left, e) \in Seq(Events)
      /\ Len(Append(stream.left, e)) = Len(stream.left) + 1
      /\ \A i \in 1 .. Len(stream.left) : Append(stream.left, e)[i] = stream.left[i]
      /\ Append(stream.left, e)[Len(stream.left) + 1] = e
      /\ Range(Append(stream.left, e)) = Range(stream.left) \cup {e}
  BY <1>3, ViewFacts, AppendProperties, RangeAppend
<1>7. /\ stream' \in StreamRecord /\ stream'.at = stream.at
      /\ stream.at = "open" => stream'.left = Append(stream.left, e)
      /\ stream.at # "open" => stream'.left = stream.left
  BY <1>2, <1>3, <1>6, ViewTypes DEF StreamRecord
<1>8. Genuine'
  BY <1>2, <1>5, <1>6, <1>7 DEF ViewInv, Genuine
<1>9. InStep'
  <2> SUFFICES ASSUME stream'.at \in {"snapshot", "open"}, doubt' = {}
               PROVE  /\ Len(stream'.left) <= Len(eventLog')
                      /\ \A i \in 1 .. Len(stream'.left) : stream'.left[i] = eventLog'[Got' + i]
                      /\ \A i \in 1 .. Got' : /\ eventLog'[i] \in Range(view.log)
                                              /\ eventLog'[i].step = "error" => view.hasError
                      /\ Got' > 0 => view.state = eventLog'[Got'].state
    BY DEF InStep
  <2>1. stream.at = "open" /\ doubt = {}
    BY <1>2, <1>7
  <2>2. /\ Len(stream.left) <= Len(eventLog)
        /\ \A i \in 1 .. Len(stream.left) : stream.left[i] = eventLog[Got + i]
        /\ \A i \in 1 .. Got : /\ eventLog[i] \in Range(view.log)
                               /\ eventLog[i].step = "error" => view.hasError
        /\ Got > 0 => view.state = eventLog[Got].state
    BY <2>1 DEF ViewInv, InStep
  <2>a. PICK n \in Nat, m \in Nat : n = Len(eventLog) /\ m = Len(stream.left) /\ m <= n
    BY <1>3, <2>2, ViewFacts
  <2>b. Len(eventLog') = n + 1 /\ Len(stream'.left) = m + 1
    BY <1>4, <1>6, <1>7, <2>1, <2>a
  <2>3. PICK g \in Nat : g = Got /\ g = Got' /\ g + m = n
    <3>1. Got = n - m /\ Got' = (n + 1) - (m + 1)
      BY <2>a, <2>b DEF Got
    <3>2. n - m \in Nat /\ (n - m) + m = n /\ (n + 1) - (m + 1) = n - m
      BY <2>a, Differences
    <3> HIDE DEF Got
    <3>3. Got' = n - m
      BY <3>1, <3>2
    <3> QED
      BY <3>1, <3>2, <3>3
  <2>4. \A i \in 1 .. m : g + i \in 1 .. n
    <3>1. g + m = n
      BY <2>3
    <3> QED
      BY <3>1, Shifted
  <2>5. \A i \in 1 .. Len(stream'.left) : stream'.left[i] = eventLog'[g + i]
    <3> SUFFICES ASSUME NEW i \in 1 .. Len(stream'.left) PROVE stream'.left[i] = eventLog'[g + i]
      OBVIOUS
    <3>1. i \in 1 .. m \/ i = m + 1
      BY <2>a, <2>b
    <3>2. stream'.left = Append(stream.left, e)
      BY <1>7, <2>1
    <3>3. CASE i \in 1 .. m
      <4>1. stream'.left[i] = stream.left[i] /\ stream.left[i] = eventLog[g + i]
        BY <1>6, <2>2, <2>3, <2>a, <3>2, <3>3
      <4>2. eventLog'[g + i] = eventLog[g + i]
        <5>1. g + i \in 1 .. n
          BY <2>4, <3>3
        <5> QED
          BY <1>4, <2>a, <5>1
      <4> QED
        BY <4>1, <4>2
    <3>4. CASE i = m + 1
      <4>1. g + (m + 1) = n + 1
        BY <2>a, <2>3
      <4> QED
        BY <1>4, <1>6, <2>a, <3>2, <3>4, <4>1
    <3> QED
      BY <3>1, <3>3, <3>4
  <2>6. \A i \in 1 .. g : i \in 1 .. Len(eventLog) /\ eventLog'[i] = eventLog[i]
    BY <1>4, <2>3, <2>a
  <2>7. g > 0 => g \in 1 .. g
    BY <2>3
  <2>8. Len(stream'.left) <= Len(eventLog')
    BY <2>a, <2>b
  <2> QED
    BY <2>2, <2>3, <2>5, <2>6, <2>7, <2>8
<1>10. ClosedAtReady'
  BY <1>2, <1>7 DEF ViewInv, ClosedAtReady
<1>11. doubt' \subseteq {"missed", "overwritten"}
  BY <1>2, <1>3 DEF ViewTypeOK
<1>12. restored' \in 0 .. Len(eventLog') /\ count' \in 0 .. MaxEvents /\ table' \in Seq(Events)
  BY <1>2, <1>3, <1>4, ViewFacts, ViewAssumption DEF ViewTypeOK
<1>13. emitted' \subseteq Events
  BY <1>2, <1>3 DEF ViewTypeOK
<1> QED
  BY <1>2, <1>4, <1>5, <1>7, <1>8, <1>9, <1>10, <1>11, <1>12, <1>13

\* The events since the start of the API are events there were.
LEMMA RestOfLog ==
    ASSUME ViewInv
    PROVE  LET own == SubSeq(eventLog, restored + 1, Len(eventLog))
           IN  /\ own \in Seq(Events) /\ Len(own) \in Nat
               /\ \A i \in 1 .. Len(own) : own[i] \in Events /\ own[i] \in emitted
<1> DEFINE own == SubSeq(eventLog, restored + 1, Len(eventLog))
<1>1. /\ eventLog \in Seq(Events) /\ Len(eventLog) \in Nat /\ restored \in 0 .. Len(eventLog)
      /\ Range(eventLog) \subseteq emitted
  BY ViewFacts DEF ViewInv, ViewTypeOK, Genuine
<1>2. \A i \in 1 .. Len(eventLog) : eventLog[i] \in Events /\ eventLog[i] \in emitted
  BY <1>1, RangeIs
<1>3. PICK a \in Nat \ {0}, n \in Nat : a = restored + 1 /\ n = Len(eventLog) /\ a <= n + 1
  <2>1. restored + 1 \in Nat \ {0} /\ restored + 1 <= Len(eventLog) + 1
    BY <1>1
  <2> QED
    BY <1>1, <2>1
<1>4. /\ own \in Seq(Events) /\ Len(own) \in Nat
      /\ \A i \in 1 .. Len(own) : a + i - 1 \in 1 .. n /\ own[i] = eventLog[a + i - 1]
  BY <1>1, <1>3
<1> QED
  BY <1>2, <1>3, <1>4

LEMMA ViewStep == ViewInv /\ [ViewNext]_viewVars => ViewInv'
<1> SUFFICES ASSUME ViewInv, [ViewNext]_viewVars
             PROVE  ViewInv'
  OBVIOUS
<1>0. ViewTypeOK /\ READY \in Nat \ {0, 1}
  BY ViewAssumption DEF ViewInv
<1>a. CASE startBootstrap
  <2>1. current' \in CurrentRecord /\ current'.state = current.state
    BY <1>0, <1>a, ViewTypes DEF startBootstrap, CurrentRecord
  <2>2. UNCHANGED <<eventLog, table, restored, emitted, count, view, request, again, stream,
                    breaks, doubt>>
    BY <1>a DEF startBootstrap
  <2>3. ViewTypeOK'
    BY <1>0, <2>1, <2>2 DEF ViewTypeOK, CurrentRecord
  <2> QED
    BY <2>1, <2>2, <2>3 DEF ViewInv, Truthful, Genuine, InStep, ClosedAtReady, Got
<1>b. CASE transition
  <2>1. PICK s \in 0 .. READY : s = current.state + 1
    BY <1>0, <1>b, ViewFacts DEF transition
  <2>2. "transition" \in Steps
    BY DEF Steps
  <2>3. /\ current' = [current EXCEPT !.state = s, !.runs = s < READY]
        /\ emitEvent(s, "transition") /\ UNCHANGED <<view, request, again, breaks>>
    BY <1>b, <2>1 DEF transition
  <2>4. current' \in CurrentRecord /\ current'.state = s
    <3> DEFINE b == s < READY
    <3>1. current' = [current EXCEPT !.state = s, !.runs = b]
      BY <2>3
    <3>2. b \in BOOLEAN
      OBVIOUS
    <3> HIDE DEF b
    <3> QED
      BY <1>0, <3>1, <3>2, ViewTypes DEF CurrentRecord
  <2>5. /\ eventLog' \in Seq(Events) /\ table' \in Seq(Events) /\ emitted' \subseteq Events
        /\ restored' \in 0 .. Len(eventLog') /\ count' \in 0 .. MaxEvents
        /\ stream' \in StreamRecord /\ doubt' \subseteq {"missed", "overwritten"}
        /\ emitted \subseteq emitted' /\ \E e \in emitted' : e.state = s
        /\ Genuine' /\ InStep' /\ ClosedAtReady'
    BY <2>2, <2>3, EventAdds
  <2>6. ViewTypeOK'
    BY <1>0, <2>3, <2>4, <2>5 DEF ViewTypeOK, CurrentRecord, StreamRecord
  <2>7. Truthful'
    BY <2>3, <2>4, <2>5 DEF ViewInv, Truthful
  <2> QED
    BY <2>5, <2>6, <2>7 DEF ViewInv
<1>c. CASE Report
  <2>1. PICK step \in Steps : emitEvent(current.state, step)
    BY <1>c DEF Report, Steps
  <2>2. UNCHANGED <<view, request, again, breaks>>
    BY <1>c DEF Report
  <2>3. current' \in CurrentRecord /\ current'.state = current.state
    BY <1>0, <1>c, ViewTypes DEF Report, CurrentRecord
  <2>4. /\ eventLog' \in Seq(Events) /\ table' \in Seq(Events) /\ emitted' \subseteq Events
        /\ restored' \in 0 .. Len(eventLog') /\ count' \in 0 .. MaxEvents
        /\ stream' \in StreamRecord /\ doubt' \subseteq {"missed", "overwritten"}
        /\ emitted \subseteq emitted'
        /\ Genuine' /\ InStep' /\ ClosedAtReady'
    BY <1>0, <2>1, <2>2, ViewFacts, EventAdds
  <2>5. ViewTypeOK'
    BY <1>0, <2>2, <2>3, <2>4 DEF ViewTypeOK, CurrentRecord, StreamRecord
  <2>6. Truthful'
    BY <2>2, <2>3, <2>4 DEF ViewInv, Truthful
  <2> QED
    BY <2>4, <2>5, <2>6 DEF ViewInv
<1>d. CASE verifyDNS
  <2>1. "dns" \in Steps /\ 1 \in 0 .. READY
    BY <1>0 DEF Steps
  <2>2. emitEvent(1, "dns") /\ UNCHANGED <<current, view, request, again, breaks>>
    BY <1>d DEF verifyDNS
  <2>3. /\ eventLog' \in Seq(Events) /\ table' \in Seq(Events) /\ emitted' \subseteq Events
        /\ restored' \in 0 .. Len(eventLog') /\ count' \in 0 .. MaxEvents
        /\ stream' \in StreamRecord /\ doubt' \subseteq {"missed", "overwritten"}
        /\ emitted \subseteq emitted'
        /\ Genuine' /\ InStep' /\ ClosedAtReady'
    BY <2>1, <2>2, EventAdds
  <2>4. ViewTypeOK'
    BY <1>0, <2>2, <2>3 DEF ViewTypeOK, StreamRecord
  <2>5. Truthful'
    BY <2>2, <2>3 DEF ViewInv, Truthful
  <2> QED
    BY <2>3, <2>4, <2>5 DEF ViewInv
<1>e. CASE restoreStateFromDb
  <2> DEFINE own == SubSeq(eventLog, restored + 1, Len(eventLog))
  <2>1. PICK n \in 0 .. Len(own) : \E f \in [1 .. n -> 1 .. Len(own)] :
            /\ breaks < MaxBreaks /\ breaks' = breaks + 1
            /\ table' = table \o [i \in 1 .. n |-> own[f[i]]]
            /\ eventLog' \in {table', <<>>} /\ restored' = Len(eventLog')
            /\ current' = [state |-> IF eventLog' = <<>> THEN 0 ELSE Last(eventLog').state,
                           runs |-> FALSE,
                           config |-> (IF eventLog' = <<>> THEN 0 ELSE Last(eventLog').state) = READY]
            /\ stream' = IF stream.at = "closed" THEN stream
                         ELSE [at |-> "connecting", left |-> <<>>]
            /\ request' = IF request.at = "asked" THEN Idle ELSE request
            /\ UNCHANGED <<emitted, count, view, again, doubt>>
    BY <1>e DEF restoreStateFromDb
  <2>2. PICK f \in [1 .. n -> 1 .. Len(own)] :
            /\ breaks < MaxBreaks /\ breaks' = breaks + 1
            /\ table' = table \o [i \in 1 .. n |-> own[f[i]]]
            /\ eventLog' \in {table', <<>>} /\ restored' = Len(eventLog')
            /\ current' = [state |-> IF eventLog' = <<>> THEN 0 ELSE Last(eventLog').state,
                           runs |-> FALSE,
                           config |-> (IF eventLog' = <<>> THEN 0 ELSE Last(eventLog').state) = READY]
            /\ stream' = IF stream.at = "closed" THEN stream
                         ELSE [at |-> "connecting", left |-> <<>>]
            /\ request' = IF request.at = "asked" THEN Idle ELSE request
            /\ UNCHANGED <<emitted, count, view, again, doubt>>
    BY <2>1
  <2>3. /\ own \in Seq(Events) /\ Len(own) \in Nat
        /\ \A i \in 1 .. Len(own) : own[i] \in Events /\ own[i] \in emitted
    BY <1>0, RestOfLog
  <2> HIDE DEF own
  <2>4. PICK new \in Seq(Events) : new = [i \in 1 .. n |-> own[f[i]]] /\ Range(new) \subseteq emitted
    <3>1. n \in Nat /\ \A i \in 1 .. n : own[f[i]] \in Events /\ own[f[i]] \in emitted
      BY <2>3
    <3>2. [i \in 1 .. n |-> own[f[i]]] \in Seq(Events)
      BY <3>1
    <3>3. Range([i \in 1 .. n |-> own[f[i]]]) \subseteq emitted
      BY <3>1 DEF Range
    <3> QED
      BY <3>2, <3>3
  <2>5. table' \in Seq(Events) /\ Range(table') \subseteq emitted
    <3>1. table \in Seq(Events) /\ Range(table) \subseteq emitted
      BY <1>0 DEF ViewTypeOK, ViewInv, Genuine
    <3>2. table' = table \o new
      BY <2>2, <2>4
    <3>3. table \o new \in Seq(Events) /\ Range(table \o new) = Range(table) \cup Range(new)
      BY <3>1, RangeConcat
    <3> QED
      BY <2>4, <3>1, <3>2, <3>3
  <2>6. /\ eventLog' \in Seq(Events) /\ Range(eventLog') \subseteq emitted
        /\ restored' \in 0 .. Len(eventLog')
    <3>1. <<>> \in Seq(Events) /\ Range(<<>>) = {}
      BY DEF Range
    <3>2. eventLog' \in Seq(Events) /\ Range(eventLog') \subseteq emitted
      BY <2>2, <2>5, <3>1
    <3>3. Len(eventLog') \in Nat
      BY <3>2
    <3> QED
      BY <2>2, <3>2, <3>3
  <2>7. PICK s \in 0 .. READY :
            /\ s = IF eventLog' = <<>> THEN 0 ELSE Last(eventLog').state
            /\ s = READY => \E e \in emitted : e.state = READY
    <3>1. CASE eventLog' = <<>>
      BY <1>0, <3>1
    <3>2. CASE eventLog' # <<>>
      <4>1. Len(eventLog') \in 1 .. Len(eventLog') /\ Last(eventLog') = eventLog'[Len(eventLog')]
        BY <2>6, <3>2, EmptySeq DEF Last
      <4>2. Last(eventLog') \in Events /\ Last(eventLog') \in Range(eventLog')
        BY <2>6, <4>1 DEF Range
      <4>3. Last(eventLog').state \in 0 .. READY
        BY <4>2 DEF Events
      <4> QED
        BY <2>6, <3>2, <4>2, <4>3
    <3> QED
      BY <3>1, <3>2
  <2>8. request' \in RequestRecord /\ (request'.state = 0 \/ request' = request)
        /\ Range(request'.log) \subseteq emitted
    <3>1. Idle \in RequestRecord /\ Idle.state = 0 /\ Range(Idle.log) = {}
      BY <1>0 DEF Idle, RequestRecord, Range
    <3> QED
      BY <1>0, <2>2, <3>1, ViewTypes DEF ViewInv, Genuine
  <2>9. /\ stream' \in StreamRecord /\ stream'.at \in {"connecting", "closed"}
        /\ stream'.at = "closed" => stream.at = "closed"
        /\ Range(stream'.left) \subseteq emitted
    <3>1. [at |-> "connecting", left |-> <<>>] \in StreamRecord /\ Range(<<>>) = {}
      BY DEF StreamRecord, Range
    <3> QED
      BY <1>0, <2>2, <3>1, ViewTypes, ViewFacts DEF ViewInv, Genuine
  <2>10. current' \in CurrentRecord /\ current'.state = s /\ breaks' \in 0 .. MaxBreaks
    <3>1. current' = [state |-> s, runs |-> FALSE, config |-> s = READY]
      BY <2>2, <2>7
    <3> QED
      BY <1>0, <2>2, <3>1, ViewAssumption DEF CurrentRecord, ViewTypeOK
  <2>11. ViewTypeOK'
    BY <1>0, <2>2, <2>5, <2>6, <2>8, <2>9, <2>10
    DEF ViewTypeOK, CurrentRecord, StreamRecord, RequestRecord
  <2>12. Truthful'
    BY <1>0, <2>2, <2>7, <2>8, <2>10 DEF ViewInv, Truthful
  <2>13. Genuine' /\ InStep' /\ ClosedAtReady'
    BY <2>2, <2>5, <2>6, <2>8, <2>9 DEF ViewInv, Genuine, InStep, ClosedAtReady
  <2> QED
    BY <2>11, <2>12, <2>13 DEF ViewInv
<1>f. CASE AnswerState
  <2>1. UNCHANGED <<current, eventLog, table, restored, emitted, count, view, again, stream,
                    breaks, doubt>>
    BY <1>f DEF AnswerState
  <2>2. request' = Idle \/ request' = [at |-> "answered", state |-> current.state, log |-> eventLog,
                                       config |-> current.config]
    BY <1>f DEF AnswerState
  <2>3. /\ request' \in RequestRecord /\ request'.state \in {0, current.state}
        /\ Range(request'.log) \subseteq emitted
    <3>1. Idle \in RequestRecord /\ Idle.state = 0 /\ Range(Idle.log) = {}
      BY <1>0 DEF Idle, RequestRecord, Range
    <3>2. current.config \in BOOLEAN
      BY <1>0 DEF ViewTypeOK
    <3> QED
      BY <1>0, <2>2, <3>1, <3>2, ViewFacts DEF RequestRecord, ViewInv, Genuine
  <2>4. ViewTypeOK'
    BY <1>0, <2>1, <2>3 DEF ViewTypeOK, RequestRecord
  <2>5. Truthful'
    BY <1>0, <2>1, <2>3 DEF ViewInv, Truthful
  <2> QED
    BY <2>1, <2>3, <2>4, <2>5 DEF ViewInv, Genuine, InStep, ClosedAtReady, Got
<1>g. CASE streamEvents
  <2>1. /\ stream' = [at |-> "snapshot", left |-> eventLog] /\ doubt' = {}
        /\ UNCHANGED <<current, eventLog, table, restored, emitted, count, view, request,
                       again, breaks>>
    BY <1>g DEF streamEvents
  <2>2. stream' \in StreamRecord /\ stream'.at = "snapshot" /\ stream'.left = eventLog
    BY <1>0, <2>1, ViewFacts DEF StreamRecord
  <2>3. ViewTypeOK'
    BY <1>0, <2>1, <2>2 DEF ViewTypeOK, StreamRecord
  <2>4. Got' = 0
    BY <1>0, <2>1, <2>2, ViewFacts DEF Got
  <2>5. InStep'
    <3>1. \A i \in 1 .. Len(eventLog) : 0 + i = i
      OBVIOUS
    <3> QED
      BY <1>0, <2>1, <2>2, <2>4, <3>1, ViewFacts DEF InStep
  <2> QED
    BY <2>1, <2>2, <2>3, <2>5 DEF ViewInv, Truthful, Genuine, ClosedAtReady
<1>h. CASE Subscribe
  <2>1. /\ stream' \in StreamRecord /\ stream'.left = stream.left /\ stream'.at = "open"
        /\ stream.at = "snapshot"
        /\ UNCHANGED <<current, eventLog, table, restored, emitted, count, view, request,
                       again, breaks, doubt>>
    BY <1>0, <1>h, ViewTypes DEF Subscribe, StreamRecord
  <2>2. ViewTypeOK'
    BY <1>0, <2>1 DEF ViewTypeOK, StreamRecord
  <2> QED
    BY <2>1, <2>2 DEF ViewInv, Truthful, Genuine, InStep, ClosedAtReady, Got
<1>i. CASE ArriveState
  <2>1. /\ request' = Idle
        /\ doubt' = IF view.log # <<>> THEN doubt \cup {"overwritten"} ELSE doubt
        /\ UNCHANGED <<current, eventLog, table, restored, emitted, count, again, stream, breaks>>
    BY <1>i DEF ArriveState
  <2>2. /\ view' \in ViewRecord /\ view'.state = request.state /\ view'.log = request.log
        /\ view'.hasError = view.hasError
    BY <1>0, <1>i, ViewTypes DEF ArriveState, ViewRecord, RequestRecord
  <2>3. Idle \in RequestRecord /\ Idle.state = 0 /\ Range(Idle.log) = {}
    BY <1>0 DEF Idle, RequestRecord, Range
  <2>4. doubt' \subseteq {"missed", "overwritten"}
    BY <1>0, <2>1 DEF ViewTypeOK
  <2>5. ViewTypeOK'
    BY <1>0, <2>1, <2>2, <2>3, <2>4 DEF ViewTypeOK, ViewRecord, RequestRecord
  <2>6. Truthful'
    BY <1>0, <2>1, <2>2, <2>3 DEF ViewInv, Truthful
  <2>7. Genuine'
    BY <2>1, <2>2, <2>3 DEF ViewInv, Genuine
  <2>8. InStep'
    <3> SUFFICES ASSUME stream.at \in {"snapshot", "open"}, doubt' = {}
                 PROVE  InStep'
      BY <2>1 DEF InStep
    <3>1. view.log = <<>> /\ doubt = {}
      BY <2>1
    <3>2. Range(view.log) = {}
      BY <3>1 DEF Range
    <3>3. /\ Len(stream.left) <= Len(eventLog)
          /\ \A i \in 1 .. Len(stream.left) : stream.left[i] = eventLog[Got + i]
          /\ \A i \in 1 .. Got : eventLog[i] \in Range(view.log)
      BY <3>1 DEF ViewInv, InStep
    <3>4. Got \in Nat
      BY <1>0, <3>3, ViewFacts DEF Got
    <3>5. Got = 0
      BY <3>2, <3>3, <3>4
    <3>6. Got' = Got
      BY <2>1 DEF Got
    <3> QED
      BY <2>1, <3>3, <3>5, <3>6 DEF InStep
  <2>9. ClosedAtReady'
    BY <2>1 DEF ViewInv, ClosedAtReady
  <2> QED
    BY <2>5, <2>6, <2>7, <2>8, <2>9 DEF ViewInv
<1>j. CASE Message
  <2>1. stream.at = "open" /\ stream.left # <<>>
    BY <1>j DEF Message
  <2>2. PICK e \in Events : e = Head(stream.left) /\ e = stream.left[1] /\ e \in emitted
    <3>1. /\ Head(stream.left) \in Events /\ Head(stream.left) = stream.left[1]
          /\ Len(stream.left) \in Nat \ {0}
      BY <1>0, <2>1, ViewFacts, TailFacts
    <3>2. stream.left[1] \in Range(stream.left)
      BY <1>0, <3>1, ViewFacts, RangeIs
    <3> QED
      BY <3>1, <3>2 DEF ViewInv, Genuine
  <2>3. /\ Tail(stream.left) \in Seq(Events) /\ Len(Tail(stream.left)) = Len(stream.left) - 1
        /\ \A i \in 1 .. Len(Tail(stream.left)) : i + 1 \in 1 .. Len(stream.left)
                                                  /\ Tail(stream.left)[i] = stream.left[i + 1]
        /\ Len(stream.left) \in Nat \ {0}
    BY <1>0, <2>1, ViewFacts, TailFacts, HeadTailProperties
  <2>4. Range(Tail(stream.left)) \subseteq Range(stream.left)
    <3> SUFFICES ASSUME NEW x \in Range(Tail(stream.left)) PROVE x \in Range(stream.left)
      OBVIOUS
    <3>1. PICK i \in 1 .. Len(Tail(stream.left)) : Tail(stream.left)[i] = x
      BY <2>3, RangeIs
    <3>2. i + 1 \in 1 .. Len(stream.left) /\ stream.left[i + 1] = x
      BY <2>3, <3>1
    <3> QED
      BY <1>0, <3>2, ViewFacts, RangeIs
  <2>5. /\ stream' = IF e.state = READY THEN [at |-> "closed", left |-> <<>>]
                                        ELSE [stream EXCEPT !.left = Tail(@)]
        /\ UNCHANGED <<current, eventLog, table, restored, emitted, count, request, again,
                       breaks, doubt>>
    BY <1>j, <2>2 DEF Message
  <2>6. PICK log \in Seq(Events) :
            /\ log = IF e \in Range(view.log) THEN view.log ELSE Append(view.log, e)
            /\ Range(log) = Range(view.log) \cup {e}
    <3>1. CASE e \in Range(view.log)
      BY <1>0, <3>1, ViewFacts
    <3>2. CASE e \notin Range(view.log)
      <4>1. Append(view.log, e) \in Seq(Events)
            /\ Range(Append(view.log, e)) = Range(view.log) \cup {e}
        BY <1>0, ViewFacts, AppendProperties, RangeAppend
      <4> QED
        BY <3>2, <4>1
    <3> QED
      BY <3>1, <3>2
  <2>7. e.state \in 0 .. READY
    BY DEF Events
  <2>8. /\ view' \in ViewRecord /\ view'.state = e.state /\ view'.log = log
        /\ view'.hasError <=> view.hasError \/ e.step = "error"
    <3>1. view' = [view EXCEPT !.state = e.state, !.hasError = @ \/ e.step = "error", !.log = log]
      BY <1>j, <2>2, <2>6 DEF Message
    <3>2. view \in ViewRecord
      BY <1>0, ViewTypes
    <3> QED
      BY <2>7, <3>1, <3>2 DEF ViewRecord
  <2>9. /\ stream' \in StreamRecord
        /\ e.state = READY => stream'.at = "closed" /\ stream'.left = <<>>
        /\ e.state # READY => stream'.at = "open" /\ stream'.left = Tail(stream.left)
    <3>1. [at |-> "closed", left |-> <<>>] \in StreamRecord
      BY DEF StreamRecord
    <3> QED
      BY <1>0, <2>1, <2>3, <2>5, <3>1, ViewTypes DEF StreamRecord
  <2>10. ViewTypeOK'
    BY <1>0, <2>5, <2>8, <2>9 DEF ViewTypeOK, ViewRecord, StreamRecord
  <2>11. Truthful'
    BY <2>2, <2>5, <2>8 DEF ViewInv, Truthful
  <2>12. Genuine'
    <3>1. Range(<<>>) = {}
      BY DEF Range
    <3> QED
      BY <2>2, <2>4, <2>5, <2>6, <2>8, <2>9, <3>1 DEF ViewInv, Genuine
  <2>13. InStep'
    <3> SUFFICES ASSUME stream'.at = "open", doubt = {}
                 PROVE  InStep'
      BY <2>5, <2>9 DEF InStep
    <3>1. stream'.left = Tail(stream.left)
      BY <2>9
    <3>2. /\ Len(stream.left) <= Len(eventLog)
          /\ \A i \in 1 .. Len(stream.left) : stream.left[i] = eventLog[Got + i]
          /\ \A i \in 1 .. Got : /\ eventLog[i] \in Range(view.log)
                                 /\ eventLog[i].step = "error" => view.hasError
      BY <2>1 DEF ViewInv, InStep
    <3>a. PICK n \in Nat, m \in Nat \ {0} : n = Len(eventLog) /\ m = Len(stream.left) /\ m <= n
      BY <1>0, <2>3, <3>2, ViewFacts
    <3>b. eventLog' = eventLog /\ Len(stream'.left) = m - 1
      BY <2>3, <2>5, <3>1, <3>a
    <3>3. PICK g \in Nat : g = Got /\ Got' = g + 1 /\ g + Len(stream.left) = Len(eventLog)
      <4>1. Got = n - m /\ Got' = n - (m - 1)
        BY <3>a, <3>b DEF Got
      <4>2. n - m \in Nat /\ (n - m) + m = n /\ n - (m - 1) = (n - m) + 1
        BY <3>a, Differences
      <4>3. Got' = (n - m) + 1
        BY <4>1, <4>2
      <4> QED
        BY <3>a, <4>1, <4>2, <4>3
    <3>4. eventLog[g + 1] = e
      BY <2>2, <2>3, <3>2, <3>3
    <3>5. \A i \in 1 .. Len(Tail(stream.left)) : Tail(stream.left)[i] = eventLog[(g + 1) + i]
      <4> SUFFICES ASSUME NEW i \in 1 .. Len(Tail(stream.left))
                   PROVE  Tail(stream.left)[i] = eventLog[(g + 1) + i]
        OBVIOUS
      <4>1. i + 1 \in 1 .. Len(stream.left) /\ Tail(stream.left)[i] = stream.left[i + 1]
        BY <2>3
      <4>2. g + (i + 1) = (g + 1) + i
        BY <2>3
      <4> QED
        BY <3>2, <3>3, <4>1, <4>2
    <3>6. \A i \in 1 .. (g + 1) : /\ eventLog[i] \in Range(log)
                                  /\ eventLog[i].step = "error" => view'.hasError
      <4> SUFFICES ASSUME NEW i \in 1 .. (g + 1)
                   PROVE  /\ eventLog[i] \in Range(log)
                          /\ eventLog[i].step = "error" => view'.hasError
        OBVIOUS
      <4>1. i \in 1 .. g \/ i = g + 1
        BY <3>3
      <4> QED
        BY <2>6, <2>8, <3>2, <3>3, <3>4, <4>1
    <3>7. Len(Tail(stream.left)) <= Len(eventLog)
      BY <1>0, <2>3, <3>2, ViewFacts
    <3> QED
      BY <2>5, <2>8, <3>1, <3>3, <3>4, <3>5, <3>6, <3>7 DEF InStep
  <2>14. ClosedAtReady'
    <3>1. log # <<>>
      BY <2>6 DEF Range
    <3> QED
      BY <2>8, <2>9, <3>1 DEF ClosedAtReady
  <2> QED
    BY <2>10, <2>11, <2>12, <2>13, <2>14 DEF ViewInv
<1>k. CASE Break
  <2>1. /\ breaks < MaxBreaks /\ breaks' = breaks + 1
        /\ stream' = [at |-> "connecting", left |-> <<>>]
        /\ UNCHANGED <<current, eventLog, table, restored, emitted, count, view, request, again, doubt>>
    BY <1>k DEF Break
  <2>2. stream' \in StreamRecord /\ stream'.at = "connecting" /\ Range(stream'.left) = {}
    BY <2>1 DEF StreamRecord, Range
  <2>3. ViewTypeOK'
    BY <1>0, <2>1, <2>2, ViewAssumption DEF ViewTypeOK, StreamRecord
  <2> QED
    BY <2>1, <2>2, <2>3 DEF ViewInv, Truthful, Genuine, InStep, ClosedAtReady
<1>l. CASE AskConfig \/ AnswerConfig
  <2>1. /\ UNCHANGED <<current, eventLog, table, restored, emitted, count, view, request,
                       stream, breaks, doubt>>
        /\ again' \in {"none", "asked", "with", "without", "ended"}
    BY <1>l DEF AskConfig, AnswerConfig
  <2>2. ViewTypeOK'
    BY <1>0, <2>1 DEF ViewTypeOK
  <2> QED
    BY <2>1, <2>2 DEF ViewInv, Truthful, Genuine, InStep, ClosedAtReady, Got
<1>m. CASE ArriveConfig
  <2>1. /\ view' \in ViewRecord /\ view'.state = view.state /\ view'.log = view.log
        /\ view'.hasError = view.hasError
        /\ again' = "ended" /\ UNCHANGED <<current, eventLog, table, restored, emitted, count,
                                           request, stream, breaks, doubt>>
    BY <1>0, <1>m, ViewTypes DEF ArriveConfig, ViewRecord
  <2>2. ViewTypeOK'
    BY <1>0, <2>1 DEF ViewTypeOK, ViewRecord
  <2> QED
    BY <2>1, <2>2 DEF ViewInv, Truthful, Genuine, InStep, ClosedAtReady, Got
<1>n. CASE UNCHANGED viewVars
  <2>1. ViewTypeOK'
    BY <1>0, <1>n DEF viewVars, ViewTypeOK
  <2> QED
    BY <1>n, <2>1 DEF viewVars, ViewInv, Truthful, Genuine, InStep, ClosedAtReady, Got
<1> QED
  BY <1>a, <1>b, <1>c, <1>d, <1>e, <1>f, <1>g, <1>h, <1>i, <1>j, <1>k, <1>l, <1>m, <1>n DEF ViewNext

\* The invariant holds of the setup page, for any log the server may write.
THEOREM ViewInvariance == ViewSpec => []ViewInv
BY ViewStart, ViewStep, PTL DEF ViewSpec

\* Any number of events and breaks, and an answer to the request at any time.
THEOREM ViewCatchesUp == ViewSpec => []ViewFollows
<1>1. ViewInv => ViewFollows
  <2> SUFFICES ASSUME ViewInv PROVE ViewFollows
    OBVIOUS
  <2>1. ViewTypeOK
    BY DEF ViewInv
  <2>2. ASSUME stream = [at |-> "open", left |-> <<>>], doubt = {}, eventLog # <<>>
        PROVE  /\ view.state = Last(eventLog).state
               /\ Range(eventLog) \subseteq Range(view.log)
               /\ (\E e \in Range(eventLog) : e.step = "error") => view.hasError
    <3>1. stream.at = "open" /\ stream.left = <<>> /\ Len(stream.left) = 0
      BY <2>2
    <3>2. Got = Len(eventLog) /\ Len(eventLog) \in Nat \ {0}
      BY <2>1, <2>2, <3>1, ViewFacts, EmptySeq DEF Got
    <3>3. /\ \A i \in 1 .. Len(eventLog) : /\ eventLog[i] \in Range(view.log)
                                           /\ eventLog[i].step = "error" => view.hasError
          /\ view.state = eventLog[Len(eventLog)].state
      BY <2>2, <3>1, <3>2 DEF ViewInv, InStep
    <3>4. Last(eventLog) = eventLog[Len(eventLog)]
      BY DEF Last
    <3>5. \A e : e \in Range(eventLog) <=> \E i \in 1 .. Len(eventLog) : eventLog[i] = e
      BY <2>1, ViewFacts, RangeIs
    <3>6. Range(eventLog) \subseteq Range(view.log)
      BY <3>3, <3>5
    <3>7. (\E e \in Range(eventLog) : e.step = "error") => view.hasError
      BY <3>3, <3>5
    <3> QED
      BY <3>3, <3>4, <3>6, <3>7
  <2> QED
    BY <2>2 DEF ViewFollows, ViewInv, ClosedAtReady, Truthful, Genuine
<1> QED
  BY <1>1, ViewInvariance, PTL

-----------------------------------------------------------------------------
(* AssistantChat *)

\* What an assistant's message may say, a being the answer it belongs to: while tokens
\* come it has all of them, later it may have been replaced, or loaded from a storage
\* that had missed some.
Tells(m, a, lost) ==
    m.role = "assistant" =>
        /\ a.at # "asked"
        /\ a.at = "streaming" => m.content = Tokens(m.q, a.tokens)
        /\ m.content # Sorry => \E n \in 0 .. a.tokens : m.content = Tokens(m.q, n)
                                                         /\ (~lost => n = a.tokens)

\* What one in the storage may say.
Told(m, a) ==
    m.role = "assistant" /\ m.content # Sorry => \E n \in 0 .. a.tokens : m.content = Tokens(m.q, n)

PageTells == \A m \in Range(messages) : Tells(m, answers[m.q], unsaved)
StorageTold == \A m \in Range(storage) : Told(m, answers[m.q])

\* Until a save fails the storage has what a page keeps.
Saved == ~unsaved => storage = Kept(messages)

NothingYet == \A q \in DOMAIN answers : answers[q].at = "asked" => answers[q].tokens = 0

Is(m, role, q) == m.role = role /\ m.q = q

\* Among these messages a question is found once, its answer below it if it has begun.
OneAnswer(q, list, begun) ==
    \E u \in 1 .. Len(list) :
        /\ \A n \in 1 .. Len(list) : Is(list[n], "user", q) <=> n = u
        /\ begun => \E a \in 1 .. Len(list) :
               u < a /\ \A n \in 1 .. Len(list) : Is(list[n], "assistant", q) <=> n = a
        /\ ~begun => \A n \in 1 .. Len(list) : ~Is(list[n], "assistant", q)

OneEach ==
    forgets = 0 => \A q \in DOMAIN answers : OneAnswer(q, messages, answers[q].at # "asked")

ChatInv == ChatTypeOK /\ PageTells /\ StorageTold /\ Saved /\ NothingYet /\ OneEach

AnswerStates == [at : {"asked", "streaming", "ended"}, tokens : 0 .. MaxTokens]

LEMMA ChatFacts ==
    ASSUME ChatTypeOK
    PROVE  /\ answers \in Seq(AnswerStates)
           /\ Len(answers) \in Nat /\ DOMAIN answers = 1 .. Len(answers)
           /\ \A q \in DOMAIN answers : answers[q] \in AnswerStates /\ q \in 1 .. MaxQuestions
           /\ messages \in Seq(Messages) /\ Len(messages) \in Nat
           /\ storage \in Seq(Messages) /\ Len(storage) \in Nat /\ Len(storage) <= MAX_STORED
           /\ \A m \in Range(messages) : m \in Messages /\ m.q \in DOMAIN answers
           /\ \A m \in Range(storage) : m \in Messages /\ m.q \in DOMAIN answers
<1>1. answers \in Seq(AnswerStates) /\ messages \in Seq(Messages) /\ storage \in Seq(Messages)
  BY DEF ChatTypeOK, AnswerStates
<1>2. /\ Len(answers) \in Nat /\ DOMAIN answers = 1 .. Len(answers)
      /\ Len(messages) \in Nat /\ Len(storage) \in Nat
      /\ \A q \in DOMAIN answers : answers[q] \in AnswerStates
  BY <1>1
<1>3. \A q \in DOMAIN answers : q \in 1 .. MaxQuestions
  BY <1>2, ChatAssumption DEF ChatTypeOK
<1>4. \A m \in Range(messages) : m \in Messages
  BY <1>1, RangeIs
<1>5. \A m \in Range(storage) : m \in Messages
  BY <1>1, RangeIs
<1> QED
  BY <1>1, <1>2, <1>3, <1>4, <1>5 DEF ChatTypeOK

LEMMA KeptFacts ==
    ASSUME NEW list \in Seq(Messages)
    PROVE  /\ Kept(list) \in Seq(Messages) /\ Len(Kept(list)) <= MAX_STORED
           /\ Range(Kept(list)) \subseteq Range(list)
           /\ Len(list) <= MAX_STORED => Kept(list) = list
<1>0. MAX_STORED \in Nat /\ Len(list) \in Nat
  BY ChatAssumption
<1>1. CASE Len(list) <= MAX_STORED
  BY <1>1 DEF Kept
<1>2. CASE ~(Len(list) <= MAX_STORED)
  <2>a. PICK n \in Nat : n = Len(list)
    BY <1>0
  <2>b. PICK k \in Nat : k = MAX_STORED
    BY <1>0
  <2>1. n = Len(list) /\ k = MAX_STORED /\ k < n
    BY <1>2, <2>a, <2>b
  <2>2. PICK m \in Nat : m = n - k + 1 /\ n - m + 1 = k /\ m >= 1
    <3>1. n - k + 1 \in Nat /\ n - (n - k + 1) + 1 = k /\ n - k + 1 >= 1
      BY <2>1
    <3> QED
      BY <3>1
  <2>3. \A i \in m .. n : i \in 1 .. n
    BY <2>1, <2>2
  <2>4. \A i \in m .. n : list[i] \in Messages
    BY <2>1, <2>3
  <2>5. m \in Int /\ n \in Int
    BY <2>1, <2>2
  <2>6. /\ SubSeq(list, m, n) \in Seq(Messages)
        /\ Len(SubSeq(list, m, n)) = IF m <= n THEN n - m + 1 ELSE 0
        /\ \A i \in 1 .. n - m + 1 : SubSeq(list, m, n)[i] = list[m + i - 1]
    BY <2>4, <2>5, SubSeqProperties
  <2>7. Kept(list) = SubSeq(list, m, n)
    BY <1>2, <2>1, <2>2 DEF Kept
  <2>8. Len(SubSeq(list, m, n)) <= k /\ Len(SubSeq(list, m, n)) \in Nat
    BY <2>1, <2>2, <2>6
  <2>9. ASSUME NEW i \in 1 .. Len(SubSeq(list, m, n)) PROVE SubSeq(list, m, n)[i] \in Range(list)
    <3>1. m <= n /\ i \in 1 .. (n - m + 1)
      BY <2>2, <2>6, <2>8, <2>9
    <3>2. m + i - 1 \in 1 .. n
      BY <2>1, <2>2, <3>1
    <3> QED
      BY <2>1, <2>6, <3>1, <3>2, RangeIs
  <2>10. Range(SubSeq(list, m, n)) \subseteq Range(list)
    BY <2>6, <2>9, RangeIs
  <2> QED
    BY <1>2, <2>1, <2>6, <2>7, <2>8, <2>10
<1> QED
  BY <1>1, <1>2

LEMMA ReplyTyped ==
    ASSUME NEW q \in 1 .. MaxQuestions, NEW content \in Seq(Nat \X Nat)
    PROVE  /\ Reply(q, content) \in Messages /\ Reply(q, content).role = "assistant"
           /\ Reply(q, content).q = q /\ Reply(q, content).content = content
BY DEF Reply, Messages

LEMMA TokensGrow ==
    ASSUME NEW q \in Nat, NEW n \in Nat
    PROVE  /\ Tokens(q, 0) = <<>> /\ Tokens(q, n) \in Seq(Nat \X Nat)
           /\ Append(Tokens(q, n), <<q, n + 1>>) = Tokens(q, n + 1)
<1>1. Tokens(q, 0) = <<>>
  <2>1. 1 .. 0 = {}
    OBVIOUS
  <2> QED
    BY <2>1 DEF Tokens
<1>2. Tokens(q, n) \in Seq(Nat \X Nat) /\ Len(Tokens(q, n)) = n
  BY DEF Tokens
<1>3. \A k \in 1 .. n : Tokens(q, n)[k] = <<q, k>>
  BY DEF Tokens
<1>4. Tokens(q, n + 1) \in Seq(Nat \X Nat) /\ Len(Tokens(q, n + 1)) = n + 1
      /\ \A k \in 1 .. (n + 1) : Tokens(q, n + 1)[k] = <<q, k>>
  BY DEF Tokens
<1>5. <<q, n + 1>> \in Nat \X Nat
  OBVIOUS
<1>6. /\ Append(Tokens(q, n), <<q, n + 1>>) \in Seq(Nat \X Nat)
      /\ Len(Append(Tokens(q, n), <<q, n + 1>>)) = n + 1
      /\ \A k \in 1 .. n : Append(Tokens(q, n), <<q, n + 1>>)[k] = Tokens(q, n)[k]
      /\ Append(Tokens(q, n), <<q, n + 1>>)[n + 1] = <<q, n + 1>>
  BY <1>2, <1>5, AppendProperties
<1>7. \A k \in 1 .. (n + 1) : Append(Tokens(q, n), <<q, n + 1>>)[k] = Tokens(q, n + 1)[k]
  <2>1. \A k \in 1 .. (n + 1) : k \in 1 .. n \/ k = n + 1
    OBVIOUS
  <2> QED
    BY <1>3, <1>4, <1>6, <2>1
<1> QED
  BY <1>1, <1>2, <1>4, <1>6, <1>7, SeqEqual

\* What the page shows becomes the list, and what is stored follows or has failed.
LEMMA Saving ==
    ASSUME ChatTypeOK, Saved, NEW list \in Seq(Messages), ShowMessages(list),
           list = <<>> => messages = <<>>
    PROVE  /\ messages' = list /\ (unsaved => unsaved') /\ unsaved' \in BOOLEAN
           /\ storage' \in Seq(Messages) /\ Len(storage') <= MAX_STORED
           /\ Range(storage') \subseteq Range(storage) \cup Range(list)
           /\ Saved'
<1>1. messages' = list
  BY DEF ShowMessages
<1>2. CASE list = messages
  <2>1. UNCHANGED <<storage, unsaved>>
    BY <1>2 DEF ShowMessages
  <2> QED
    BY <1>1, <1>2, <2>1, ChatFacts DEF Saved, Kept, ChatTypeOK
<1>3. CASE list # messages
  <2>1. \/ storage' = Kept(list) /\ UNCHANGED unsaved
        \/ UNCHANGED storage /\ unsaved' = TRUE
    BY <1>3 DEF ShowMessages
  <2>2. CASE storage' = Kept(list) /\ UNCHANGED unsaved
    <3>1. storage' = Kept(messages')
      BY <1>1, <2>2
    <3>2. Saved'
      BY <1>1, <2>2 DEF Saved, Kept
    <3> QED
      BY <1>1, <2>2, <3>2, KeptFacts DEF ChatTypeOK
  <2>3. CASE UNCHANGED storage /\ unsaved' = TRUE
    BY <1>1, <2>3, ChatFacts DEF Saved
  <2> QED
    BY <2>1, <2>2, <2>3
<1> QED
  BY <1>2, <1>3

\* How an answer may go on.
GoesOn(a, b) == b.tokens >= a.tokens /\ (a.at = "asked" \/ b.at # "asked")

LEMMA ToldOn ==
    ASSUME NEW a \in AnswerStates, NEW b \in AnswerStates, b.tokens >= a.tokens, NEW m, Told(m, a)
    PROVE  Told(m, b)
<1>1. a.tokens \in Nat /\ b.tokens \in Nat
  BY DEF AnswerStates
<1>2. 0 .. a.tokens \subseteq 0 .. b.tokens
  BY <1>1
<1> QED
  BY <1>2 DEF Told

LEMMA TellsTold ==
    ASSUME NEW a \in AnswerStates, NEW m, NEW lost, Tells(m, a, lost)
    PROVE  Told(m, a)
BY DEF Tells, Told

\* What a change of answers and messages has to keep.
LEMMA ChatMoves ==
    ASSUME ChatTypeOK, Saved, StorageTold, NEW list \in Seq(Messages), ShowMessages(list),
           list = <<>> => messages = <<>>,
           answers' \in Seq(AnswerStates), Len(answers') <= MaxQuestions,
           \A q \in DOMAIN answers : q \in DOMAIN answers' /\ answers'[q].tokens >= answers[q].tokens,
           thinking' \in BOOLEAN, UNCHANGED forgets,
           \A m \in Range(list) : m.q \in DOMAIN answers' /\ Tells(m, answers'[m.q], unsaved)
    PROVE  ChatTypeOK' /\ Saved' /\ StorageTold' /\ PageTells' /\ messages' = list
<1>1. /\ messages' = list /\ (unsaved => unsaved') /\ unsaved' \in BOOLEAN
      /\ storage' \in Seq(Messages) /\ Len(storage') <= MAX_STORED
      /\ Range(storage') \subseteq Range(storage) \cup Range(list)
      /\ Saved'
  BY Saving
<1>2. \A q \in DOMAIN answers : answers[q] \in AnswerStates
  BY ChatFacts
<1>3. \A q \in DOMAIN answers' : answers'[q] \in AnswerStates
  OBVIOUS
<1>4. \A m \in Range(storage) : m.q \in DOMAIN answers /\ Told(m, answers[m.q])
  BY ChatFacts DEF StorageTold
<1>5. \A m \in Range(storage) : m.q \in DOMAIN answers' /\ Told(m, answers'[m.q])
  BY <1>2, <1>3, <1>4, ToldOn
<1>6. \A m \in Range(list) : Told(m, answers'[m.q])
  BY <1>3, TellsTold
<1>7. StorageTold'
  BY <1>1, <1>5, <1>6 DEF StorageTold
<1>8. PageTells'
  BY <1>1 DEF PageTells, Tells
<1>9. ChatTypeOK'
  BY <1>1, <1>5 DEF ChatTypeOK, AnswerStates
<1> QED
  BY <1>1, <1>7, <1>8, <1>9

LEMMA SameSpeakers ==
    ASSUME NEW q, NEW begun \in BOOLEAN, NEW list \in Seq(Messages), NEW other \in Seq(Messages),
           Len(other) = Len(list),
           \A n \in 1 .. Len(list) : other[n].role = list[n].role /\ other[n].q = list[n].q,
           OneAnswer(q, list, begun)
    PROVE  OneAnswer(q, other, begun)
<1>1. \A n \in 1 .. Len(list) : \A role : Is(other[n], role, q) <=> Is(list[n], role, q)
  BY DEF Is
<1>2. PICK u \in 1 .. Len(list) :
        /\ \A n \in 1 .. Len(list) : Is(list[n], "user", q) <=> n = u
        /\ begun => \E a \in 1 .. Len(list) :
               u < a /\ \A n \in 1 .. Len(list) : Is(list[n], "assistant", q) <=> n = a
        /\ ~begun => \A n \in 1 .. Len(list) : ~Is(list[n], "assistant", q)
  BY DEF OneAnswer
<1>3. \A n \in 1 .. Len(other) : Is(other[n], "user", q) <=> n = u
  BY <1>1, <1>2
<1>4. begun => \E a \in 1 .. Len(other) :
          u < a /\ \A n \in 1 .. Len(other) : Is(other[n], "assistant", q) <=> n = a
  <2> SUFFICES ASSUME begun
               PROVE  \E a \in 1 .. Len(other) :
                          u < a /\ \A n \in 1 .. Len(other) : Is(other[n], "assistant", q) <=> n = a
    OBVIOUS
  <2>1. PICK a \in 1 .. Len(list) :
            u < a /\ \A n \in 1 .. Len(list) : Is(list[n], "assistant", q) <=> n = a
    BY <1>2
  <2>2. \A n \in 1 .. Len(other) : Is(other[n], "assistant", q) <=> n = a
    BY <1>1, <2>1
  <2> QED
    BY <2>1, <2>2
<1>5. ~begun => \A n \in 1 .. Len(other) : ~Is(other[n], "assistant", q)
  BY <1>1, <1>2
<1> QED
  BY <1>2, <1>3, <1>4, <1>5 DEF OneAnswer

LEMMA OthersSpeak ==
    ASSUME NEW q, NEW begun \in BOOLEAN, NEW list \in Seq(Messages), NEW m \in Messages,
           m.q # q, OneAnswer(q, list, begun)
    PROVE  OneAnswer(q, Append(list, m), begun)
<1>0. PICK longer \in Seq(Messages) : longer = Append(list, m)
  BY AppendProperties
<1>1. /\ Len(list) \in Nat /\ Len(longer) = Len(list) + 1 /\ longer[Len(list) + 1] = m
      /\ \A n \in 1 .. Len(list) : longer[n] = list[n]
  BY <1>0, AppendProperties
<1>2. PICK k \in Nat : k = Len(list)
  BY <1>1
<1>3. \A n \in 1 .. (k + 1) : n \in 1 .. k \/ n = k + 1
  BY <1>2
<1>4. 1 .. k \subseteq 1 .. (k + 1) /\ k + 1 \notin 1 .. k
  BY <1>2
<1>5. ~Is(m, "user", q) /\ ~Is(m, "assistant", q)
  BY DEF Is
<1>6. \A n \in 1 .. (k + 1), role \in {"user", "assistant"} :
          Is(longer[n], role, q) <=> n \in 1 .. k /\ Is(list[n], role, q)
  BY <1>1, <1>2, <1>3, <1>4, <1>5
<1>7. PICK u \in 1 .. k :
        /\ \A n \in 1 .. k : Is(list[n], "user", q) <=> n = u
        /\ begun => \E a \in 1 .. k :
               u < a /\ \A n \in 1 .. k : Is(list[n], "assistant", q) <=> n = a
        /\ ~begun => \A n \in 1 .. k : ~Is(list[n], "assistant", q)
  BY <1>2 DEF OneAnswer
<1>8. u \in 1 .. (k + 1) /\ \A n \in 1 .. (k + 1) : Is(longer[n], "user", q) <=> n = u
  BY <1>4, <1>6, <1>7
<1>9. begun => \E a \in 1 .. (k + 1) :
          u < a /\ \A n \in 1 .. (k + 1) : Is(longer[n], "assistant", q) <=> n = a
  <2> SUFFICES ASSUME begun
               PROVE  \E a \in 1 .. (k + 1) :
                          u < a /\ \A n \in 1 .. (k + 1) : Is(longer[n], "assistant", q) <=> n = a
    OBVIOUS
  <2>1. PICK a \in 1 .. k : u < a /\ \A n \in 1 .. k : Is(list[n], "assistant", q) <=> n = a
    BY <1>7
  <2>2. a \in 1 .. (k + 1) /\ \A n \in 1 .. (k + 1) : Is(longer[n], "assistant", q) <=> n = a
    BY <1>4, <1>6, <2>1
  <2> QED
    BY <2>1, <2>2
<1>10. ~begun => \A n \in 1 .. (k + 1) : ~Is(longer[n], "assistant", q)
  BY <1>6, <1>7
<1>11. Len(longer) = k + 1
  BY <1>1, <1>2
<1>12. OneAnswer(q, longer, begun)
  <2>1. CASE begun
    <3>1. begun = TRUE
      BY <2>1
    <3>2. OneAnswer(q, longer, TRUE)
      <4>1. u \in 1 .. Len(longer) /\ \A n \in 1 .. Len(longer) : Is(longer[n], "user", q) <=> n = u
        BY <1>8, <1>11
      <4>2. \E a \in 1 .. Len(longer) :
                u < a /\ \A n \in 1 .. Len(longer) : Is(longer[n], "assistant", q) <=> n = a
        BY <1>9, <1>11, <2>1
      <4> QED
        BY <4>1, <4>2 DEF OneAnswer
    <3> QED
      BY <3>1, <3>2
  <2>2. CASE ~begun
    <3>1. begun = FALSE
      BY <2>2
    <3>2. OneAnswer(q, longer, FALSE)
      <4>1. u \in 1 .. Len(longer) /\ \A n \in 1 .. Len(longer) : Is(longer[n], "user", q) <=> n = u
        BY <1>8, <1>11
      <4>2. \A n \in 1 .. Len(longer) : ~Is(longer[n], "assistant", q)
        BY <1>10, <1>11, <2>2
      <4> QED
        BY <4>1, <4>2 DEF OneAnswer
    <3> QED
      BY <3>1, <3>2
  <2> QED
    BY <2>1, <2>2
<1> QED
  BY <1>0, <1>12

LEMMA AnswerBegins ==
    ASSUME NEW q, NEW list \in Seq(Messages), NEW m \in Messages,
           Is(m, "assistant", q), OneAnswer(q, list, FALSE)
    PROVE  OneAnswer(q, Append(list, m), TRUE)
<1>0. PICK longer \in Seq(Messages) : longer = Append(list, m)
  BY AppendProperties
<1>1. /\ Len(list) \in Nat /\ Len(longer) = Len(list) + 1 /\ longer[Len(list) + 1] = m
      /\ \A n \in 1 .. Len(list) : longer[n] = list[n]
  BY <1>0, AppendProperties
<1>2. PICK k \in Nat : k = Len(list)
  BY <1>1
<1>3. \A n \in 1 .. (k + 1) : n \in 1 .. k \/ n = k + 1
  BY <1>2
<1>4. 1 .. k \subseteq 1 .. (k + 1) /\ k + 1 \notin 1 .. k /\ k + 1 \in 1 .. (k + 1)
  BY <1>2
<1>5. ~Is(m, "user", q)
  BY DEF Is
<1>6. PICK u \in 1 .. k : /\ \A n \in 1 .. k : Is(list[n], "user", q) <=> n = u
                          /\ \A n \in 1 .. k : ~Is(list[n], "assistant", q)
  BY <1>2 DEF OneAnswer
<1>a. longer[k + 1] = m /\ \A n \in 1 .. k : longer[n] = list[n]
  BY <1>1, <1>2
<1>7. \A n \in 1 .. (k + 1) : Is(longer[n], "user", q) <=> n = u
  <2>1. ASSUME NEW n \in 1 .. k PROVE Is(longer[n], "user", q) <=> n = u
    <3>1. longer[n] = list[n] /\ (Is(list[n], "user", q) <=> n = u)
      BY <1>a, <1>6
    <3> QED
      BY <3>1
  <2>2. ~Is(longer[k + 1], "user", q) /\ k + 1 # u
    BY <1>a, <1>4, <1>5, <1>6
  <2> QED
    BY <1>3, <2>1, <2>2
<1>8. \A n \in 1 .. (k + 1) : Is(longer[n], "assistant", q) <=> n = k + 1
  <2>1. ASSUME NEW n \in 1 .. k PROVE ~Is(longer[n], "assistant", q)
    <3>1. longer[n] = list[n] /\ ~Is(list[n], "assistant", q)
      BY <1>a, <1>6
    <3> QED
      BY <3>1
  <2>2. Is(longer[k + 1], "assistant", q)
    BY <1>a
  <2> QED
    BY <1>3, <1>4, <2>1, <2>2
<1>9. u < k + 1 /\ u \in 1 .. (k + 1)
  BY <1>2, <1>6
<1> QED
  BY <1>0, <1>1, <1>2, <1>4, <1>7, <1>8, <1>9 DEF OneAnswer

LEMMA QuestionAsked ==
    ASSUME NEW q, NEW list \in Seq(Messages), NEW m \in Messages,
           Is(m, "user", q), \A n \in 1 .. Len(list) : list[n].q # q
    PROVE  OneAnswer(q, Append(list, m), FALSE)
<1>0. PICK longer \in Seq(Messages) : longer = Append(list, m)
  BY AppendProperties
<1>1. /\ Len(list) \in Nat /\ Len(longer) = Len(list) + 1 /\ longer[Len(list) + 1] = m
      /\ \A n \in 1 .. Len(list) : longer[n] = list[n]
  BY <1>0, AppendProperties
<1>2. PICK k \in Nat : k = Len(list)
  BY <1>1
<1>3. \A n \in 1 .. (k + 1) : n \in 1 .. k \/ n = k + 1
  BY <1>2
<1>4. k + 1 \notin 1 .. k /\ k + 1 \in 1 .. (k + 1)
  BY <1>2
<1>5. ~Is(m, "assistant", q)
  BY DEF Is
<1>6. \A n \in 1 .. k : ~Is(list[n], "assistant", q) /\ ~Is(list[n], "user", q)
  BY <1>2 DEF Is
<1>7. \A n \in 1 .. (k + 1) : Is(longer[n], "user", q) <=> n = k + 1
  BY <1>1, <1>2, <1>3, <1>4, <1>6
<1>8. \A n \in 1 .. (k + 1) : ~Is(longer[n], "assistant", q)
  BY <1>1, <1>2, <1>3, <1>5, <1>6
<1>9. Len(longer) = k + 1
  BY <1>1, <1>2
<1>10. OneAnswer(q, longer, FALSE)
  BY <1>4, <1>7, <1>8, <1>9 DEF OneAnswer
<1> QED
  BY <1>0, <1>10

LEMMA ChatStart == ChatInit => ChatInv
<1> SUFFICES ASSUME ChatInit PROVE ChatInv
  OBVIOUS
<1>1. <<>> \in Seq(Messages) /\ <<>> \in Seq(AnswerStates) /\ Len(<<>>) = 0 /\ DOMAIN <<>> = {}
  OBVIOUS
<1>2. Range(<<>>) = {}
  BY <1>1 DEF Range
<1>3. ChatTypeOK
  <2>1. messages \in Seq(Messages) /\ storage \in Seq(Messages) /\ Len(storage) <= MAX_STORED
    BY <1>1, ChatAssumption DEF ChatInit
  <2>2. answers \in Seq(AnswerStates) /\ Len(answers) <= MaxQuestions
    BY <1>1, ChatAssumption DEF ChatInit
  <2>3. thinking \in BOOLEAN /\ unsaved \in BOOLEAN /\ forgets \in 0 .. MaxForgets
    <3>1. 0 \in 0 .. MaxForgets
      BY ChatAssumption
    <3> QED
      BY <3>1 DEF ChatInit
  <2>4. Range(messages) = {} /\ Range(storage) = {}
    BY <1>2 DEF ChatInit
  <2> QED
    BY <2>1, <2>2, <2>3, <2>4 DEF ChatTypeOK, AnswerStates
<1>4. Kept(<<>>) = <<>>
  BY <1>1, ChatAssumption DEF Kept
<1> QED
  BY <1>1, <1>2, <1>3, <1>4 DEF ChatInit, ChatInv, PageTells, StorageTold, Saved, NothingYet, OneEach

\* A list of the page's messages with one more.
LEMMA OneMore ==
    ASSUME ChatTypeOK, NEW m \in Messages
    PROVE  /\ Append(messages, m) \in Seq(Messages) /\ Append(messages, m) # <<>>
           /\ Range(Append(messages, m)) = Range(messages) \cup {m}
<1>1. messages \in Seq(Messages) /\ Len(messages) \in Nat
  BY ChatFacts
<1>2. /\ Append(messages, m) \in Seq(Messages) /\ Len(Append(messages, m)) = Len(messages) + 1
      /\ Len(messages) + 1 # 0
  BY <1>1, AppendProperties
<1>3. Append(messages, m) # <<>>
  BY <1>2
<1> QED
  BY <1>1, <1>2, <1>3, RangeAppend

LEMMA ChatAsks == ChatInv /\ sendMessage => ChatInv'
<1> SUFFICES ASSUME ChatInv, sendMessage PROVE ChatInv'
  OBVIOUS
<1>0. ChatTypeOK /\ Saved /\ StorageTold /\ PageTells /\ NothingYet /\ OneEach
  BY DEF ChatInv
<1>1. PICK q \in 1 .. MaxQuestions : q = Len(answers) + 1
  BY <1>0, ChatFacts, ChatAssumption DEF sendMessage
<1>2. /\ answers' = Append(answers, [at |-> "asked", tokens |-> 0]) /\ thinking' = TRUE
      /\ ShowMessages(Append(messages, Question(q))) /\ UNCHANGED forgets
  BY <1>1 DEF sendMessage
<1>3. [at |-> "asked", tokens |-> 0] \in AnswerStates
  BY ChatAssumption DEF AnswerStates
<1>4. /\ answers' \in Seq(AnswerStates) /\ Len(answers') = q /\ DOMAIN answers' = 1 .. q
      /\ answers'[q] = [at |-> "asked", tokens |-> 0]
      /\ \A r \in DOMAIN answers : answers'[r] = answers[r] /\ r \in 1 .. q /\ r # q
      /\ \A r \in 1 .. q : r = q \/ r \in DOMAIN answers
  <2>1. /\ Len(answers) \in Nat /\ Len(answers') = Len(answers) + 1 /\ answers' \in Seq(AnswerStates)
        /\ answers'[Len(answers) + 1] = [at |-> "asked", tokens |-> 0]
        /\ \A r \in 1 .. Len(answers) : answers'[r] = answers[r]
    BY <1>0, <1>2, <1>3, ChatFacts, AppendProperties
  <2>2. DOMAIN answers = 1 .. Len(answers)
    BY <1>0, ChatFacts
  <2>3. \A r \in 1 .. Len(answers) : r \in 1 .. q /\ r # q
    BY <1>1, <2>1
  <2>4. \A r \in 1 .. q : r = q \/ r \in 1 .. Len(answers)
    BY <1>1, <2>1
  <2>5. DOMAIN answers' = 1 .. Len(answers')
    BY <2>1
  <2> QED
    BY <1>1, <2>1, <2>2, <2>3, <2>4, <2>5
<1>5. Question(q) \in Messages /\ Question(q).q = q /\ Question(q).role = "user"
  BY DEF Question, Messages
<1>6. PICK list \in Seq(Messages) :
          /\ list = Append(messages, Question(q)) /\ list # <<>>
          /\ Range(list) = Range(messages) \cup {Question(q)}
  BY <1>0, <1>5, OneMore
<1>7. ASSUME NEW m \in Range(list)
      PROVE  m.q \in DOMAIN answers' /\ Tells(m, answers'[m.q], unsaved)
  <2>1. CASE m \in Range(messages)
    BY <1>0, <1>4, <2>1, ChatFacts DEF PageTells
  <2>2. CASE m = Question(q)
    BY <1>4, <1>5, <2>2 DEF Tells
  <2> QED
    BY <1>6, <1>7, <2>1, <2>2
<1>8. \A r \in DOMAIN answers : r \in DOMAIN answers' /\ answers'[r].tokens >= answers[r].tokens
  <2>1. \A r \in DOMAIN answers : answers[r].tokens \in Nat
    BY <1>0, ChatFacts DEF AnswerStates
  <2> QED
    BY <1>4, <2>1
<1>9. Len(answers') <= MaxQuestions /\ thinking' \in BOOLEAN
  BY <1>1, <1>2, <1>4, ChatAssumption
<1>10. ShowMessages(list)
  BY <1>2, <1>6
<1>11. ChatTypeOK' /\ Saved' /\ StorageTold' /\ PageTells' /\ messages' = list
  BY <1>0, <1>2, <1>4, <1>6, <1>7, <1>8, <1>9, <1>10, ChatMoves
<1>12. NothingYet'
  BY <1>0, <1>4 DEF NothingYet
<1>13. OneEach'
  <2> SUFFICES ASSUME forgets = 0, NEW r \in 1 .. q
               PROVE  OneAnswer(r, list, answers'[r].at # "asked")
    BY <1>2, <1>4, <1>11 DEF OneEach
  <2>1. CASE r = q
    <3>1. \A n \in 1 .. Len(messages) : messages[n].q # q
      <4>1. \A n \in 1 .. Len(messages) : messages[n] \in Range(messages)
        BY <1>0, ChatFacts, RangeIs
      <4> QED
        BY <1>0, <1>4, <4>1, ChatFacts
    <3>2. Is(Question(q), "user", q)
      BY <1>5 DEF Is
    <3>3. OneAnswer(q, list, FALSE)
      BY <1>0, <1>5, <1>6, <3>1, <3>2, ChatFacts, QuestionAsked
    <3>4. (answers'[q].at # "asked") = FALSE
      BY <1>4
    <3> QED
      BY <2>1, <3>3, <3>4
  <2>2. CASE r \in DOMAIN answers
    <3>1. OneAnswer(r, messages, answers[r].at # "asked")
      BY <1>0, <2>2 DEF OneEach
    <3>2. r # q /\ answers'[r] = answers[r]
      BY <1>4, <2>2
    <3>3. PICK begun \in BOOLEAN : begun = (answers[r].at # "asked")
      OBVIOUS
    <3>4. OneAnswer(r, Append(messages, Question(q)), begun)
      BY <1>0, <1>5, <3>1, <3>2, <3>3, ChatFacts, OthersSpeak
    <3> QED
      BY <1>6, <3>2, <3>3, <3>4
  <2> QED
    BY <1>4, <2>1, <2>2
<1> QED
  BY <1>11, <1>12, <1>13 DEF ChatInv

\* An answer of q changes by itself, the messages with it or not at all.
LEMMA AnswerChanges ==
    ASSUME ChatTypeOK, NEW q \in DOMAIN answers, NEW b \in AnswerStates,
           b.tokens >= answers[q].tokens, answers' = [answers EXCEPT ![q] = b]
    PROVE  /\ answers' \in Seq(AnswerStates) /\ Len(answers') <= MaxQuestions
           /\ DOMAIN answers' = DOMAIN answers /\ answers'[q] = b
           /\ \A r \in DOMAIN answers : r # q => answers'[r] = answers[r]
           /\ \A r \in DOMAIN answers :
                  r \in DOMAIN answers' /\ answers'[r].tokens >= answers[r].tokens
<1>1. /\ answers' \in Seq(AnswerStates)
      /\ Len(answers') = Len(answers) /\ DOMAIN answers' = DOMAIN answers
      /\ answers'[q] = b /\ \A r \in DOMAIN answers : r # q => answers'[r] = answers[r]
  BY ChatFacts
<1>2. \A r \in DOMAIN answers : answers[r].tokens \in Nat
  BY ChatFacts DEF AnswerStates
<1>3. \A r \in DOMAIN answers : answers'[r].tokens >= answers[r].tokens
  BY <1>1, <1>2
<1> QED
  BY <1>1, <1>3 DEF ChatTypeOK

LEMMA ChatBegins == \A q \in DOMAIN answers : ChatInv /\ Begin(q) => ChatInv'
<1> SUFFICES ASSUME NEW q \in DOMAIN answers, ChatInv, Begin(q) PROVE ChatInv'
  OBVIOUS
<1>0. ChatTypeOK /\ Saved /\ StorageTold /\ PageTells /\ NothingYet /\ OneEach
  BY DEF ChatInv
<1>1. /\ answers[q].at = "asked" /\ answers' = [answers EXCEPT ![q].at = "streaming"]
      /\ thinking' = FALSE /\ ShowMessages(Append(messages, Reply(q, <<>>))) /\ UNCHANGED forgets
  BY DEF Begin
<1>2. answers[q].tokens = 0 /\ q \in 1 .. MaxQuestions /\ answers[q] \in AnswerStates
  BY <1>0, <1>1, ChatFacts DEF NothingYet
<1>3. PICK b \in AnswerStates : b = [at |-> "streaming", tokens |-> 0]
  <2>1. 0 \in 0 .. MaxTokens
    BY ChatAssumption
  <2>2. [at |-> "streaming", tokens |-> 0] \in AnswerStates
    BY <2>1 DEF AnswerStates
  <2> QED
    BY <2>2
<1>4. answers' = [answers EXCEPT ![q] = b]
  <2>1. answers' = [answers EXCEPT ![q] = [answers[q] EXCEPT !.at = "streaming"]]
    BY <1>1
  <2>2. [answers[q] EXCEPT !.at = "streaming"] = b
    BY <1>2, <1>3 DEF AnswerStates
  <2> QED
    BY <2>1, <2>2
<1>5. b.tokens >= answers[q].tokens
  BY <1>2, <1>3
<1>6. /\ answers' \in Seq(AnswerStates) /\ Len(answers') <= MaxQuestions
      /\ DOMAIN answers' = DOMAIN answers /\ answers'[q] = b
      /\ \A r \in DOMAIN answers : r # q => answers'[r] = answers[r]
      /\ \A r \in DOMAIN answers : r \in DOMAIN answers' /\ answers'[r].tokens >= answers[r].tokens
  BY <1>0, <1>4, <1>5, AnswerChanges
<1>7. PICK m \in Messages : /\ m = Reply(q, <<>>) /\ m.q = q /\ m.role = "assistant"
                            /\ m.content = Tokens(q, 0)
  <2>1. Reply(q, <<>>) = [role |-> "assistant", q |-> q, content |-> <<>>]
    BY DEF Reply
  <2>2. <<>> \in Seq(Nat \X Nat)
    OBVIOUS
  <2>3. Tokens(q, 0) = <<>>
    BY <1>2, TokensGrow
  <2>4. Reply(q, <<>>) \in Messages
    BY <1>2, <2>2, ReplyTyped
  <2> QED
    BY <2>1, <2>3, <2>4
<1>8. PICK list \in Seq(Messages) : /\ list = Append(messages, m) /\ list # <<>>
                                    /\ Range(list) = Range(messages) \cup {m}
  BY <1>0, OneMore
<1>9. ASSUME NEW k \in Range(list)
      PROVE  k.q \in DOMAIN answers' /\ Tells(k, answers'[k.q], unsaved)
  <2>1. CASE k \in Range(messages)
    <3>1. k.q \in DOMAIN answers /\ Tells(k, answers[k.q], unsaved)
      BY <1>0, <2>1, ChatFacts DEF PageTells
    <3>2. CASE k.q = q
      BY <1>1, <1>6, <3>1, <3>2 DEF Tells
    <3>3. CASE k.q # q
      BY <1>6, <3>1, <3>3
    <3> QED
      BY <3>2, <3>3
  <2>2. CASE k = m
    <3>1. 0 \in 0 .. 0
      OBVIOUS
    <3> QED
      BY <1>3, <1>6, <1>7, <2>2, <3>1 DEF Tells
  <2> QED
    BY <1>8, <1>9, <2>1, <2>2
<1>10. ShowMessages(list) /\ thinking' \in BOOLEAN
  BY <1>1, <1>7, <1>8
<1>11. ChatTypeOK' /\ Saved' /\ StorageTold' /\ PageTells' /\ messages' = list
  BY <1>0, <1>1, <1>6, <1>8, <1>9, <1>10, ChatMoves
<1>12. NothingYet'
  BY <1>0, <1>3, <1>6 DEF NothingYet
<1>13. OneEach'
  <2> SUFFICES ASSUME forgets = 0, NEW r \in DOMAIN answers
               PROVE  OneAnswer(r, list, answers'[r].at # "asked")
    BY <1>1, <1>6, <1>11 DEF OneEach
  <2>0. OneAnswer(r, messages, answers[r].at # "asked")
    BY <1>0 DEF OneEach
  <2>1. CASE r = q
    <3>1. (answers[q].at # "asked") = FALSE /\ (answers'[q].at # "asked") = TRUE
      BY <1>1, <1>3, <1>6
    <3>2. OneAnswer(q, messages, FALSE)
      BY <2>0, <2>1, <3>1
    <3>3. OneAnswer(q, list, TRUE)
      BY <1>0, <1>7, <1>8, <3>2, ChatFacts, AnswerBegins DEF Is
    <3> QED
      BY <2>1, <3>1, <3>3
  <2>2. CASE r # q
    <3>1. answers'[r] = answers[r]
      BY <1>6, <2>2
    <3>2. PICK begun \in BOOLEAN : begun = (answers[r].at # "asked")
      OBVIOUS
    <3>3. OneAnswer(r, Append(messages, m), begun)
      BY <1>0, <1>7, <2>0, <2>2, <3>2, ChatFacts, OthersSpeak
    <3> QED
      BY <1>8, <3>1, <3>2, <3>3
  <2> QED
    BY <2>1, <2>2
<1> QED
  BY <1>11, <1>12, <1>13 DEF ChatInv

\* In a list of the page's messages with other contents the same ones speak.
LEMMA Rewritten ==
    ASSUME ChatTypeOK, NEW list \in Seq(Messages), Len(list) = Len(messages),
           \A n \in DOMAIN messages :
               list[n].role = messages[n].role /\ list[n].q = messages[n].q
    PROVE  /\ list = <<>> => messages = <<>>
           /\ \A r \in DOMAIN answers : \A begun \in BOOLEAN :
             OneAnswer(r, messages, begun) => OneAnswer(r, list, begun)
<1>1. messages \in Seq(Messages) /\ Len(messages) \in Nat /\ DOMAIN messages = 1 .. Len(messages)
  BY ChatFacts
<1>2. list = <<>> => messages = <<>>
  BY <1>1, EmptySeq
<1>3. ASSUME NEW r \in DOMAIN answers, NEW begun \in BOOLEAN, OneAnswer(r, messages, begun)
      PROVE  OneAnswer(r, list, begun)
  BY <1>1, <1>3, SameSpeakers
<1> QED
  BY <1>2, <1>3

\* The messages of the page whose content an answer changes.
LEMMA Rewrites ==
    ASSUME ChatTypeOK, NEW q \in DOMAIN answers, NEW content \in Seq(Nat \X Nat),
           NEW list, list = Replaced(q, content)
    PROVE  /\ list \in Seq(Messages) /\ Len(list) = Len(messages)
           /\ \A n \in DOMAIN messages :
                  list[n].role = messages[n].role /\ list[n].q = messages[n].q
           /\ \A k \in Range(list) : \/ k \in Range(messages) /\ ~(k.role = "assistant" /\ k.q = q)
                                     \/ k = Reply(q, content)
<1>1. /\ messages \in Seq(Messages) /\ Len(messages) \in Nat /\ DOMAIN messages = 1 .. Len(messages)
      /\ q \in 1 .. MaxQuestions
      /\ \A n \in DOMAIN messages : messages[n] \in Messages /\ messages[n] \in Range(messages)
  <2>1. messages \in Seq(Messages) /\ Len(messages) \in Nat /\ q \in 1 .. MaxQuestions
    BY ChatFacts
  <2>2. DOMAIN messages = 1 .. Len(messages)
    BY <2>1
  <2>3. \A n \in 1 .. Len(messages) : messages[n] \in Messages
    BY <2>1
  <2>4. \A n \in 1 .. Len(messages) : messages[n] \in Range(messages)
    BY <2>1, RangeIs
  <2> QED
    BY <2>1, <2>2, <2>3, <2>4
<1>2. Reply(q, content) \in Messages /\ Reply(q, content).role = "assistant" /\ Reply(q, content).q = q
  BY <1>1 DEF Reply, Messages
<1>a. list = [n \in DOMAIN messages |-> IF messages[n].role = "assistant" /\ messages[n].q = q
                                        THEN Reply(q, content) ELSE messages[n]]
  BY DEF Replaced
<1>b. \A n \in DOMAIN messages :
          list[n] = IF messages[n].role = "assistant" /\ messages[n].q = q
                    THEN Reply(q, content) ELSE messages[n]
  BY <1>a
<1>3. \A n \in DOMAIN messages : list[n] \in Messages
  BY <1>1, <1>2, <1>b
<1>4. list \in [1 .. Len(messages) -> Messages]
  BY <1>1, <1>3, <1>a
<1>5. list \in Seq(Messages) /\ Len(list) = Len(messages)
  <2>1. PICK n \in Nat : n = Len(messages)
    BY <1>1
  <2>2. list \in [1 .. n -> Messages]
    BY <1>4, <2>1
  <2>3. list \in Seq(Messages)
    BY <2>2, SeqDef
  <2>4. DOMAIN list = 1 .. n
    BY <2>2
  <2> QED
    BY <2>1, <2>3, <2>4, LenProperties
<1>6. \A n \in DOMAIN messages : list[n].role = messages[n].role /\ list[n].q = messages[n].q
  BY <1>2, <1>b
<1>7. \A k \in Range(list) : \E n \in DOMAIN messages : k = list[n]
  BY <1>a DEF Range
<1>8. \A k \in Range(list) :
          (k \in Range(messages) /\ ~(k.role = "assistant" /\ k.q = q)) \/ k = Reply(q, content)
  BY <1>1, <1>7, <1>b
<1> QED
  BY <1>5, <1>6, <1>8

\* When what an answer has and what its message says change together, and nobody is
\* asked or begins, the page stays right.
LEMMA ChatRewrites ==
    ASSUME ChatInv, NEW q \in DOMAIN answers, NEW content \in Seq(Nat \X Nat), NEW b \in AnswerStates,
           answers[q].at # "asked", b.at # "asked", b.tokens >= answers[q].tokens,
           answers' = [answers EXCEPT ![q] = b],
           Tells(Reply(q, content), b, unsaved),
           ShowMessages(Replaced(q, content)), thinking' \in BOOLEAN, UNCHANGED forgets
    PROVE  ChatInv'
<1>0. ChatTypeOK /\ Saved /\ StorageTold /\ PageTells /\ NothingYet /\ OneEach
  BY DEF ChatInv
<1>1. /\ answers' \in Seq(AnswerStates) /\ Len(answers') <= MaxQuestions
      /\ DOMAIN answers' = DOMAIN answers /\ answers'[q] = b
      /\ \A r \in DOMAIN answers : r # q => answers'[r] = answers[r]
      /\ \A r \in DOMAIN answers : r \in DOMAIN answers' /\ answers'[r].tokens >= answers[r].tokens
  BY <1>0, AnswerChanges
<1>2. PICK list \in Seq(Messages) :
          /\ list = Replaced(q, content) /\ Len(list) = Len(messages)
          /\ \A n \in DOMAIN messages :
                 list[n].role = messages[n].role /\ list[n].q = messages[n].q
          /\ \A k \in Range(list) : \/ k \in Range(messages) /\ ~(k.role = "assistant" /\ k.q = q)
                                    \/ k = Reply(q, content)
  BY <1>0, Rewrites
<1>3. /\ list = <<>> => messages = <<>>
      /\ \A r \in DOMAIN answers : \A begun \in BOOLEAN :
             OneAnswer(r, messages, begun) => OneAnswer(r, list, begun)
  BY <1>0, <1>2, Rewritten
<1>4. ASSUME NEW k \in Range(list)
      PROVE  k.q \in DOMAIN answers' /\ Tells(k, answers'[k.q], unsaved)
  <2>1. CASE k \in Range(messages) /\ ~(k.role = "assistant" /\ k.q = q)
    <3>1. k.q \in DOMAIN answers /\ Tells(k, answers[k.q], unsaved)
      BY <1>0, <2>1, ChatFacts DEF PageTells
    <3>2. CASE k.q = q
      BY <1>1, <2>1, <3>2 DEF Tells
    <3>3. CASE k.q # q
      BY <1>1, <3>1, <3>3
    <3> QED
      BY <3>2, <3>3
  <2>2. CASE k = Reply(q, content)
    <3>1. k.q = q
      BY <2>2 DEF Reply
    <3> QED
      BY <1>1, <2>2, <3>1
  <2> QED
    BY <1>2, <1>4, <2>1, <2>2
<1>5. ShowMessages(list)
  BY <1>2
<1>6. ChatTypeOK' /\ Saved' /\ StorageTold' /\ PageTells' /\ messages' = list
  BY <1>0, <1>1, <1>3, <1>4, <1>5, ChatMoves
<1>7. NothingYet'
  BY <1>0, <1>1 DEF NothingYet
<1>8. OneEach'
  <2> SUFFICES ASSUME forgets = 0, NEW r \in DOMAIN answers
               PROVE  OneAnswer(r, list, answers'[r].at # "asked")
    BY <1>1, <1>6 DEF OneEach
  <2>1. OneAnswer(r, messages, answers[r].at # "asked")
    BY <1>0 DEF OneEach
  <2>2. PICK begun \in BOOLEAN : begun = (answers[r].at # "asked") /\ begun = (answers'[r].at # "asked")
    BY <1>1
  <2>3. OneAnswer(r, messages, begun)
    BY <2>1, <2>2
  <2>4. OneAnswer(r, list, begun)
    BY <1>3, <2>3
  <2> QED
    BY <2>2, <2>4
<1> QED
  BY <1>6, <1>7, <1>8 DEF ChatInv

LEMMA ChatTokens == \A q \in DOMAIN answers : ChatInv /\ Token(q) => ChatInv'
<1> SUFFICES ASSUME NEW q \in DOMAIN answers, ChatInv, Token(q) PROVE ChatInv'
  OBVIOUS
<1>0. ChatTypeOK /\ PageTells
  BY DEF ChatInv
<1>1. answers[q] \in AnswerStates /\ q \in 1 .. MaxQuestions /\ answers[q].at = "streaming"
  BY <1>0, ChatFacts DEF Token
<1>2. PICK n \in Nat : n = answers[q].tokens
  BY <1>1 DEF AnswerStates
<1>3. /\ n + 1 <= MaxTokens /\ answers' = [answers EXCEPT ![q].tokens = n + 1]
      /\ ShowMessages([i \in DOMAIN messages |->
                     IF messages[i].role = "assistant" /\ messages[i].q = q
                     THEN [messages[i] EXCEPT !.content = Append(@, <<q, n + 1>>)] ELSE messages[i]])
      /\ UNCHANGED <<thinking, forgets>>
  BY <1>2 DEF Token
<1>4. PICK b \in AnswerStates : b = [at |-> "streaming", tokens |-> n + 1]
  <2>1. n + 1 \in 0 .. MaxTokens
    BY <1>3, ChatAssumption
  <2>2. [at |-> "streaming", tokens |-> n + 1] \in AnswerStates
    BY <2>1 DEF AnswerStates
  <2> QED
    BY <2>2
<1>5. answers' = [answers EXCEPT ![q] = b]
  <2>1. answers' = [answers EXCEPT ![q] = [answers[q] EXCEPT !.tokens = n + 1]]
    BY <1>3
  <2>2. [answers[q] EXCEPT !.tokens = n + 1] = b
    BY <1>1, <1>4 DEF AnswerStates
  <2> QED
    BY <2>1, <2>2
<1>6. PICK content \in Seq(Nat \X Nat) : /\ content = Tokens(q, n + 1)
                                          /\ content = Append(Tokens(q, n), <<q, n + 1>>)
  <2>1. q \in Nat /\ n + 1 \in Nat
    BY <1>1
  <2> QED
    BY <2>1, TokensGrow
<1>7. ASSUME NEW i \in DOMAIN messages, messages[i].role = "assistant" /\ messages[i].q = q
      PROVE  [messages[i] EXCEPT !.content = Append(@, <<q, n + 1>>)] = Reply(q, content)
  <2>1. messages[i] \in Messages /\ messages[i] \in Range(messages)
    BY <1>0, ChatFacts, RangeIs
  <2>2. messages[i].content = Tokens(q, n)
    BY <1>0, <1>1, <1>2, <1>7, <2>1 DEF PageTells, Tells
  <2>3. messages[i] = [role |-> "assistant", q |-> q, content |-> Tokens(q, n)]
    BY <1>7, <2>1, <2>2 DEF Messages
  <2>4. [messages[i] EXCEPT !.content = Append(@, <<q, n + 1>>)] =
            [messages[i] EXCEPT !.content = content]
    BY <1>6, <2>2
  <2>5. [messages[i] EXCEPT !.content = content] = [role |-> "assistant", q |-> q, content |-> content]
    BY <2>3
  <2> QED
    BY <2>4, <2>5 DEF Reply
<1>8. ShowMessages(Replaced(q, content))
  <2>1. [i \in DOMAIN messages |->
            IF messages[i].role = "assistant" /\ messages[i].q = q
            THEN [messages[i] EXCEPT !.content = Append(@, <<q, n + 1>>)] ELSE messages[i]]
        = Replaced(q, content)
    BY <1>7 DEF Replaced
  <2> QED
    BY <1>3, <2>1
<1>9. Tells(Reply(q, content), b, unsaved)
  <2>1. n + 1 \in 0 .. (n + 1)
    OBVIOUS
  <2> QED
    BY <1>4, <1>6, <2>1 DEF Tells, Reply
<1>10. b.tokens >= answers[q].tokens /\ b.at # "asked" /\ thinking' \in BOOLEAN
  BY <1>0, <1>2, <1>3, <1>4 DEF ChatTypeOK
<1> QED
  BY <1>1, <1>3, <1>5, <1>8, <1>9, <1>10, ChatRewrites

LEMMA ChatDone == \A q \in DOMAIN answers : ChatInv /\ Done(q) => ChatInv'
<1> SUFFICES ASSUME NEW q \in DOMAIN answers, ChatInv, Done(q) PROVE ChatInv'
  OBVIOUS
<1>0. ChatTypeOK /\ Saved /\ StorageTold /\ PageTells /\ NothingYet /\ OneEach
  BY DEF ChatInv
<1>1. /\ answers[q].at = "streaming" /\ answers' = [answers EXCEPT ![q].at = "ended"]
      /\ UNCHANGED <<messages, thinking, storage, forgets, unsaved>>
  BY DEF Done
<1>2. answers[q] \in AnswerStates
  BY <1>0, ChatFacts
<1>3. PICK n \in 0 .. MaxTokens : n = answers[q].tokens
  BY <1>2 DEF AnswerStates
<1>4. PICK b \in AnswerStates : b = [at |-> "ended", tokens |-> n]
  BY DEF AnswerStates
<1>5. answers' = [answers EXCEPT ![q] = b]
  <2>1. answers' = [answers EXCEPT ![q] = [answers[q] EXCEPT !.at = "ended"]]
    BY <1>1
  <2>2. [answers[q] EXCEPT !.at = "ended"] = b
    BY <1>2, <1>3, <1>4 DEF AnswerStates
  <2> QED
    BY <2>1, <2>2
<1>6. b.tokens >= answers[q].tokens
  BY <1>3, <1>4, ChatAssumption
<1>7. /\ answers' \in Seq(AnswerStates) /\ Len(answers') <= MaxQuestions
      /\ DOMAIN answers' = DOMAIN answers /\ answers'[q] = b
      /\ \A r \in DOMAIN answers : r # q => answers'[r] = answers[r]
  BY <1>0, <1>5, <1>6, AnswerChanges
<1>8. ChatTypeOK'
  BY <1>0, <1>1, <1>7 DEF ChatTypeOK, AnswerStates
<1>9. PageTells'
  <2> SUFFICES ASSUME NEW m \in Range(messages) PROVE Tells(m, answers'[m.q], unsaved)
    BY <1>1 DEF PageTells, Tells
  <2>1. m.q \in DOMAIN answers /\ Tells(m, answers[m.q], unsaved)
    BY <1>0, ChatFacts DEF PageTells
  <2>2. CASE m.q = q
    <3>1. n \in 0 .. n
      BY ChatAssumption
    <3> QED
      BY <1>1, <1>3, <1>4, <1>7, <2>1, <2>2, <3>1 DEF Tells
  <2>3. CASE m.q # q
    BY <1>7, <2>1, <2>3
  <2> QED
    BY <2>2, <2>3
<1>10. StorageTold'
  <2> SUFFICES ASSUME NEW m \in Range(storage) PROVE Told(m, answers'[m.q])
    BY <1>1 DEF StorageTold, Told
  <2>1. m.q \in DOMAIN answers /\ Told(m, answers[m.q])
    BY <1>0, ChatFacts DEF StorageTold
  <2>2. CASE m.q = q
    BY <1>2, <1>6, <1>7, <2>1, <2>2, ToldOn
  <2>3. CASE m.q # q
    BY <1>7, <2>1, <2>3
  <2> QED
    BY <2>2, <2>3
<1>11. Saved' /\ NothingYet'
  BY <1>0, <1>1, <1>4, <1>7 DEF Saved, Kept, NothingYet
<1>12. OneEach'
  <2> SUFFICES ASSUME forgets = 0, NEW r \in DOMAIN answers
               PROVE  OneAnswer(r, messages, answers'[r].at # "asked")
    BY <1>1, <1>7 DEF OneEach
  <2>1. OneAnswer(r, messages, answers[r].at # "asked")
    BY <1>0 DEF OneEach
  <2>2. (answers[r].at # "asked") = (answers'[r].at # "asked")
    BY <1>1, <1>4, <1>7
  <2> QED
    BY <2>1, <2>2
<1> QED
  BY <1>8, <1>9, <1>10, <1>11, <1>12 DEF ChatInv

LEMMA ChatFails == \A q \in DOMAIN answers : ChatInv /\ Fail(q) => ChatInv'
<1> SUFFICES ASSUME NEW q \in DOMAIN answers, ChatInv, Fail(q) PROVE ChatInv'
  OBVIOUS
<1>0. ChatTypeOK /\ Saved /\ StorageTold /\ PageTells /\ NothingYet /\ OneEach
  BY DEF ChatInv
<1>1. /\ answers[q].at # "ended" /\ answers' = [answers EXCEPT ![q].at = "ended"]
      /\ thinking' = FALSE /\ UNCHANGED forgets
  BY DEF Fail
<1>2. answers[q] \in AnswerStates /\ q \in 1 .. MaxQuestions
  BY <1>0, ChatFacts
<1>3. PICK n \in 0 .. MaxTokens : n = answers[q].tokens
  BY <1>2 DEF AnswerStates
<1>4. PICK b \in AnswerStates : b = [at |-> "ended", tokens |-> n]
  BY DEF AnswerStates
<1>5. answers' = [answers EXCEPT ![q] = b]
  <2>1. answers' = [answers EXCEPT ![q] = [answers[q] EXCEPT !.at = "ended"]]
    BY <1>1
  <2>2. [answers[q] EXCEPT !.at = "ended"] = b
    BY <1>2, <1>3, <1>4 DEF AnswerStates
  <2> QED
    BY <2>1, <2>2
<1>6. b.tokens >= answers[q].tokens /\ b.at # "asked" /\ thinking' \in BOOLEAN
  <2>1. n >= n
    BY ChatAssumption
  <2> QED
    BY <1>1, <1>3, <1>4, <2>1
<1>7. Sorry \in Seq(Nat \X Nat)
  BY DEF Sorry
<1>8. Reply(q, Sorry) \in Messages /\ Reply(q, Sorry).role = "assistant"
      /\ Reply(q, Sorry).q = q /\ Reply(q, Sorry).content = Sorry
  BY <1>2, <1>7, ReplyTyped
<1>9. Tells(Reply(q, Sorry), b, unsaved)
  BY <1>4, <1>8 DEF Tells
<1>10. CASE Shown(q)
  <2>1. ShowMessages(Replaced(q, Sorry))
    BY <1>10 DEF Fail
  <2>2. answers[q].at # "asked"
    BY <1>0, <1>10 DEF Shown, PageTells, Tells
  <2> QED
    BY <1>1, <1>5, <1>6, <1>7, <1>9, <2>1, <2>2, ChatRewrites
<1>11. CASE ~Shown(q)
  <2>1. /\ answers' \in Seq(AnswerStates) /\ Len(answers') <= MaxQuestions
        /\ DOMAIN answers' = DOMAIN answers /\ answers'[q] = b
        /\ \A r \in DOMAIN answers : r # q => answers'[r] = answers[r]
        /\ \A r \in DOMAIN answers : r \in DOMAIN answers' /\ answers'[r].tokens >= answers[r].tokens
    BY <1>0, <1>5, <1>6, AnswerChanges
  <2>2. PICK m \in Messages : m = Reply(q, Sorry) /\ m.q = q /\ m.role = "assistant"
    BY <1>8
  <2>3. PICK list \in Seq(Messages) : /\ list = Append(messages, m) /\ list # <<>>
                                      /\ Range(list) = Range(messages) \cup {m}
    BY <1>0, OneMore
  <2>4. ShowMessages(list)
    BY <1>11, <2>2, <2>3 DEF Fail
  <2>5. ASSUME NEW k \in Range(list)
        PROVE  k.q \in DOMAIN answers' /\ Tells(k, answers'[k.q], unsaved)
    <3>1. CASE k \in Range(messages)
      <4>1. k.q \in DOMAIN answers /\ Tells(k, answers[k.q], unsaved)
        BY <1>0, <3>1, ChatFacts DEF PageTells
      <4>2. CASE k.q = q
        BY <1>11, <2>1, <3>1, <4>2 DEF Tells, Shown
      <4>3. CASE k.q # q
        BY <2>1, <4>1, <4>3
      <4> QED
        BY <4>2, <4>3
    <3>2. CASE k = m
      BY <1>9, <2>1, <2>2, <3>2
    <3> QED
      BY <2>3, <2>5, <3>1, <3>2
  <2>6. ChatTypeOK' /\ Saved' /\ StorageTold' /\ PageTells' /\ messages' = list
    BY <1>0, <1>1, <1>6, <2>1, <2>3, <2>4, <2>5, ChatMoves
  <2>7. NothingYet'
    BY <1>0, <1>4, <2>1 DEF NothingYet
  <2>8. OneEach'
    <3> SUFFICES ASSUME forgets = 0, NEW r \in DOMAIN answers
                 PROVE  OneAnswer(r, list, answers'[r].at # "asked")
      BY <1>1, <2>1, <2>6 DEF OneEach
    <3>0. OneAnswer(r, messages, answers[r].at # "asked")
      BY <1>0 DEF OneEach
    <3>1. CASE r = q
      <4>1. \A i \in 1 .. Len(messages) : ~Is(messages[i], "assistant", q)
        <5>1. \A i \in 1 .. Len(messages) : messages[i] \in Range(messages)
          BY <1>0, ChatFacts, RangeIs
        <5> QED
          BY <1>11, <5>1 DEF Shown, Is
      <4>2. answers[q].at = "asked"
        BY <3>0, <3>1, <4>1 DEF OneAnswer
      <4>3. (answers[q].at # "asked") = FALSE /\ (answers'[q].at # "asked") = TRUE
        BY <1>6, <2>1, <4>2
      <4>4. OneAnswer(q, messages, FALSE)
        BY <3>0, <3>1, <4>3
      <4>5. OneAnswer(q, list, TRUE)
        BY <1>0, <2>2, <2>3, <4>4, ChatFacts, AnswerBegins DEF Is
      <4> QED
        BY <3>1, <4>3, <4>5
    <3>2. CASE r # q
      <4>1. answers'[r] = answers[r]
        BY <2>1, <3>2
      <4>2. PICK begun \in BOOLEAN : begun = (answers[r].at # "asked")
        OBVIOUS
      <4>3. OneAnswer(r, Append(messages, m), begun)
        BY <1>0, <2>2, <3>0, <3>2, <4>2, ChatFacts, OthersSpeak
      <4> QED
        BY <2>3, <4>1, <4>2, <4>3
    <3> QED
      BY <3>1, <3>2
  <2> QED
    BY <2>6, <2>7, <2>8 DEF ChatInv
<1> QED
  BY <1>10, <1>11

LEMMA ChatClears == ChatInv /\ clear => ChatInv'
<1> SUFFICES ASSUME ChatInv, clear PROVE ChatInv'
  OBVIOUS
<1>1. /\ forgets < MaxForgets /\ forgets' = forgets + 1 /\ messages' = <<>> /\ storage' = <<>>
      /\ UNCHANGED <<thinking, answers, unsaved>> /\ forgets \in 0 .. MaxForgets
  BY DEF clear, ChatInv, ChatTypeOK
<1>2. forgets' \in 0 .. MaxForgets /\ forgets' # 0
  BY <1>1, ChatAssumption
<1>3. <<>> \in Seq(Messages) /\ Len(<<>>) = 0 /\ Range(<<>>) = {} /\ 0 <= MAX_STORED
  BY ChatAssumption DEF Range
<1>4. ChatTypeOK'
  BY <1>1, <1>2, <1>3 DEF ChatInv, ChatTypeOK
<1>5. Kept(<<>>) = <<>>
  BY <1>3 DEF Kept
<1>6. Saved'
  BY <1>1, <1>5 DEF Saved
<1> QED
  BY <1>1, <1>2, <1>3, <1>4, <1>6 DEF ChatInv, PageTells, StorageTold, NothingYet, OneEach

LEMMA ChatLoads == ChatInv /\ Mount => ChatInv'
<1> SUFFICES ASSUME ChatInv, Mount PROVE ChatInv'
  OBVIOUS
<1>0. ChatTypeOK /\ Saved /\ StorageTold /\ PageTells
  BY DEF ChatInv
<1>1. /\ forgets < MaxForgets /\ forgets' = forgets + 1 /\ messages' = storage /\ thinking' = FALSE
      /\ answers' = [q \in DOMAIN answers |-> [answers[q] EXCEPT !.at = "ended"]]
      /\ UNCHANGED <<storage, unsaved>> /\ forgets \in 0 .. MaxForgets
  BY <1>0 DEF Mount, ChatTypeOK
<1>2. forgets' \in 0 .. MaxForgets /\ forgets' # 0
  BY <1>1, ChatAssumption
<1>3. /\ DOMAIN answers' = DOMAIN answers
      /\ \A q \in DOMAIN answers : /\ answers'[q] \in AnswerStates /\ answers'[q].at = "ended"
                                  /\ answers'[q].tokens = answers[q].tokens
  <2>1. \A q \in DOMAIN answers : answers[q] \in AnswerStates
    BY <1>0, ChatFacts
  <2>2. \A q \in DOMAIN answers : answers'[q] = [answers[q] EXCEPT !.at = "ended"]
    BY <1>1
  <2> QED
    BY <1>1, <2>1, <2>2 DEF AnswerStates
<1>4. answers' \in Seq(AnswerStates) /\ Len(answers') = Len(answers)
  <2>1. PICK n \in Nat : n = Len(answers)
    BY <1>0, ChatFacts
  <2>2. DOMAIN answers = 1 .. n
    BY <1>0, <2>1, ChatFacts
  <2>3. answers' \in [1 .. n -> AnswerStates]
    BY <1>1, <1>3, <2>2
  <2>4. answers' \in Seq(AnswerStates)
    BY <2>3, SeqDef
  <2> QED
    BY <2>1, <2>3, <2>4, LenProperties
<1>5. ChatTypeOK'
  BY <1>0, <1>1, <1>2, <1>3, <1>4 DEF ChatTypeOK, AnswerStates
<1>6. StorageTold'
  BY <1>0, <1>1, <1>3, ChatFacts DEF StorageTold, Told
<1>7. Saved'
  <2>1. storage \in Seq(Messages) /\ Len(storage) <= MAX_STORED
    BY <1>0, ChatFacts
  <2>2. Kept(storage) = storage
    BY <2>1, KeptFacts
  <2> QED
    BY <1>1, <2>2 DEF Saved
<1>8. PageTells'
  <2> SUFFICES ASSUME NEW m \in Range(storage) PROVE Tells(m, answers'[m.q], unsaved)
    BY <1>1 DEF PageTells, Tells
  <2>1. m.q \in DOMAIN answers /\ Told(m, answers[m.q])
    BY <1>0, ChatFacts DEF StorageTold
  <2>2. answers'[m.q].at = "ended" /\ answers'[m.q].tokens = answers[m.q].tokens
    BY <1>3, <2>1
  <2>3. CASE unsaved
    BY <2>1, <2>2, <2>3 DEF Told, Tells
  <2>4. CASE ~unsaved
    <3>1. m \in Range(messages)
      <4>1. storage = Kept(messages) /\ messages \in Seq(Messages)
        BY <1>0, <2>4, ChatFacts DEF Saved
      <4> QED
        BY <4>1, KeptFacts
    <3>2. Tells(m, answers[m.q], unsaved)
      BY <1>0, <3>1 DEF PageTells
    <3> QED
      BY <2>2, <3>2 DEF Tells
  <2> QED
    BY <2>3, <2>4
<1>9. NothingYet'
  BY <1>3 DEF NothingYet
<1>10. OneEach'
  BY <1>2 DEF OneEach
<1> QED
  BY <1>5, <1>6, <1>7, <1>8, <1>9, <1>10 DEF ChatInv

LEMMA ChatStep == ChatInv /\ [ChatNext]_chatVars => ChatInv'
<1> SUFFICES ASSUME ChatInv, [ChatNext]_chatVars PROVE ChatInv'
  OBVIOUS
<1>1. CASE UNCHANGED chatVars
  BY <1>1 DEF chatVars, ChatInv, ChatTypeOK, PageTells, Tells, StorageTold, Told, Saved, Kept,
              NothingYet, OneEach
<1> QED
  BY <1>1, ChatAsks, ChatBegins, ChatTokens, ChatDone, ChatFails, ChatClears, ChatLoads DEF ChatNext

\* Any number of questions and tokens, and of messages kept; streams overlap as they like.
THEOREM ChatInvariance == ChatSpec => []ChatInv
BY ChatStart, ChatStep, PTL DEF ChatSpec

\* An answer on the page is the apology or all the tokens of its own stream, also after
\* the page was loaded again unless a save had failed, and until the chat is forgotten
\* each question has the one answer that began below it.
THEOREM AnswersWhole == ChatSpec => []ChatWhole
<1>1. ChatInv => ChatWhole
  <2> SUFFICES ASSUME ChatInv PROVE ChatWhole
    OBVIOUS
  <2>0. ChatTypeOK /\ PageTells /\ OneEach
    BY DEF ChatInv
  <2>1. ASSUME NEW m \in Range(messages), m.role = "assistant", m.content # Sorry
        PROVE  \E n \in 0 .. answers[m.q].tokens :
                   m.content = Tokens(m.q, n) /\ (~unsaved => n = answers[m.q].tokens)
    BY <2>0, <2>1 DEF PageTells, Tells
  <2>2. ASSUME forgets = 0, NEW q \in DOMAIN answers
        PROVE  /\ Cardinality(Said("user", q)) = 1
               /\ Cardinality(Said("assistant", q)) = IF answers[q].at = "asked" THEN 0 ELSE 1
               /\ \A u \in Said("user", q), a \in Said("assistant", q) : u < a
    <3>0. DOMAIN messages = 1 .. Len(messages)
      BY <2>0, ChatFacts
    <3>1. OneAnswer(q, messages, answers[q].at # "asked")
      BY <2>0, <2>2 DEF OneEach
    <3>2. PICK u \in 1 .. Len(messages) :
            /\ \A n \in 1 .. Len(messages) : Is(messages[n], "user", q) <=> n = u
            /\ answers[q].at # "asked" => \E a \in 1 .. Len(messages) :
                   u < a /\ \A n \in 1 .. Len(messages) : Is(messages[n], "assistant", q) <=> n = a
            /\ ~(answers[q].at # "asked") =>
                   \A n \in 1 .. Len(messages) : ~Is(messages[n], "assistant", q)
      BY <3>1 DEF OneAnswer
    <3>3. Said("user", q) = {u}
      BY <3>0, <3>2 DEF Said, Is
    <3>4. Cardinality({u}) = 1
      BY FS_Singleton
    <3>5. CASE answers[q].at = "asked"
      <4>1. Said("assistant", q) = {}
        BY <3>0, <3>2, <3>5 DEF Said, Is
      <4>2. Cardinality({}) = 0
        BY FS_EmptySet
      <4> QED
        BY <3>3, <3>4, <3>5, <4>1, <4>2
    <3>6. CASE answers[q].at # "asked"
      <4>1. PICK a \in 1 .. Len(messages) :
                u < a /\ \A n \in 1 .. Len(messages) : Is(messages[n], "assistant", q) <=> n = a
        BY <3>2, <3>6
      <4>2. Said("assistant", q) = {a}
        BY <3>0, <4>1 DEF Said, Is
      <4>3. Cardinality({a}) = 1
        BY FS_Singleton
      <4> QED
        BY <3>3, <3>4, <3>6, <4>1, <4>2, <4>3
    <3> QED
      BY <3>5, <3>6
  <2> QED
    BY <2>1, <2>2 DEF ChatWhole
<1> QED
  BY <1>1, ChatInvariance, PTL

-----------------------------------------------------------------------------
(* PortalPages *)

\* Every load that replaces what is shown has arrived.
AllArrived == \A i \in DOMAIN loads : loads[i].more \/ loads[i].got = "ended"

\* A load is for what is picked, or it is known not to be, or one that replaces what it
\* shows was started after it.
LastIsPicked ==
    \A i \in DOMAIN loads :
        \/ loads[i].of = picked \/ loads[i].moved
        \/ \E j \in DOMAIN loads : j > i /\ ~loads[j].more

NewestIsNewest == \A i \in DOMAIN loads : loads[i].got = "ended" => i <= newest

\* An answer on its way has what is stored, unless a change was executed since.
ServedAsStored ==
    \A i \in DOMAIN loads :
        /\ loads[i].got = "with" /\ ~loads[i].old => stored[loads[i].of] > 0
        /\ loads[i].got = "without" /\ ~loads[i].old => stored[loads[i].of] = 0

\* What is shown is what is picked as it is stored, but for a change under way.
ShowsPicked ==
    why = {} /\ AllArrived =>
        /\ display.of = {picked}
        /\ \/ display.has <=> stored[picked] > 0
           \/ change # NoChange /\ change.at = picked

\* A page that shows a change before it is made loads once.
ShowsBefore ==
    (\E w \in page.writes : w.then = "before") =>
        /\ Len(loads) = 1
        /\ ~loading \/ change # NoChange => loads[1].got = "ended"
        /\ change # NoChange /\ display.of = {picked} => display.has

\* How often the change under way was sent.
Sent == IF change.sent THEN change.tries - 1 ELSE change.tries

\* Every execution, also one still to come, answers a sending of its own.
EachSending ==
    /\ change = NoChange => \A s \in page.picks : stored[s] + late[s] <= changes * Tries
    /\ change # NoChange =>
           /\ changes >= 1 /\ change.tries <= Tries
           /\ \A s \in page.picks : stored[s] + late[s] <= (changes - 1) * Tries + Sent

PageInv ==
    /\ PageTypeOK /\ LastIsPicked /\ NewestIsNewest /\ ServedAsStored
    /\ ShowsPicked /\ ShowsBefore /\ EachSending

\* What a load that fails may leave the page with.
Faults == {"error", "empty"}

LEMMA ReadingFails ==
    ASSUME NEW handler, handler \subseteq Faults, NEW route, route.down \in Faults
    PROVE  ReadFaults(handler, route) \subseteq Faults
BY DEF ReadFaults, Faults

LEMMA HandlersFail ==
    /\ Hidden \subseteq Faults
    /\ NoHandler \subseteq Faults
    /\ documents \subseteq Faults
    /\ getContacts \subseteq Faults
    /\ getDocumentById \subseteq Faults
    /\ getDocumentPreview \subseteq Faults
    /\ getDocumentTypes \subseteq Faults
    /\ getEvents \subseteq Faults
    /\ getHints \subseteq Faults
    /\ getLdapProfile \subseteq Faults
    /\ getMessage \subseteq Faults
    /\ getMessages \subseteq Faults
    /\ getPreferences \subseteq Faults
    /\ getStats \subseteq Faults
    /\ getTicketsForUser \subseteq Faults
    /\ immichProxy \subseteq Faults
    /\ listAll \subseteq Faults
    /\ listUsers \subseteq Faults
    /\ notifications \subseteq Faults
BY DEF Faults, Reported, Hidden, NoHandler, documents, getContacts, getDocumentById,
       getDocumentPreview, getDocumentTypes, getEvents, getHints, getLdapProfile,
       getMessage, getMessages, getPreferences, getStats, getTicketsForUser, immichProxy,
       listAll, listUsers, notifications

LEMMA RoutesFail ==
    /\ adminTicketsRoute.down \in Faults
    /\ adminUsersRoute.down \in Faults
    /\ contactsRoute.down \in Faults
    /\ documentPreviewRoute.down \in Faults
    /\ documentRoute.down \in Faults
    /\ documentTypesRoute.down \in Faults
    /\ documentsRoute.down \in Faults
    /\ eventsRoute.down \in Faults
    /\ financeRoute.down \in Faults
    /\ hintsRoute.down \in Faults
    /\ immichRoute.down \in Faults
    /\ ldapProfileRoute.down \in Faults
    /\ mailMessageRoute.down \in Faults
    /\ mailMessagesRoute.down \in Faults
    /\ mailStatsRoute.down \in Faults
    /\ notificationsRoute.down \in Faults
    /\ photosRoute.down \in Faults
    /\ preferencesRoute.down \in Faults
    /\ ticketsRoute.down \in Faults
    /\ treeRoute.down \in Faults
BY DEF Faults, Passes, Drops, adminTicketsRoute, adminUsersRoute, contactsRoute,
       documentPreviewRoute, documentRoute, documentTypesRoute, documentsRoute,
       eventsRoute, financeRoute, hintsRoute, immichRoute, ldapProfileRoute,
       mailMessageRoute, mailMessagesRoute, mailStatsRoute, notificationsRoute,
       photosRoute, preferencesRoute, ticketsRoute, treeRoute

\* What the proofs need to know of a page.
WellMade(p) ==
    /\ p.picks \in {One, Two} /\ p.faults \subseteq Faults
    /\ \A w \in p.writes : w.then \in {"reload", "local", "before"}
    /\ (\E w \in p.writes : w.then = "before") =>
           p.picks = One /\ ~p.more /\ \A w \in p.writes : w.then = "before"

LEMMA ViewWellMade ==
    ASSUME NEW picks \in {One, Two}, NEW faults, faults \subseteq Faults, NEW onError, NEW more,
           NEW writes,
           \/ \A w \in writes : w.then \in {"reload", "local"}
           \/ picks = One /\ more = FALSE /\ \A w \in writes : w.then = "before"
    PROVE  WellMade(View(picks, faults, onError, more, writes))
<1>1. /\ View(picks, faults, onError, more, writes).picks = picks
      /\ View(picks, faults, onError, more, writes).faults = faults
      /\ View(picks, faults, onError, more, writes).more = more
      /\ View(picks, faults, onError, more, writes).writes = writes
  BY DEF View
<1> QED
  BY <1>1 DEF WellMade

\* What each change of a page does with what is shown.
LEMMA WritesShow ==
    /\ mailDelete.then = "reload"
    /\ openMessage.then = "local"
    /\ handleUpload.then = "reload"
    /\ adminCreateUser.then = "reload"
    /\ adminDeleteUser.then = "reload"
    /\ usersCreateUser.then = "reload"
    /\ usersDeleteUser.then = "reload"
    /\ addContact.then = "reload"
    /\ calendarSave.then = "reload"
    /\ markDone.then = "reload"
    /\ delTask.then = "reload"
    /\ saveLdapAttrs.then = "before"
    /\ updatePref.then = "before"
    /\ accept.then = "local"
    /\ dismiss.then = "local"
    /\ approve.then = "reload"
    /\ reject.then = "reload"
    /\ addTransaction.then = "reload"
    /\ addSubscription.then = "reload"
    /\ toggle.then = "reload"
BY DEF Write, mailDelete, openMessage, handleUpload, adminCreateUser, adminDeleteUser,
       usersCreateUser, usersDeleteUser, addContact, calendarSave, markDone, delTask,
       saveLdapAttrs, updatePref, accept, dismiss, approve, reject, addTransaction,
       addSubscription, toggle

LEMMA PagesWellMade == \A p \in Pages : WellMade(p)
<1>1. WellMade(MailClient)
  BY HandlersFail, RoutesFail, ReadingFails, WritesShow, ViewWellMade
  DEF MailClient, fetchMessages
<1>2. WellMade(MessageDetail)
  BY HandlersFail, RoutesFail, ReadingFails, ViewWellMade
  DEF MessageDetail
<1>3. WellMade(fetchStats)
  BY HandlersFail, RoutesFail, ReadingFails, ViewWellMade
  DEF fetchStats
<1>4. WellMade(AppShell)
  BY HandlersFail, RoutesFail, ReadingFails, ViewWellMade
  DEF AppShell
<1>5. WellMade(DocsPage)
  BY HandlersFail, RoutesFail, ReadingFails, WritesShow, ViewWellMade
  DEF DocsPage, loadDocs
<1>6. WellMade(DocViewerPage)
  BY HandlersFail, RoutesFail, ReadingFails, ViewWellMade
  DEF DocViewerPage
<1>7. WellMade(AdminUsers)
  BY HandlersFail, RoutesFail, ReadingFails, WritesShow, ViewWellMade
  DEF AdminUsers
<1>8. WellMade(AdminTickets)
  BY HandlersFail, RoutesFail, ReadingFails, ViewWellMade
  DEF AdminTickets
<1>9. WellMade(UsersPage)
  BY HandlersFail, RoutesFail, ReadingFails, WritesShow, ViewWellMade
  DEF UsersPage
<1>10. WellMade(ContactsPage)
  BY HandlersFail, RoutesFail, ReadingFails, WritesShow, ViewWellMade
  DEF ContactsPage
<1>11. WellMade(PhotosGallery)
  BY HandlersFail, RoutesFail, ReadingFails, ViewWellMade
  DEF PhotosGallery, loadAssets
<1>12. WellMade(Albums)
  BY HandlersFail, RoutesFail, ReadingFails, ViewWellMade
  DEF Albums
<1>13. WellMade(CalendarClient)
  BY HandlersFail, RoutesFail, ReadingFails, WritesShow, ViewWellMade
  DEF CalendarClient
<1>14. WellMade(TasksClient)
  BY HandlersFail, RoutesFail, ReadingFails, WritesShow, ViewWellMade
  DEF TasksClient
<1>15. WellMade(HomeTab)
  BY HandlersFail, RoutesFail, ReadingFails, ViewWellMade
  DEF HomeTab
<1>16. WellMade(ProfileTab)
  BY HandlersFail, RoutesFail, ReadingFails, WritesShow, ViewWellMade
  DEF ProfileTab
<1>17. WellMade(HintsList)
  BY HandlersFail, RoutesFail, ReadingFails, WritesShow, ViewWellMade
  DEF HintsList
<1>18. WellMade(FinanceTransactions)
  BY HandlersFail, RoutesFail, ReadingFails, WritesShow, ViewWellMade
  DEF FinanceTransactions
<1>19. WellMade(FinanceSubscriptions)
  BY HandlersFail, RoutesFail, ReadingFails, WritesShow, ViewWellMade
  DEF FinanceSubscriptions
<1>20. WellMade(FinanceOverview)
  BY HandlersFail, RoutesFail, ReadingFails, ViewWellMade
  DEF FinanceOverview
<1> QED
  BY <1>1, <1>2, <1>3, <1>4, <1>5, <1>6, <1>7, <1>8, <1>9, <1>10, <1>11, <1>12, <1>13,
     <1>14, <1>15, <1>16, <1>17, <1>18, <1>19, <1>20
  DEF Pages, Unserved

LEMMA PageFacts ==
    ASSUME PageTypeOK
    PROVE  /\ page \in Pages /\ WellMade(page) /\ page.picks \in {One, Two}
           /\ \A s \in page.picks : s \in Two
           /\ loads \in Seq(Loads) /\ Len(loads) \in Nat /\ DOMAIN loads = 1 .. Len(loads)
           /\ \A i \in DOMAIN loads : loads[i] \in Loads /\ i \in Nat
           /\ newest \in Nat /\ changes \in Nat
           /\ \A s \in page.picks : stored[s] \in Nat /\ late[s] \in Nat
           /\ change # NoChange => /\ change \in Changes /\ change.what \in page.writes
                                   /\ change.at \in page.picks /\ change.tries \in Nat \ {0}
<1>1. page \in Pages /\ WellMade(page)
  BY PagesWellMade DEF PageTypeOK
<1>2. page.picks \in {One, Two}
  BY <1>1 DEF WellMade
<1>3. \A s \in page.picks : s \in Two
  BY <1>2 DEF One, Two
<1>4. loads \in Seq(Loads) /\ Len(loads) \in Nat /\ DOMAIN loads = 1 .. Len(loads)
  BY DEF PageTypeOK
<1>5. \A i \in DOMAIN loads : loads[i] \in Loads /\ i \in Nat
  BY <1>4
<1>6. newest \in Nat /\ changes \in Nat
  BY <1>4, PageAssumption DEF PageTypeOK
<1>7. \A s \in page.picks : stored[s] \in Nat /\ late[s] \in Nat
  BY DEF PageTypeOK
<1>8. change # NoChange => /\ change \in Changes /\ change.what \in page.writes
                           /\ change.at \in page.picks /\ change.tries \in Nat \ {0}
  BY PageAssumption DEF PageTypeOK, Changes
<1> QED
  BY <1>1, <1>2, <1>3, <1>4, <1>5, <1>6, <1>7, <1>8

LEMMA LoadIs ==
    ASSUME NEW of \in Two, NEW more \in BOOLEAN, NEW moved \in BOOLEAN
    PROVE  /\ Load(of, more, moved) \in Loads
           /\ Load(of, more, moved).of = of /\ Load(of, more, moved).more = more
           /\ Load(of, more, moved).moved = moved /\ Load(of, more, moved).got = "asked"
BY DEF Load, Loads

LEMMA TriesIs == Tries \in Nat \ {0}
BY PageAssumption DEF Tries

LEMMA Product ==
    ASSUME NEW c \in Nat, NEW k \in Nat
    PROVE  c * k \in Nat /\ (c + 1) * k = c * k + k
OBVIOUS

\* One load more.
LEMMA LoadAdded ==
    ASSUME PageTypeOK, NEW l \in Loads, loads' = Append(loads, l)
    PROVE  /\ loads' \in Seq(Loads) /\ Len(loads') = Len(loads) + 1
           /\ \A i \in DOMAIN loads : i \in DOMAIN loads' /\ loads'[i] = loads[i] /\ i < Len(loads')
           /\ Len(loads') \in DOMAIN loads' /\ loads'[Len(loads')] = l
           /\ \A i \in DOMAIN loads' : i \in DOMAIN loads \/ i = Len(loads')
<1>1. PICK n \in Nat : n = Len(loads) /\ DOMAIN loads = 1 .. n
  BY PageFacts
<1>2. /\ loads' \in Seq(Loads) /\ Len(loads') = n + 1 /\ loads'[n + 1] = l
      /\ \A i \in 1 .. n : loads'[i] = loads[i]
  BY <1>1, PageFacts, AppendProperties
<1>3. DOMAIN loads' = 1 .. (n + 1)
  BY <1>2
<1>4. /\ \A i \in 1 .. n : i \in 1 .. (n + 1) /\ i < n + 1
      /\ n + 1 \in 1 .. (n + 1) /\ \A i \in 1 .. (n + 1) : i \in 1 .. n \/ i = n + 1
  OBVIOUS
<1> QED
  BY <1>1, <1>2, <1>3, <1>4

\* What a load is for does not change.
SamePlans ==
    /\ loads' \in Seq(Loads) /\ Len(loads') = Len(loads) /\ DOMAIN loads' = DOMAIN loads
    /\ \A i \in DOMAIN loads : /\ loads'[i].of = loads[i].of /\ loads'[i].more = loads[i].more
                               /\ loads'[i].moved = loads[i].moved

LEMMA LoadChanged ==
    ASSUME PageTypeOK, NEW i \in DOMAIN loads, NEW l \in Loads,
           l.of = loads[i].of, l.more = loads[i].more, l.moved = loads[i].moved,
           loads' = [loads EXCEPT ![i] = l]
    PROVE  /\ SamePlans /\ loads'[i] = l
           /\ \A j \in DOMAIN loads : j # i => loads'[j] = loads[j]
<1>1. loads \in Seq(Loads) /\ DOMAIN loads = 1 .. Len(loads)
  BY PageFacts
<1>2. /\ loads' \in Seq(Loads) /\ Len(loads') = Len(loads)
      /\ \A j \in 1 .. Len(loads) : loads'[j] = IF j = i THEN l ELSE loads[j]
  BY <1>1, ExceptSeq
<1>3. DOMAIN loads' = DOMAIN loads
  BY <1>1, <1>2
<1> QED
  BY <1>1, <1>2, <1>3 DEF SamePlans

LEMMA Executions ==
    ASSUME PageTypeOK, NEW at \in page.picks, Executed(at)
    PROVE  /\ SamePlans
           /\ \A i \in DOMAIN loads : /\ loads'[i].got = loads[i].got
                                      /\ loads'[i].got \in {"with", "without"} => loads'[i].old
           /\ stored' \in [page.picks -> Nat] /\ stored'[at] = stored[at] + 1
           /\ \A s \in page.picks : s # at => stored'[s] = stored[s]
<1>1. /\ stored' = [stored EXCEPT ![at] = @ + 1]
      /\ loads' = [i \in DOMAIN loads |->
                      [loads[i] EXCEPT !.old = @ \/ loads[i].got \notin {"asked", "ended"}]]
  BY DEF Executed
<1>2. \A i \in DOMAIN loads :
          /\ loads'[i] \in Loads /\ loads'[i].of = loads[i].of /\ loads'[i].more = loads[i].more
          /\ loads'[i].moved = loads[i].moved /\ loads'[i].got = loads[i].got
          /\ loads'[i].old = (loads[i].old \/ loads[i].got \notin {"asked", "ended"})
  <2> SUFFICES ASSUME NEW i \in DOMAIN loads
               PROVE  /\ loads'[i] \in Loads /\ loads'[i].of = loads[i].of
                      /\ loads'[i].more = loads[i].more /\ loads'[i].moved = loads[i].moved
                      /\ loads'[i].got = loads[i].got
                      /\ loads'[i].old = (loads[i].old \/ loads[i].got \notin {"asked", "ended"})
    OBVIOUS
  <2>1. loads[i] \in Loads
    BY PageFacts
  <2> DEFINE b == loads[i].old \/ loads[i].got \notin {"asked", "ended"}
  <2>2. loads'[i] = [loads[i] EXCEPT !.old = b]
    BY <1>1
  <2>3. b \in BOOLEAN
    OBVIOUS
  <2> HIDE DEF b
  <2>4. /\ loads'[i] \in Loads /\ loads'[i].of = loads[i].of
        /\ loads'[i].more = loads[i].more /\ loads'[i].moved = loads[i].moved
        /\ loads'[i].got = loads[i].got /\ loads'[i].old = b
    BY <2>1, <2>2, <2>3 DEF Loads
  <2> QED
    BY <2>4 DEF b
<1>3. loads' \in Seq(Loads) /\ Len(loads') = Len(loads) /\ DOMAIN loads' = DOMAIN loads
  <2>1. PICK n \in Nat : n = Len(loads) /\ DOMAIN loads = 1 .. n
    BY PageFacts
  <2>2. loads' \in [1 .. n -> Loads]
    BY <1>1, <1>2, <2>1
  <2>3. loads' \in Seq(Loads)
    BY <2>2, SeqDef
  <2> QED
    BY <2>1, <2>2, <2>3, LenProperties
<1>4. /\ stored' \in [page.picks -> Nat] /\ stored'[at] = stored[at] + 1
      /\ \A s \in page.picks : s # at => stored'[s] = stored[s]
  BY <1>1 DEF PageTypeOK
<1> QED
  BY <1>2, <1>3, <1>4 DEF SamePlans

LEMMA StillLast ==
    ASSUME LastIsPicked, SamePlans, UNCHANGED picked
    PROVE  LastIsPicked'
BY DEF LastIsPicked, SamePlans

\* A change by the page itself.
LEMMA AppliedIs ==
    ASSUME PageTypeOK, NEW at
    PROVE  /\ Applied(at) \in [of : SUBSET page.picks, has : BOOLEAN]
           /\ Applied(at).of = display.of
           /\ Applied(at).has <=> display.has \/ display.of = {at}
BY DEF PageTypeOK, Applied

LEMMA PageStart == PageInit => PageInv
<1> SUFFICES ASSUME PageInit PROVE PageInv
  OBVIOUS
<1>0. page \in Pages /\ WellMade(page)
  BY PagesWellMade DEF PageInit
<1>1. page.picks \in {One, Two} /\ "a" \in page.picks
  BY <1>0 DEF WellMade, One, Two
<1>2. PICK l \in Loads : /\ l = Load("a", FALSE, FALSE) /\ l.of = "a" /\ ~l.more /\ ~l.moved
                         /\ l.got = "asked"
  <2>1. "a" \in Two
    BY DEF Two
  <2> QED
    BY <2>1, LoadIs
<1>3. loads = <<l>>
  BY <1>2 DEF PageInit
<1>4. loads \in Seq(Loads) /\ Len(loads) = 1 /\ DOMAIN loads = {1} /\ loads[1] = l
  BY <1>3
<1>5. PageTypeOK
  <2>1. loads[1].of \in page.picks
    BY <1>1, <1>2, <1>4
  <2>2. Len(loads) <= MaxLoads /\ 0 \in 0 .. Len(loads) /\ 0 \in 0 .. MaxChanges
    BY <1>4, PageAssumption
  <2> QED
    BY <1>0, <1>1, <1>4, <2>1, <2>2 DEF PageInit, PageTypeOK
<1>6. LastIsPicked /\ NewestIsNewest /\ ServedAsStored
  BY <1>2, <1>4 DEF PageInit, LastIsPicked, NewestIsNewest, ServedAsStored
<1>7. ~AllArrived
  BY <1>2, <1>4 DEF AllArrived
<1>8. ShowsPicked
  BY <1>7 DEF ShowsPicked
<1>9. ShowsBefore
  BY <1>4 DEF PageInit, ShowsBefore
<1>10. EachSending
  <2>1. 0 * Tries = 0
    BY TriesIs
  <2> QED
    BY <2>1 DEF PageInit, EachSending
<1> QED
  BY <1>5, <1>6, <1>8, <1>9, <1>10 DEF PageInv

\* What a new load for what is then picked keeps.
LEMMA LoadStarts ==
    ASSUME PageInv, NEW l \in Loads, l.of \in page.picks, l.got = "asked",
           loads' = Append(loads, l), Len(loads) < MaxLoads, UNCHANGED <<page, stored, newest>>,
           l.of = picked' \/ l.moved, l.more => UNCHANGED picked
    PROVE  /\ loads' \in Seq(Loads) /\ Len(loads') <= MaxLoads /\ newest' \in 0 .. Len(loads')
           /\ \A i \in DOMAIN loads' : loads'[i].of \in page.picks
           /\ LastIsPicked' /\ NewestIsNewest' /\ ServedAsStored'
           /\ ~l.more => ~AllArrived'
           /\ AllArrived' => AllArrived
<1>0. PageTypeOK
  BY DEF PageInv
<1>1. /\ loads' \in Seq(Loads) /\ Len(loads') = Len(loads) + 1
      /\ \A i \in DOMAIN loads : i \in DOMAIN loads' /\ loads'[i] = loads[i] /\ i < Len(loads')
      /\ Len(loads') \in DOMAIN loads' /\ loads'[Len(loads')] = l
      /\ \A i \in DOMAIN loads' : i \in DOMAIN loads \/ i = Len(loads')
  BY <1>0, LoadAdded
<1>2. Len(loads') <= MaxLoads /\ newest' \in 0 .. Len(loads')
  <2>1. Len(loads) \in Nat /\ newest \in 0 .. Len(loads)
    BY <1>0, PageFacts DEF PageTypeOK
  <2> QED
    BY <1>1, <2>1, PageAssumption
<1>3. \A i \in DOMAIN loads' : loads'[i].of \in page.picks
  BY <1>0, <1>1 DEF PageTypeOK
<1>4. LastIsPicked'
  <2> SUFFICES ASSUME NEW i \in DOMAIN loads'
               PROVE  \/ loads'[i].of = picked' \/ loads'[i].moved
                      \/ \E j \in DOMAIN loads' : j > i /\ ~loads'[j].more
    BY DEF LastIsPicked
  <2>1. CASE i = Len(loads')
    BY <1>1, <2>1
  <2>2. CASE i \in DOMAIN loads /\ ~l.more
    <3>1. Len(loads') > i
      <4>1. i < Len(loads') /\ i \in Nat /\ Len(loads') \in Nat
        BY <1>0, <1>1, <2>2, PageFacts
      <4> QED
        BY <4>1
    <3> QED
      BY <1>1, <2>2, <3>1
  <2>3. CASE i \in DOMAIN loads /\ l.more
    <3>1. \/ loads[i].of = picked \/ loads[i].moved
          \/ \E j \in DOMAIN loads : j > i /\ ~loads[j].more
      BY <2>3 DEF PageInv, LastIsPicked
    <3> QED
      BY <1>1, <2>3, <3>1
  <2> QED
    BY <1>1, <2>1, <2>2, <2>3
<1>5. NewestIsNewest'
  BY <1>1 DEF PageInv, NewestIsNewest
<1>6. ServedAsStored'
  BY <1>1 DEF PageInv, ServedAsStored
<1>7. ~l.more => ~AllArrived'
  BY <1>1 DEF AllArrived
<1>8. AllArrived' => AllArrived
  BY <1>1 DEF AllArrived
<1> QED
  BY <1>1, <1>2, <1>3, <1>4, <1>5, <1>6, <1>7, <1>8

\* A page that shows a change before it is made has one thing to pick.
LEMMA NothingElse ==
    ASSUME PageTypeOK, NEW w \in page.writes, w.then = "before"
    PROVE  page.picks = One /\ ~page.more /\ \A v \in page.writes : v.then = "before"
BY PageFacts DEF WellMade

LEMMA PagePicks == \A s \in page.picks : PageInv /\ Pick(s) => PageInv'
<1> SUFFICES ASSUME NEW s \in page.picks, PageInv, Pick(s) PROVE PageInv'
  OBVIOUS
<1>0. PageTypeOK
  BY DEF PageInv
<1>1. /\ s # picked /\ Len(loads) < MaxLoads /\ picked' = s
      /\ loads' = Append(loads, Load(s, FALSE, FALSE)) /\ loading' = TRUE
      /\ UNCHANGED <<page, display, stored, change, changes, newest, late, why>>
  BY DEF Pick
<1>2. PICK l \in Loads : /\ l = Load(s, FALSE, FALSE) /\ l.of = s /\ ~l.more /\ l.got = "asked"
  <2>1. s \in Two
    BY <1>0, PageFacts
  <2> QED
    BY <2>1, LoadIs
<1>3. /\ loads' \in Seq(Loads) /\ Len(loads') <= MaxLoads /\ newest' \in 0 .. Len(loads')
      /\ \A i \in DOMAIN loads' : loads'[i].of \in page.picks
      /\ LastIsPicked' /\ NewestIsNewest' /\ ServedAsStored' /\ ~AllArrived'
  BY <1>1, <1>2, LoadStarts
<1>4. PageTypeOK'
  BY <1>0, <1>1, <1>3 DEF PageTypeOK
<1>5. ShowsPicked'
  BY <1>3 DEF ShowsPicked
<1>6. ShowsBefore'
  <2>1. ASSUME NEW w \in page.writes, w.then = "before" PROVE FALSE
    <3>1. page.picks = {"a"}
      BY <1>0, <2>1, NothingElse DEF One
    <3> QED
      BY <1>0, <1>1, <3>1 DEF PageTypeOK
  <2> QED
    BY <1>1, <2>1 DEF ShowsBefore
<1>7. EachSending'
  BY <1>1 DEF PageInv, EachSending, Tries, Sent
<1> QED
  BY <1>3, <1>4, <1>5, <1>6, <1>7 DEF PageInv

LEMMA PageLoadsMore == PageInv /\ LoadMore => PageInv'
<1> SUFFICES ASSUME PageInv, LoadMore PROVE PageInv'
  OBVIOUS
<1>0. PageTypeOK
  BY DEF PageInv
<1>1. /\ page.more /\ Len(loads) < MaxLoads
      /\ loads' = Append(loads, Load(picked, TRUE, FALSE))
      /\ UNCHANGED <<page, picked, display, loading, stored, change, changes, newest, late, why>>
  BY DEF LoadMore
<1>2. PICK l \in Loads : /\ l = Load(picked, TRUE, FALSE) /\ l.of = picked /\ l.more /\ l.got = "asked"
                         /\ picked \in page.picks
  <2>1. picked \in page.picks /\ picked \in Two
    BY <1>0, PageFacts DEF PageTypeOK
  <2> QED
    BY <2>1, LoadIs
<1>3. /\ loads' \in Seq(Loads) /\ Len(loads') <= MaxLoads /\ newest' \in 0 .. Len(loads')
      /\ \A i \in DOMAIN loads' : loads'[i].of \in page.picks
      /\ LastIsPicked' /\ NewestIsNewest' /\ ServedAsStored' /\ (AllArrived' => AllArrived)
  BY <1>1, <1>2, LoadStarts
<1>4. PageTypeOK'
  BY <1>0, <1>1, <1>3 DEF PageTypeOK
<1>5. ShowsPicked'
  BY <1>1, <1>3 DEF PageInv, ShowsPicked
<1>6. ShowsBefore'
  <2>1. ASSUME NEW w \in page.writes, w.then = "before" PROVE FALSE
    BY <1>0, <1>1, <2>1, NothingElse
  <2> QED
    BY <1>1, <2>1 DEF ShowsBefore
<1>7. EachSending'
  BY <1>1 DEF PageInv, EachSending, Tries, Sent
<1> QED
  BY <1>3, <1>4, <1>5, <1>6, <1>7 DEF PageInv

LEMMA PageServed == \A i \in DOMAIN loads : PageInv /\ Serve(i) => PageInv'
<1> SUFFICES ASSUME NEW i \in DOMAIN loads, PageInv, Serve(i) PROVE PageInv'
  OBVIOUS
<1>0. PageTypeOK
  BY DEF PageInv
<1>1. /\ loads[i].got = "asked"
      /\ UNCHANGED <<page, picked, display, loading, stored, change, changes, newest, late, why>>
  BY DEF Serve
<1>2. PICK got \in Faults \cup {IF stored[loads[i].of] > 0 THEN "with" ELSE "without"} :
          loads' = [loads EXCEPT ![i].got = got]
  <2>1. page.faults \subseteq Faults
    BY <1>0, PageFacts DEF WellMade
  <2> QED
    BY <2>1 DEF Serve
<1>3. /\ got \in {"with", "without", "error", "empty"}
      /\ got = "with" => stored[loads[i].of] > 0
      /\ got = "without" => stored[loads[i].of] = 0
  <2>1. stored[loads[i].of] \in Nat
    BY <1>0, PageFacts DEF PageTypeOK
  <2> QED
    BY <1>2, <2>1 DEF Faults
<1>4. PICK l \in Loads : /\ l = [loads[i] EXCEPT !.got = got]
                         /\ l.of = loads[i].of /\ l.more = loads[i].more /\ l.moved = loads[i].moved
                         /\ l.got = got
  <2>1. loads[i] \in Loads
    BY <1>0, PageFacts
  <2>2. /\ [loads[i] EXCEPT !.got = got] \in Loads
        /\ [loads[i] EXCEPT !.got = got].of = loads[i].of
        /\ [loads[i] EXCEPT !.got = got].more = loads[i].more
        /\ [loads[i] EXCEPT !.got = got].moved = loads[i].moved
        /\ [loads[i] EXCEPT !.got = got].got = got
    BY <1>3, <2>1 DEF Loads
  <2> QED
    BY <2>2
<1>5. loads' = [loads EXCEPT ![i] = l]
  BY <1>2, <1>4
<1>6. /\ SamePlans /\ loads'[i] = l
      /\ \A j \in DOMAIN loads : j # i => loads'[j] = loads[j]
  BY <1>0, <1>4, <1>5, LoadChanged
<1>7. PageTypeOK'
  BY <1>0, <1>1, <1>6 DEF PageTypeOK, SamePlans
<1>8. LastIsPicked'
  BY <1>1, <1>6, StillLast DEF PageInv
<1>9. NewestIsNewest'
  BY <1>1, <1>3, <1>4, <1>6 DEF PageInv, NewestIsNewest, SamePlans
<1>10. ServedAsStored'
  <2> SUFFICES ASSUME NEW j \in DOMAIN loads
               PROVE  /\ loads'[j].got = "with" /\ ~loads'[j].old => stored[loads'[j].of] > 0
                      /\ loads'[j].got = "without" /\ ~loads'[j].old => stored[loads'[j].of] = 0
    BY <1>1, <1>6 DEF ServedAsStored, SamePlans
  <2>1. CASE j = i
    BY <1>3, <1>4, <1>6, <2>1
  <2>2. CASE j # i
    BY <1>6, <2>2 DEF PageInv, ServedAsStored
  <2> QED
    BY <2>1, <2>2
<1>11. AllArrived' => AllArrived
  <2> SUFFICES ASSUME AllArrived', NEW j \in DOMAIN loads
               PROVE  loads[j].more \/ loads[j].got = "ended"
    BY DEF AllArrived
  <2>1. loads'[j].more \/ loads'[j].got = "ended"
    BY <1>6 DEF AllArrived, SamePlans
  <2>2. CASE j = i
    BY <1>3, <1>4, <1>6, <2>1, <2>2
  <2>3. CASE j # i
    BY <1>6, <2>1, <2>3
  <2> QED
    BY <2>2, <2>3
<1>12. ShowsPicked'
  BY <1>1, <1>11 DEF PageInv, ShowsPicked
<1>13. ShowsBefore'
  <2>1. loads[1].got = "ended" => loads'[1].got = "ended"
    <3>1. CASE i = 1
      BY <1>1, <3>1
    <3>2. CASE i # 1 /\ 1 \in DOMAIN loads
      BY <1>6, <3>2
    <3>3. CASE 1 \notin DOMAIN loads
      <4>1. i \in 1 .. Len(loads) /\ Len(loads) \in Nat
        BY <1>0, PageFacts
      <4>2. 1 \in 1 .. Len(loads)
        BY <4>1
      <4> QED
        BY <1>0, <3>3, <4>2, PageFacts
    <3> QED
      BY <3>1, <3>2, <3>3
  <2> QED
    BY <1>1, <1>6, <2>1 DEF PageInv, ShowsBefore, SamePlans
<1>14. EachSending'
  BY <1>1 DEF PageInv, EachSending, Tries, Sent
<1> QED
  BY <1>7, <1>8, <1>9, <1>10, <1>12, <1>13, <1>14 DEF PageInv

LEMMA PageArrives == \A i \in DOMAIN loads : PageInv /\ Arrive(i) => PageInv'
<1> SUFFICES ASSUME NEW i \in DOMAIN loads, PageInv, Arrive(i) PROVE PageInv'
  OBVIOUS
<1>0. PageTypeOK
  BY DEF PageInv
<1>1. /\ loads[i].got \notin {"asked", "ended"}
      /\ loads' = [loads EXCEPT ![i].got = "ended", ![i].old = FALSE]
      /\ loading' = FALSE
      /\ newest' = IF i > newest THEN i ELSE newest
      /\ UNCHANGED <<page, picked, stored, change, changes, late>>
  BY DEF Arrive
<1>2. PICK what \in IF loads[i].got = "error" THEN page.onError ELSE {loads[i].got} :
          display' = Shows(loads[i], what)
  BY DEF Arrive
<1>3. why' = IF loads[i].got \in {"error", "empty"}
             THEN why \cup {IF loads[i].got = "error" THEN "failed" ELSE "masked"}
             ELSE IF Doubts(i) # {} \/ loads[i].more THEN why \cup Doubts(i) ELSE {}
  BY DEF Arrive
<1>4. loads[i] \in Loads /\ i \in 1 .. Len(loads) /\ Len(loads) \in Nat /\ i \in Nat
      /\ newest \in 0 .. Len(loads) /\ loads[i].of \in page.picks
  BY <1>0, PageFacts DEF PageTypeOK
<1>5. PICK l \in Loads : /\ l = [loads[i] EXCEPT !.got = "ended", !.old = FALSE]
                         /\ l.of = loads[i].of /\ l.more = loads[i].more /\ l.moved = loads[i].moved
                         /\ l.got = "ended"
  <2>1. /\ [loads[i] EXCEPT !.got = "ended", !.old = FALSE] \in Loads
        /\ [loads[i] EXCEPT !.got = "ended", !.old = FALSE].of = loads[i].of
        /\ [loads[i] EXCEPT !.got = "ended", !.old = FALSE].more = loads[i].more
        /\ [loads[i] EXCEPT !.got = "ended", !.old = FALSE].moved = loads[i].moved
        /\ [loads[i] EXCEPT !.got = "ended", !.old = FALSE].got = "ended"
    BY <1>4 DEF Loads
  <2> QED
    BY <2>1
<1>6. loads' = [loads EXCEPT ![i] = l]
  BY <1>1, <1>5
<1>7. /\ SamePlans /\ loads'[i] = l
      /\ \A j \in DOMAIN loads : j # i => loads'[j] = loads[j]
  BY <1>0, <1>5, <1>6, LoadChanged
<1>8. newest' \in 0 .. Len(loads) /\ i <= newest' /\ newest <= newest' /\ newest' \in Nat
  BY <1>1, <1>4
<1>9. display' \in [of : SUBSET page.picks, has : BOOLEAN]
  <2>1. display \in [of : SUBSET page.picks, has : BOOLEAN]
    BY <1>0 DEF PageTypeOK
  <2>2. CASE what = "keep"
    BY <1>2, <2>1, <2>2 DEF Shows
  <2>3. CASE what # "keep"
    <3>1. display' = [of |-> IF loads[i].more THEN display.of \cup {loads[i].of} ELSE {loads[i].of},
                      has |-> what = "with"]
      BY <1>2, <2>3 DEF Shows
    <3>2. (IF loads[i].more THEN display.of \cup {loads[i].of} ELSE {loads[i].of}) \subseteq page.picks
      BY <1>4, <2>1
    <3> QED
      BY <3>1, <3>2
  <2> QED
    BY <2>2, <2>3
<1>10. why' \subseteq {"failed", "masked", "overtaken", "outrun", "moved", "late"}
  <2>1. Doubts(i) \subseteq {"overtaken", "outrun", "moved"}
    BY DEF Doubts
  <2> QED
    BY <1>0, <1>3, <2>1 DEF PageTypeOK
<1>11. PageTypeOK'
  BY <1>0, <1>1, <1>7, <1>8, <1>9, <1>10 DEF PageTypeOK, SamePlans
<1>12. LastIsPicked'
  BY <1>1, <1>7, StillLast DEF PageInv
<1>13. NewestIsNewest'
  <2> SUFFICES ASSUME NEW j \in DOMAIN loads, loads'[j].got = "ended" PROVE j <= newest'
    BY <1>7 DEF NewestIsNewest, SamePlans
  <2>1. CASE j = i
    BY <1>8, <2>1
  <2>2. CASE j # i
    <3>1. j <= newest /\ j \in Nat
      BY <1>0, <1>7, <2>2, PageFacts DEF PageInv, NewestIsNewest
    <3> QED
      BY <1>4, <1>8, <3>1
  <2> QED
    BY <2>1, <2>2
<1>14. ServedAsStored'
  <2> SUFFICES ASSUME NEW j \in DOMAIN loads
               PROVE  /\ loads'[j].got = "with" /\ ~loads'[j].old => stored[loads'[j].of] > 0
                      /\ loads'[j].got = "without" /\ ~loads'[j].old => stored[loads'[j].of] = 0
    BY <1>1, <1>7 DEF ServedAsStored, SamePlans
  <2>1. CASE j = i
    BY <1>5, <1>7, <2>1
  <2>2. CASE j # i
    BY <1>7, <2>2 DEF PageInv, ServedAsStored
  <2> QED
    BY <2>1, <2>2
<1>15. ShowsPicked'
  <2> SUFFICES ASSUME why' = {}, AllArrived'
               PROVE  display'.of = {picked} /\ (display'.has <=> stored[picked] > 0)
    BY <1>1 DEF ShowsPicked
  <2>1. loads[i].got \in {"with", "without"}
    BY <1>1, <1>3, <1>4 DEF Loads
  <2>2. Doubts(i) = {} /\ (loads[i].more => why = {})
    BY <1>3, <2>1
  <2>3. ~(i < newest) /\ ~loads[i].old /\ ~loads[i].moved
    BY <2>2 DEF Doubts
  <2>4. ASSUME NEW j \in DOMAIN loads, ~loads[j].more, j # i PROVE j <= newest
    <3>1. loads'[j].more = loads[j].more /\ (loads'[j].more \/ loads'[j].got = "ended")
      BY <1>7 DEF AllArrived, SamePlans
    <3> QED
      BY <1>7, <2>4, <3>1 DEF PageInv, NewestIsNewest
  <2>5. \A j \in DOMAIN loads : j > i => loads[j].more
    <3> SUFFICES ASSUME NEW j \in DOMAIN loads, j > i, ~loads[j].more PROVE FALSE
      OBVIOUS
    <3>1. j \in Nat /\ j # i
      BY <1>0, <1>4, PageFacts
    <3> QED
      BY <1>4, <2>3, <2>4, <3>1
  <2>6. loads[i].of = picked
    BY <2>3, <2>5 DEF PageInv, LastIsPicked
  <2>7. loads[i].got = "with" <=> stored[picked] > 0
    BY <2>1, <2>3, <2>6 DEF PageInv, ServedAsStored
  <2>8. what = loads[i].got /\ what # "keep"
    BY <2>1
  <2>9. display' = [of |-> IF loads[i].more THEN display.of \cup {picked} ELSE {picked},
                    has |-> loads[i].got = "with"]
    BY <1>2, <2>6, <2>8 DEF Shows
  <2>10. CASE loads[i].more
    <3>1. AllArrived
      <4> SUFFICES ASSUME NEW j \in DOMAIN loads PROVE loads[j].more \/ loads[j].got = "ended"
        BY DEF AllArrived
      <4>1. loads'[j].more \/ loads'[j].got = "ended"
        BY <1>7 DEF AllArrived, SamePlans
      <4>2. CASE j = i
        BY <2>10, <4>2
      <4>3. CASE j # i
        BY <1>7, <4>1, <4>3
      <4> QED
        BY <4>2, <4>3
    <3>2. display.of = {picked}
      BY <2>2, <2>10, <3>1 DEF PageInv, ShowsPicked
    <3> QED
      BY <2>7, <2>9, <3>2
  <2>11. CASE ~loads[i].more
    BY <2>7, <2>9, <2>11
  <2> QED
    BY <2>10, <2>11
<1>16. ShowsBefore'
  <2> SUFFICES ASSUME NEW w \in page.writes, w.then = "before"
               PROVE  /\ Len(loads) = 1 /\ loads'[1].got = "ended" /\ change = NoChange
    BY <1>1, <1>7 DEF ShowsBefore, SamePlans
  <2>1. Len(loads) = 1 /\ (change # NoChange => loads[1].got = "ended")
    BY DEF PageInv, ShowsBefore
  <2>2. i = 1
    BY <1>4, <2>1
  <2> QED
    BY <1>1, <1>5, <1>7, <2>1, <2>2
<1>17. EachSending'
  BY <1>1 DEF PageInv, EachSending, Tries, Sent
<1> QED
  BY <1>11, <1>12, <1>13, <1>14, <1>15, <1>16, <1>17 DEF PageInv


\* What a newer answer in what is shown keeps.
LEMMA StillNewest ==
    ASSUME PageInv, UNCHANGED loads, newest' \in {newest, Len(loads)}
    PROVE  NewestIsNewest' /\ newest' \in 0 .. Len(loads)
<1>1. newest \in 0 .. Len(loads) /\ Len(loads) \in Nat /\ DOMAIN loads = 1 .. Len(loads)
  BY PageFacts DEF PageInv, PageTypeOK
<1>2. newest' \in 0 .. Len(loads) /\ newest <= newest'
  BY <1>1
<1>3. NewestIsNewest'
  <2> SUFFICES ASSUME NEW i \in DOMAIN loads, loads[i].got = "ended" PROVE i <= newest'
    BY DEF NewestIsNewest
  <2>1. i <= newest /\ i \in Nat
    BY <1>1 DEF PageInv, NewestIsNewest
  <2> QED
    BY <1>1, <1>2, <2>1
<1> QED
  BY <1>2, <1>3

LEMMA PageStartsChange == \A w \in page.writes : PageInv /\ StartChange(w) => PageInv'
<1> SUFFICES ASSUME NEW w \in page.writes, PageInv, StartChange(w) PROVE PageInv'
  OBVIOUS
<1>0. PageTypeOK
  BY DEF PageInv
<1>1. /\ change = NoChange /\ changes < MaxChanges
      /\ w.then # "reload" => ~loading
      /\ changes' = changes + 1
      /\ UNCHANGED <<page, picked, loading, stored, loads, late, why>>
  BY DEF StartChange
<1>2. IF w.then = "before" THEN display' = Applied(picked) /\ newest' = Len(loads)
                           ELSE UNCHANGED <<display, newest>>
  BY DEF StartChange
<1>3. PICK c \in Changes : /\ c = change' /\ c.what = w /\ c.at = picked /\ c.tries = 1 /\ c.sent
  <2>1. page \in Pages /\ picked \in Two
    BY <1>0, PageFacts DEF PageTypeOK
  <2>2. w \in UNION {p.writes : p \in Pages}
    BY <2>1
  <2>3. 1 \in 1 .. 1 + MAX_RETRIES
    BY PageAssumption
  <2>4. [what |-> w, at |-> picked, tries |-> 1, answer |-> "none", sent |-> TRUE] \in Changes
    BY <2>1, <2>2, <2>3 DEF Changes
  <2> QED
    BY <2>4 DEF StartChange
<1>4. c # NoChange
  BY PageAssumption
<1>5. display' \in [of : SUBSET page.picks, has : BOOLEAN] /\ display'.of = display.of
  BY <1>0, <1>2, AppliedIs DEF PageTypeOK
<1>6. NewestIsNewest' /\ newest' \in 0 .. Len(loads)
  BY <1>1, <1>2, StillNewest
<1>7. changes' \in 0 .. MaxChanges /\ changes \in Nat
  BY <1>0, <1>1, PageAssumption DEF PageTypeOK
<1>8. PageTypeOK'
  BY <1>0, <1>1, <1>3, <1>5, <1>6, <1>7 DEF PageTypeOK
<1>9. LastIsPicked' /\ ServedAsStored'
  BY <1>1 DEF PageInv, LastIsPicked, ServedAsStored
<1>10. ShowsPicked'
  BY <1>1, <1>3, <1>4, <1>5 DEF PageInv, ShowsPicked, AllArrived
<1>11. ShowsBefore'
  <2> SUFFICES ASSUME NEW v \in page.writes, v.then = "before"
               PROVE  /\ Len(loads) = 1 /\ loads[1].got = "ended"
                      /\ display'.of = {picked} => display'.has
    BY <1>1 DEF ShowsBefore
  <2>1. w.then = "before"
    BY <1>0, NothingElse
  <2>2. Len(loads) = 1 /\ loads[1].got = "ended"
    BY <1>1, <2>1 DEF PageInv, ShowsBefore
  <2>3. display' = Applied(picked)
    BY <1>2, <2>1
  <2> QED
    BY <1>0, <2>2, <2>3, AppliedIs
<1>12. EachSending'
  <2>1. \A s \in page.picks : stored[s] + late[s] <= changes * Tries
    BY <1>1 DEF PageInv, EachSending
  <2>2. Tries' = Tries /\ Tries \in Nat \ {0}
    BY <1>1, TriesIs DEF Tries
  <2>3. Sent' = 0
    BY <1>3 DEF Sent
  <2>4. changes' - 1 = changes /\ changes' >= 1
    BY <1>1, <1>7
  <2>5. changes * Tries \in Nat /\ 1 <= Tries
    BY <1>7, <2>2, Product
  <2>6. \A s \in page.picks : stored[s] + late[s] <= (changes' - 1) * Tries' + Sent'
    BY <2>1, <2>2, <2>3, <2>4, <2>5
  <2> QED
    BY <1>1, <1>3, <1>4, <2>2, <2>4, <2>5, <2>6 DEF EachSending
<1> QED
  BY <1>6, <1>8, <1>9, <1>10, <1>11, <1>12 DEF PageInv

\* What an execution keeps.
LEMMA StillServed ==
    ASSUME PageInv, NEW at \in page.picks, Executed(at), UNCHANGED <<picked, newest>>
    PROVE  /\ loads' \in Seq(Loads) /\ Len(loads') = Len(loads)
           /\ \A i \in DOMAIN loads' : loads'[i].of \in page.picks
           /\ LastIsPicked' /\ NewestIsNewest' /\ ServedAsStored'
           /\ AllArrived' => AllArrived
           /\ Len(loads) = 1 => loads'[1].got = loads[1].got
           /\ stored' \in [page.picks -> Nat] /\ stored'[at] = stored[at] + 1
           /\ \A s \in page.picks : s # at => stored'[s] = stored[s]
<1>0. PageTypeOK
  BY DEF PageInv
<1>1. /\ SamePlans
      /\ \A i \in DOMAIN loads : /\ loads'[i].got = loads[i].got
                                 /\ loads'[i].got \in {"with", "without"} => loads'[i].old
      /\ stored' \in [page.picks -> Nat] /\ stored'[at] = stored[at] + 1
      /\ \A s \in page.picks : s # at => stored'[s] = stored[s]
  BY <1>0, Executions
<1>2. \A i \in DOMAIN loads' : loads'[i].of \in page.picks
  BY <1>0, <1>1 DEF PageTypeOK, SamePlans
<1>3. LastIsPicked'
  BY <1>1, StillLast DEF PageInv
<1>4. NewestIsNewest'
  BY <1>1 DEF PageInv, NewestIsNewest, SamePlans
<1>5. ServedAsStored'
  BY <1>1 DEF ServedAsStored, SamePlans
<1>6. AllArrived' => AllArrived
  BY <1>1 DEF AllArrived, SamePlans
<1>7. Len(loads) = 1 => loads'[1].got = loads[1].got
  <2> SUFFICES ASSUME Len(loads) = 1 PROVE loads'[1].got = loads[1].got
    OBVIOUS
  <2>1. 1 \in DOMAIN loads
    BY <1>0, PageFacts
  <2> QED
    BY <1>1, <2>1
<1> QED
  BY <1>1, <1>2, <1>3, <1>4, <1>5, <1>6, <1>7 DEF SamePlans

LEMMA PageLateExecution == \A s \in page.picks : PageInv /\ LateExecution(s) => PageInv'
<1> SUFFICES ASSUME NEW s \in page.picks, PageInv, LateExecution(s) PROVE PageInv'
  OBVIOUS
<1>0. PageTypeOK
  BY DEF PageInv
<1>1. /\ late[s] > 0 /\ late' = [late EXCEPT ![s] = @ - 1] /\ Executed(s)
      /\ why' = why \cup {"late"}
      /\ UNCHANGED <<page, picked, display, loading, change, changes, newest>>
  BY DEF LateExecution
<1>2. /\ loads' \in Seq(Loads) /\ Len(loads') = Len(loads)
      /\ \A i \in DOMAIN loads' : loads'[i].of \in page.picks
      /\ LastIsPicked' /\ NewestIsNewest' /\ ServedAsStored'
      /\ Len(loads) = 1 => loads'[1].got = loads[1].got
      /\ stored' \in [page.picks -> Nat] /\ stored'[s] = stored[s] + 1
      /\ \A r \in page.picks : r # s => stored'[r] = stored[r]
  BY <1>1, StillServed
<1>3. late \in [page.picks -> Nat] /\ stored \in [page.picks -> Nat]
  BY <1>0 DEF PageTypeOK
<1>4. /\ late' \in [page.picks -> Nat] /\ late'[s] = late[s] - 1
      /\ \A r \in page.picks : r # s => late'[r] = late[r]
  <2>1. late[s] - 1 \in Nat
    BY <1>1, <1>3
  <2> QED
    BY <1>1, <1>3, <2>1
<1>5. PageTypeOK'
  BY <1>0, <1>1, <1>2, <1>4 DEF PageTypeOK
<1>6. ShowsPicked'
  BY <1>1 DEF ShowsPicked
<1>7. ShowsBefore'
  BY <1>1, <1>2 DEF PageInv, ShowsBefore
<1>8. \A r \in page.picks : stored'[r] + late'[r] = stored[r] + late[r]
  <2> SUFFICES ASSUME NEW r \in page.picks PROVE stored'[r] + late'[r] = stored[r] + late[r]
    OBVIOUS
  <2>1. stored[r] \in Nat /\ late[r] \in Nat
    BY <1>3
  <2>2. CASE r = s
    <3>1. PICK a \in Nat, b \in Nat : a = stored[s] /\ b = late[s]
      BY <1>3
    <3>2. stored'[s] = a + 1 /\ late'[s] = b - 1
      BY <1>2, <1>4, <3>1
    <3>3. (a + 1) + (b - 1) = a + b
      BY <3>1
    <3> QED
      BY <2>2, <3>1, <3>2, <3>3
  <2>3. CASE r # s
    BY <1>2, <1>4, <2>3
  <2> QED
    BY <2>2, <2>3
<1>9. EachSending'
  BY <1>1, <1>8 DEF PageInv, EachSending, Tries, Sent
<1> QED
  BY <1>2, <1>5, <1>6, <1>7, <1>9 DEF PageInv

LEMMA PageSends == PageInv /\ Send => PageInv'
<1> SUFFICES ASSUME PageInv, Send PROVE PageInv'
  OBVIOUS
<1>0. PageTypeOK
  BY DEF PageInv
<1>1. /\ change # NoChange /\ change.sent
      /\ UNCHANGED <<page, picked, display, loading, changes, newest, why>>
  BY DEF Send
<1>2. /\ change \in Changes /\ change.what \in page.writes
      /\ change.at \in page.picks /\ change.tries \in Nat \ {0}
  BY <1>0, <1>1, PageFacts
<1>3. PICK done \in {FALSE, change.what.handler # {}} : \E answer \in Answers(change.what, done) :
          /\ IF done THEN Executed(change.at) ELSE UNCHANGED <<stored, loads>>
          /\ change' = [change EXCEPT !.answer = answer, !.sent = FALSE]
          /\ late' = IF ~done /\ change.what.handler # {}
                        /\ (answer = "none" \/ "queued" \in change.what.handler)
                     THEN [late EXCEPT ![change.at] = @ + 1] ELSE late
  BY DEF Send
<1>4. PICK answer \in Answers(change.what, done) :
          /\ change' = [change EXCEPT !.answer = answer, !.sent = FALSE]
          /\ late' = IF ~done /\ change.what.handler # {}
                        /\ (answer = "none" \/ "queued" \in change.what.handler)
                     THEN [late EXCEPT ![change.at] = @ + 1] ELSE late
  BY <1>3
<1>5. IF done THEN Executed(change.at) ELSE UNCHANGED <<stored, loads>>
  BY <1>3
<1>6. answer \in {"none", "ok", "error"}
  BY <1>4 DEF Answers
<1>7. /\ change' \in Changes /\ change'.what = change.what /\ change'.at = change.at
      /\ change'.tries = change.tries /\ ~change'.sent
  BY <1>2, <1>4, <1>6 DEF Changes
<1>8. change' # NoChange
  BY <1>7, PageAssumption
<1>9. late \in [page.picks -> Nat] /\ stored \in [page.picks -> Nat]
  BY <1>0 DEF PageTypeOK
\* Either it is executed now or it may be later.
<1>10. /\ late' \in [page.picks -> Nat]
       /\ late'[change.at] = late[change.at] \/ (~done /\ late'[change.at] = late[change.at] + 1)
       /\ \A s \in page.picks : s # change.at => late'[s] = late[s]
  <2>1. CASE late' = late
    <3>1. late' \in [page.picks -> Nat] /\ late'[change.at] = late[change.at]
      BY <1>9, <2>1
    <3>2. \A s \in page.picks : late'[s] = late[s]
      BY <2>1
    <3> QED
      BY <3>1, <3>2
  <2>2. CASE ~done /\ late' = [late EXCEPT ![change.at] = @ + 1]
    BY <1>2, <1>9, <2>2
  <2> QED
    BY <1>4, <2>1, <2>2
<1>11. /\ loads' \in Seq(Loads) /\ Len(loads') = Len(loads)
       /\ \A i \in DOMAIN loads' : loads'[i].of \in page.picks
       /\ LastIsPicked' /\ NewestIsNewest' /\ ServedAsStored'
       /\ AllArrived' => AllArrived
       /\ Len(loads) = 1 => loads'[1].got = loads[1].got
       /\ stored' \in [page.picks -> Nat]
       /\ stored'[change.at] = stored[change.at] \/ (done /\ stored'[change.at] = stored[change.at] + 1)
       /\ \A s \in page.picks : s # change.at => stored'[s] = stored[s]
  <2>1. CASE done
    BY <1>1, <1>2, <1>5, <2>1, StillServed
  <2>2. CASE ~done
    <3>1. UNCHANGED <<stored, loads>>
      BY <1>5, <2>2
    <3>2. LastIsPicked' /\ NewestIsNewest' /\ ServedAsStored' /\ (AllArrived' => AllArrived)
      BY <1>1, <3>1 DEF PageInv, LastIsPicked, NewestIsNewest, ServedAsStored, AllArrived
    <3>3. /\ loads' \in Seq(Loads) /\ Len(loads') = Len(loads)
          /\ \A i \in DOMAIN loads' : loads'[i].of \in page.picks
      BY <1>0, <3>1 DEF PageTypeOK
    <3>4. loads'[1].got = loads[1].got
      BY <3>1
    <3>5. /\ stored' \in [page.picks -> Nat] /\ stored'[change.at] = stored[change.at]
          /\ \A s \in page.picks : stored'[s] = stored[s]
      BY <1>9, <3>1
    <3> QED
      BY <3>2, <3>3, <3>4, <3>5
  <2> QED
    BY <2>1, <2>2
<1>12. PageTypeOK'
  BY <1>0, <1>1, <1>2, <1>7, <1>10, <1>11 DEF PageTypeOK
<1>13. ShowsPicked'
  <2> SUFFICES ASSUME why = {}, AllArrived
               PROVE  /\ display.of = {picked}
                      /\ (display.has <=> stored'[picked] > 0) \/ change.at = picked
    BY <1>1, <1>7, <1>8, <1>11 DEF ShowsPicked
  <2>1. display.of = {picked} /\ ((display.has <=> stored[picked] > 0) \/ change.at = picked)
    BY DEF PageInv, ShowsPicked
  <2>2. CASE change.at = picked
    BY <2>1, <2>2
  <2>3. CASE change.at # picked
    <3>1. stored'[picked] = stored[picked]
      BY <1>0, <1>11, <2>3 DEF PageTypeOK
    <3> QED
      BY <2>1, <2>3, <3>1
  <2> QED
    BY <2>2, <2>3
<1>14. ShowsBefore'
  BY <1>1, <1>11 DEF PageInv, ShowsBefore
<1>15. \A s \in page.picks : stored'[s] + late'[s] <= stored[s] + late[s] + 1
  <2> SUFFICES ASSUME NEW s \in page.picks
               PROVE  stored'[s] + late'[s] <= stored[s] + late[s] + 1
    OBVIOUS
  <2>1. PICK a \in Nat, b \in Nat : a = stored[s] /\ b = late[s]
    BY <1>9
  <2>2. \/ stored'[s] = a /\ late'[s] = b
        \/ stored'[s] = a + 1 /\ late'[s] = b
        \/ stored'[s] = a /\ late'[s] = b + 1
    <3>1. CASE s = change.at
      BY <1>10, <1>11, <2>1, <3>1
    <3>2. CASE s # change.at
      BY <1>10, <1>11, <2>1, <3>2
    <3> QED
      BY <3>1, <3>2
  <2>3. stored'[s] + late'[s] <= a + b + 1
    BY <2>2
  <2> QED
    BY <2>1, <2>3
<1>16. EachSending'
  <2>1. /\ changes >= 1 /\ change.tries <= Tries
        /\ \A s \in page.picks : stored[s] + late[s] <= (changes - 1) * Tries + Sent
    BY <1>1 DEF PageInv, EachSending
  <2>2. Sent = change.tries - 1 /\ Sent' = change.tries
    BY <1>1, <1>7 DEF Sent
  <2>3. Tries' = Tries /\ Tries \in Nat \ {0} /\ changes' = changes
    BY <1>1, TriesIs DEF Tries
  <2>4. \A s \in page.picks : stored'[s] + late'[s] <= (changes' - 1) * Tries' + Sent'
    <3> SUFFICES ASSUME NEW s \in page.picks
                 PROVE  stored'[s] + late'[s] <= (changes - 1) * Tries + change.tries
      BY <2>2, <2>3
    <3>1. PICK n \in Nat : n = (changes - 1) * Tries
      <4>1. changes - 1 \in Nat
        BY <1>0, <2>1, PageFacts
      <4> QED
        BY <2>3, <4>1, Product
    <3>2. stored[s] + late[s] <= n + (change.tries - 1)
      BY <2>1, <2>2, <3>1
    <3>3. stored'[s] + late'[s] <= stored[s] + late[s] + 1
      BY <1>15
    <3>4. /\ stored[s] \in Nat /\ late[s] \in Nat /\ stored'[s] \in Nat /\ late'[s] \in Nat
          /\ change.tries \in Nat
      BY <1>2, <1>9, <1>10, <1>11
    <3>5. stored'[s] + late'[s] <= n + change.tries
      BY <3>2, <3>3, <3>4
    <3> QED
      BY <3>1, <3>5
  <2> QED
    BY <1>1, <1>7, <1>8, <2>1, <2>3, <2>4 DEF EachSending
<1> QED
  BY <1>11, <1>12, <1>13, <1>14, <1>16 DEF PageInv

LEMMA PageResends == PageInv /\ Resend => PageInv'
<1> SUFFICES ASSUME PageInv, Resend PROVE PageInv'
  OBVIOUS
<1>0. PageTypeOK
  BY DEF PageInv
<1>1. /\ change # NoChange /\ ~change.sent
      /\ change.what.again /\ change.tries <= MAX_RETRIES
      /\ change' = [change EXCEPT !.tries = @ + 1, !.sent = TRUE]
      /\ UNCHANGED <<page, picked, display, loading, stored, loads, changes, newest, late, why>>
  BY DEF Resend
<1>2. /\ change \in Changes /\ change.what \in page.writes
      /\ change.at \in page.picks /\ change.tries \in Nat \ {0}
  BY <1>0, <1>1, PageFacts
<1>3. change.tries + 1 \in 1 .. 1 + MAX_RETRIES
  BY <1>1, <1>2, PageAssumption
<1>4. /\ change' \in Changes /\ change'.what = change.what /\ change'.at = change.at
      /\ change'.tries = change.tries + 1 /\ change'.sent
  BY <1>1, <1>2, <1>3 DEF Changes
<1>5. change' # NoChange
  BY <1>4, PageAssumption
<1>6. PageTypeOK'
  BY <1>0, <1>1, <1>2, <1>4 DEF PageTypeOK
<1>7. LastIsPicked' /\ NewestIsNewest' /\ ServedAsStored'
  BY <1>1 DEF PageInv, LastIsPicked, NewestIsNewest, ServedAsStored
<1>8. ShowsPicked'
  BY <1>1, <1>4, <1>5 DEF PageInv, ShowsPicked, AllArrived
<1>9. ShowsBefore'
  BY <1>1 DEF PageInv, ShowsBefore
<1>10. EachSending'
  <2>1. Tries' = Tries /\ Tries = 1 + MAX_RETRIES
    BY <1>1, <1>2 DEF Tries
  <2>2. change'.tries <= Tries
    BY <1>2, <1>3, <1>4, <2>1, PageAssumption
  <2>3. Sent' = Sent
    <3>1. (change.tries + 1) - 1 = change.tries
      BY <1>2
    <3> QED
      BY <1>1, <1>4, <3>1 DEF Sent
  <2> QED
    BY <1>1, <1>5, <2>1, <2>2, <2>3 DEF PageInv, EachSending
<1> QED
  BY <1>6, <1>7, <1>8, <1>9, <1>10 DEF PageInv

LEMMA PageConcludes == PageInv /\ Conclude => PageInv'
<1> SUFFICES ASSUME PageInv, Conclude PROVE PageInv'
  OBVIOUS
<1>0. PageTypeOK
  BY DEF PageInv
<1> DEFINE goes == change.answer = "ok" \/ (change.answer = "error" /\ ~change.what.checks)
           reload == goes /\ change.what.then = "reload"
<1>1. /\ change # NoChange /\ ~change.sent /\ change' = NoChange
      /\ UNCHANGED <<page, picked, stored, changes, late>>
  BY DEF Conclude
<1>2. reload => /\ Len(loads) < MaxLoads
                /\ loads' = Append(loads, Load(change.at, FALSE, change.at # picked))
                /\ loading' = TRUE
                /\ UNCHANGED <<display, newest, why>>
  BY DEF Conclude
<1>3. ~reload => /\ IF goes /\ change.what.then = "local"
                    THEN display' = Applied(change.at) /\ newest' = Len(loads)
                    ELSE UNCHANGED <<display, newest>>
                 /\ why' = why \cup {d \in {"failed"} : change.answer # "ok"}
                               \cup {d \in {"masked"} : change.answer = "ok" /\ stored[change.at] = 0}
                 /\ UNCHANGED <<loads, loading>>
  BY DEF Conclude
<1>4. /\ change \in Changes /\ change.what \in page.writes
      /\ change.at \in page.picks /\ change.tries \in Nat \ {0}
  BY <1>0, <1>1, PageFacts
<1>5. change.what.then \in {"reload", "local", "before"}
  BY <1>0, <1>4, PageFacts DEF WellMade
<1>6. EachSending'
  <2>1. /\ changes >= 1 /\ change.tries <= Tries
        /\ \A s \in page.picks : stored[s] + late[s] <= (changes - 1) * Tries + change.tries
    BY <1>1 DEF PageInv, EachSending, Sent
  <2>2. Tries' = Tries /\ Tries \in Nat \ {0}
    BY <1>1, TriesIs DEF Tries
  <2>3. PICK c \in Nat : c = changes - 1 /\ changes = c + 1
    BY <1>0, <2>1, PageFacts
  <2>4. c * Tries \in Nat /\ changes * Tries = c * Tries + Tries
    BY <2>2, <2>3, Product
  <2>5. \A s \in page.picks : stored[s] + late[s] <= changes * Tries
    <3> SUFFICES ASSUME NEW s \in page.picks PROVE stored[s] + late[s] <= changes * Tries
      OBVIOUS
    <3>1. stored[s] \in Nat /\ late[s] \in Nat
      BY <1>0, PageFacts
    <3>2. PICK n \in Nat : n = c * Tries
      BY <2>4
    <3>3. stored[s] + late[s] <= n + change.tries
      BY <2>1, <2>3, <3>2
    <3>4. stored[s] + late[s] <= n + Tries
      BY <1>4, <2>1, <2>2, <3>1, <3>3
    <3> QED
      BY <2>4, <3>2, <3>4
  <2> QED
    BY <1>1, <2>2, <2>5 DEF EachSending
<1>7. CASE reload
  <2>1. PICK l \in Loads : /\ l = Load(change.at, FALSE, change.at # picked) /\ l.of = change.at
                           /\ ~l.more /\ (l.moved <=> change.at # picked) /\ l.got = "asked"
    <3>1. change.at \in Two /\ (change.at # picked) \in BOOLEAN
      BY <1>0, <1>4, PageFacts
    <3> QED
      BY <3>1, LoadIs
  <2>2. l.of = picked' \/ l.moved
    BY <1>1, <2>1
  <2>3. /\ loads' \in Seq(Loads) /\ Len(loads') <= MaxLoads /\ newest' \in 0 .. Len(loads')
        /\ \A i \in DOMAIN loads' : loads'[i].of \in page.picks
        /\ LastIsPicked' /\ NewestIsNewest' /\ ServedAsStored' /\ ~AllArrived'
    BY <1>1, <1>2, <1>4, <1>7, <2>1, <2>2, LoadStarts
  <2>4. PageTypeOK'
    BY <1>0, <1>1, <1>2, <1>7, <2>3 DEF PageTypeOK
  <2>5. ShowsPicked'
    BY <2>3 DEF ShowsPicked
  <2>6. ShowsBefore'
    <3>1. ASSUME NEW w \in page.writes, w.then = "before" PROVE FALSE
      BY <1>0, <1>4, <1>7, <3>1, NothingElse
    <3> QED
      BY <1>1, <3>1 DEF ShowsBefore
  <2> QED
    BY <1>6, <2>3, <2>4, <2>5, <2>6 DEF PageInv
<1>8. CASE ~reload
  <2>1. UNCHANGED <<loads, loading>>
    BY <1>3, <1>8
  <2>2. \/ /\ goes /\ change.what.then = "local"
           /\ display' = Applied(change.at) /\ newest' = Len(loads)
        \/ ~(goes /\ change.what.then = "local") /\ UNCHANGED <<display, newest>>
    BY <1>3, <1>8
  <2>3. why' = why \cup {d \in {"failed"} : change.answer # "ok"}
                   \cup {d \in {"masked"} : change.answer = "ok" /\ stored[change.at] = 0}
    BY <1>3, <1>8
  <2>4. NewestIsNewest' /\ newest' \in 0 .. Len(loads)
    BY <2>1, <2>2, StillNewest
  <2>5. display' \in [of : SUBSET page.picks, has : BOOLEAN] /\ display'.of = display.of
    BY <1>0, <2>2, AppliedIs DEF PageTypeOK
  <2>6. why' \subseteq {"failed", "masked", "overtaken", "outrun", "moved", "late"}
    BY <1>0, <2>3 DEF PageTypeOK
  <2>7. PageTypeOK'
    BY <1>0, <1>1, <2>1, <2>4, <2>5, <2>6 DEF PageTypeOK
  <2>8. LastIsPicked' /\ ServedAsStored'
    BY <1>1, <2>1 DEF PageInv, LastIsPicked, ServedAsStored
  <2>9. ShowsPicked'
    <3> SUFFICES ASSUME why' = {}, AllArrived
                 PROVE  display'.of = {picked} /\ (display'.has <=> stored[picked] > 0)
      BY <1>1, <2>1 DEF ShowsPicked, AllArrived
    <3>1. why = {} /\ change.answer = "ok" /\ stored[change.at] # 0
      BY <2>3
    <3>2. display.of = {picked} /\ ((display.has <=> stored[picked] > 0) \/ change.at = picked)
      BY <3>1 DEF PageInv, ShowsPicked
    <3>3. CASE change.what.then = "local"
      <4>1. display' = Applied(change.at)
        BY <2>2, <3>1, <3>3
      <4>2. display'.has <=> display.has \/ change.at = picked
        BY <1>0, <3>2, <4>1, AppliedIs
      <4>3. change.at = picked => stored[picked] > 0
        BY <1>0, <1>4, <3>1, PageFacts
      <4> QED
        BY <2>5, <3>2, <4>2, <4>3
    <3>4. CASE change.what.then = "before"
      <4>1. display' = display
        BY <2>2, <3>4
      <4>2. page.picks = {"a"}
        BY <1>0, <1>4, <3>4, NothingElse DEF One
      <4>3. change.at = picked
        BY <1>0, <1>4, <4>2 DEF PageTypeOK
      <4>4. display.has
        BY <1>1, <1>4, <3>2, <3>4 DEF PageInv, ShowsBefore
      <4>5. stored[picked] > 0
        BY <1>0, <1>4, <3>1, <4>3, PageFacts
      <4> QED
        BY <3>2, <4>1, <4>4, <4>5
    <3>5. change.what.then # "reload"
      BY <1>8, <3>1
    <3> QED
      BY <1>5, <3>3, <3>4, <3>5
  <2>10. ShowsBefore'
    BY <1>1, <2>1 DEF PageInv, ShowsBefore
  <2> QED
    BY <1>6, <2>4, <2>7, <2>8, <2>9, <2>10 DEF PageInv
<1> QED
  BY <1>7, <1>8

LEMMA PageStep == PageInv /\ [PageNext]_pageVars => PageInv'
<1> SUFFICES ASSUME PageInv, [PageNext]_pageVars PROVE PageInv'
  OBVIOUS
<1>1. CASE \E s \in page.picks : Pick(s) \/ LateExecution(s)
  BY <1>1, PagePicks, PageLateExecution
<1>2. CASE LoadMore
  BY <1>2, PageLoadsMore
<1>3. CASE \E i \in DOMAIN loads : Serve(i) \/ Arrive(i)
  BY <1>3, PageServed, PageArrives
<1>4. CASE \E w \in page.writes : StartChange(w)
  BY <1>4, PageStartsChange
<1>5. CASE Send
  BY <1>5, PageSends
<1>6. CASE Resend
  BY <1>6, PageResends
<1>7. CASE Conclude
  BY <1>7, PageConcludes
<1>8. CASE UNCHANGED pageVars
  BY <1>8 DEF pageVars, PageInv, PageTypeOK, LastIsPicked, NewestIsNewest, ServedAsStored,
              ShowsPicked, ShowsBefore, EachSending, AllArrived, Sent, Tries
<1> QED
  BY <1>1, <1>2, <1>3, <1>4, <1>5, <1>6, <1>7, <1>8 DEF PageNext

\* The invariant holds of every page, whatever order its answers come in.
THEOREM PageInvariance == PageSpec => []PageInv
<1>1. PageInit => PageInv
  BY PageStart
<1>2. PageInv /\ [PageNext]_pageVars => PageInv'
  BY PageStep
<1> QED
  BY <1>1, <1>2, PTL DEF PageSpec

\* A page that waits for nothing shows what is picked as it is stored, unless a reason
\* why it may not was met since its last good load, and no change is executed more often
\* than it was sent: of every page of the portal, for any number of loads and changes.
THEOREM ShownAsStored == PageSpec => []PageTrue
<1>1. PageInv => PageTrue
  <2> SUFFICES ASSUME PageInv PROVE PageTrue
    OBVIOUS
  <2>0. PageTypeOK
    BY DEF PageInv
  <2>1. ASSUME why = {}, change = NoChange, \A i \in DOMAIN loads : loads[i].got = "ended"
        PROVE  display.of = {picked} /\ (display.has <=> stored[picked] > 0)
    <3>1. AllArrived
      BY <2>1 DEF AllArrived
    <3> QED
      BY <2>1, <3>1 DEF PageInv, ShowsPicked
  <2>2. \A s \in page.picks : stored[s] + late[s] <= changes * Tries
    <3>1. CASE change = NoChange
      BY <3>1 DEF PageInv, EachSending
    <3>2. CASE change # NoChange
      <4> SUFFICES ASSUME NEW s \in page.picks PROVE stored[s] + late[s] <= changes * Tries
        OBVIOUS
      <4>1. /\ changes >= 1 /\ change.tries <= Tries
            /\ stored[s] + late[s] <= (changes - 1) * Tries + Sent
        BY <3>2 DEF PageInv, EachSending
      <4>2. PICK c \in Nat : c = changes - 1 /\ changes = c + 1
        BY <2>0, <4>1, PageFacts
      <4>3. c * Tries \in Nat /\ changes * Tries = c * Tries + Tries /\ Tries \in Nat
        BY <4>2, TriesIs, Product
      <4>4. change.tries \in Nat \ {0} /\ stored[s] \in Nat /\ late[s] \in Nat
        BY <2>0, <3>2, PageFacts
      <4>5. Sent \in Nat /\ Sent <= change.tries
        BY <4>4 DEF Sent
      <4>6. PICK n \in Nat : n = c * Tries
        BY <4>3
      <4>7. stored[s] + late[s] <= n + Sent
        BY <4>1, <4>2, <4>6
      <4>8. stored[s] + late[s] <= n + Tries
        BY <4>1, <4>3, <4>4, <4>5, <4>7
      <4> QED
        BY <4>3, <4>6, <4>8
    <3> QED
      BY <3>1, <3>2
  <2> QED
    BY <2>1, <2>2 DEF PageTrue
<1> QED
  BY <1>1, PageInvariance, PTL
=============================================================================
