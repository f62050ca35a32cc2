----------------------------- MODULE BootstrapView -----------------------------
(***************************************************************************)
(* The page that shows the installation: it asks for the state once, and   *)
(* follows a stream of events that starts with all earlier ones and is     *)
(* opened anew when it breaks. The answer to the request may come after    *)
(* events that are newer than it, and an API that starts again may know    *)
(* less than the page does.                                                *)
(***************************************************************************)
EXTENDS Naturals, Sequences, FiniteSets, SequencesExt

CONSTANTS
    READY,       \* the last state; 0 is UNINITIALIZED and 1 DNS_CHECK
    MaxEvents,   \* bound: events
    MaxBreaks    \* bound: how often the stream breaks, API restarts included

ASSUME ViewAssumption == READY \in Nat \ {0, 1} /\ MaxEvents \in Nat /\ MaxBreaks \in Nat

VARIABLES
    current,     \* BootstrapService: currentState, whether the pipeline runs
    eventLog,    \* its events, the first of them restored from the database
    table,       \* the events in the database when the API started
    restored,    \* how many of eventLog it restored then
    view,        \* what the page shows: state, log, hasError, config
    request,     \* the request for the state at mount, with what it answers
    again,       \* the one for the configuration, made at READY
    stream,      \* the connection, with the events on their way
    breaks,
    emitted,     \* not in the program: all events there ever were,
    count,       \* how many,
    doubt        \* and what has happened since the last connection

viewVars == <<current, eventLog, table, restored, emitted, count, view, request, again,
              stream, breaks, doubt>>

Steps == {"transition", "done", "dns", "error"}
Events == [state : 0 .. READY, step : Steps]
Idle == [at |-> "ended", state |-> 0, log |-> <<>>, config |-> FALSE]

ViewTypeOK ==
    /\ current \in [state : 0 .. READY, runs : BOOLEAN, config : BOOLEAN]
    /\ eventLog \in Seq(Events) /\ restored \in 0 .. Len(eventLog)
    /\ table \in Seq(Events) /\ emitted \subseteq Events /\ count \in 0 .. MaxEvents
    /\ view \in [state : 0 .. READY, log : Seq(Events), hasError : BOOLEAN, config : BOOLEAN]
    /\ request \in [at : {"asked", "answered", "ended"}, state : 0 .. READY, log : Seq(Events),
                    config : BOOLEAN]
    /\ again \in {"none", "asked", "with", "without", "ended"}
    /\ stream \in [at : {"connecting", "snapshot", "open", "closed"}, left : Seq(Events)]
    /\ breaks \in 0 .. MaxBreaks /\ doubt \subseteq {"missed", "overwritten"}

ViewInit ==
    /\ current = [state |-> 0, runs |-> FALSE, config |-> FALSE]
    /\ eventLog = <<>> /\ table = <<>> /\ restored = 0 /\ emitted = {} /\ count = 0
    /\ view = [state |-> 0, log |-> <<>>, hasError |-> FALSE, config |-> FALSE]
    /\ request = [Idle EXCEPT !.at = "asked"] /\ again = "none"
    /\ stream = [at |-> "connecting", left |-> <<>>]
    /\ breaks = 0 /\ doubt = {}

-----------------------------------------------------------------------------
(* The API *)

\* Subscribers get the event before it is in the database; one that has its copy of the
\* log and has not subscribed yet does not.
emitEvent(state, step) ==
    LET e == [state |-> state, step |-> step]
    IN  /\ count < MaxEvents /\ count' = count + 1
        /\ eventLog' = Append(eventLog, e) /\ emitted' = emitted \cup {e}
        /\ UNCHANGED <<table, restored>>
        /\ stream' = IF stream.at = "open" THEN [stream EXCEPT !.left = Append(@, e)] ELSE stream
        /\ doubt' = IF stream.at = "snapshot" THEN doubt \cup {"missed"} ELSE doubt

startBootstrap ==
    /\ current.state = 0 /\ ~current.runs
    /\ current' = [current EXCEPT !.runs = TRUE, !.config = TRUE]
    /\ UNCHANGED <<eventLog, table, restored, emitted, count, view, request, again, stream,
                   breaks, doubt>>

transition ==
    /\ current.runs /\ current.state < READY
    /\ current' = [current EXCEPT !.state = @ + 1, !.runs = current.state + 1 < READY]
    /\ emitEvent(current.state + 1, "transition")
    /\ UNCHANGED <<view, request, again, breaks>>

\* A step reports its end; or the pipeline fails and reports that.
Report ==
    /\ current.runs /\ current.state > 0
    /\ \/ emitEvent(current.state, "done") /\ UNCHANGED current
       \/ emitEvent(current.state, "error") /\ current' = [current EXCEPT !.runs = FALSE]
    /\ UNCHANGED <<view, request, again, breaks>>

\* POST verify-dns and verify-ports report in the log, whatever the state.
verifyDNS ==
    /\ emitEvent(1, "dns")
    /\ UNCHANGED <<current, view, request, again, breaks>>

\* The API starts again with the state of the last row, or with nothing if the table
\* cannot be read. New in it are the events since the last start whose insert was done:
\* one that fails is only logged. The pipeline waits for its inserts, a check does not
\* wait for those of others. Only a start reads the table, so it settles what was done.
restoreStateFromDb ==
    LET own == SubSeq(eventLog, restored + 1, Len(eventLog))
    IN  \E n \in 0 .. Len(own) : \E f \in [1 .. n -> 1 .. Len(own)] :
            /\ breaks < MaxBreaks /\ breaks' = breaks + 1
            /\ \A i, j \in 1 .. n :
                   i < j => \/ f[i] < f[j]
                            \/ f[i] # f[j] /\ "dns" \in {own[f[i]].step, own[f[j]].step}
            /\ table' = table \o [i \in 1 .. n |-> own[f[i]]]
            /\ eventLog' \in {table', <<>>} /\ restored' = Len(eventLog')
            /\ LET state == IF eventLog' = <<>> THEN 0 ELSE Last(eventLog').state
               IN  current' = [state |-> state, runs |-> FALSE, config |-> state = READY]
            /\ stream' = IF stream.at = "closed" THEN stream
                         ELSE [at |-> "connecting", left |-> <<>>]
            /\ request' = IF request.at = "asked" THEN Idle ELSE request
            /\ UNCHANGED <<emitted, count, view, again, doubt>>

\* getState
AnswerState ==
    /\ request.at = "asked"
    /\ request' \in {Idle, [at |-> "answered", state |-> current.state, log |-> eventLog,
                            config |-> current.config]}
    /\ UNCHANGED <<current, eventLog, table, restored, emitted, count, view, again, stream,
                   breaks, doubt>>

\* streamEvents copies the log; Nest subscribes when the handler has returned.
streamEvents ==
    /\ stream.at = "connecting"
    /\ stream' = [at |-> "snapshot", left |-> eventLog]
    /\ doubt' = {}
    /\ UNCHANGED <<current, eventLog, table, restored, emitted, count, view, request,
                   again, breaks>>

\* A variant whose stream starts with the event that comes next.
Subscribe_NoReplay ==
    /\ stream.at = "snapshot"
    /\ stream' = [at |-> "open", left |-> <<>>]
    /\ UNCHANGED <<current, eventLog, table, restored, emitted, count, view, request,
                   again, breaks, doubt>>

Subscribe ==
    /\ stream.at = "snapshot"
    /\ stream' = [stream EXCEPT !.at = "open"]
    /\ UNCHANGED <<current, eventLog, table, restored, emitted, count, view, request,
                   again, breaks, doubt>>

-----------------------------------------------------------------------------
(* The page *)

\* The answer replaces state and log, also when events of the stream are newer.
ArriveState ==
    /\ request.at = "answered"
    /\ view' = [view EXCEPT !.state = request.state, !.log = request.log,
                            !.config = @ \/ request.config]
    /\ request' = Idle
    /\ doubt' = IF view.log # <<>> THEN doubt \cup {"overwritten"} ELSE doubt
    /\ UNCHANGED <<current, eventLog, table, restored, emitted, count, again, stream, breaks>>

\* onmessage: known entries are not added again. READY ends the stream.
Message ==
    LET e == Head(stream.left)
    IN  /\ stream.at = "open" /\ stream.left # <<>>
        /\ view' = [view EXCEPT !.state = e.state,
                                !.hasError = @ \/ e.step = "error",
                                !.log = IF e \in Range(@) THEN @ ELSE Append(@, e)]
        /\ stream' = IF e.state = READY THEN [at |-> "closed", left |-> <<>>]
                                        ELSE [stream EXCEPT !.left = Tail(@)]
        /\ UNCHANGED <<current, eventLog, table, restored, emitted, count, request, again,
                       breaks, doubt>>

\* EventSource connects again by itself.
Break ==
    /\ stream.at \in {"snapshot", "open"} /\ breaks < MaxBreaks
    /\ stream' = [at |-> "connecting", left |-> <<>>]
    /\ breaks' = breaks + 1
    /\ UNCHANGED <<current, eventLog, table, restored, emitted, count, view, request,
                   again, doubt>>

\* At READY without a configuration the page asks once more, and once only.
AskConfig ==
    /\ view.state = READY /\ ~view.config /\ again = "none"
    /\ again' = "asked"
    /\ UNCHANGED <<current, eventLog, table, restored, emitted, count, view, request,
                   stream, breaks, doubt>>

AnswerConfig ==
    /\ again = "asked"
    /\ again' \in {"ended", IF current.config THEN "with" ELSE "without"}
    /\ UNCHANGED <<current, eventLog, table, restored, emitted, count, view, request,
                   stream, breaks, doubt>>

ArriveConfig ==
    /\ again \in {"with", "without"}
    /\ view' = [view EXCEPT !.config = @ \/ again = "with"]
    /\ again' = "ended"
    /\ UNCHANGED <<current, eventLog, table, restored, emitted, count, request, stream,
                   breaks, doubt>>

ViewNext ==
    \/ startBootstrap \/ transition \/ Report \/ verifyDNS \/ restoreStateFromDb
    \/ AnswerState \/ streamEvents \/ Subscribe
    \/ ArriveState \/ Message \/ Break
    \/ AskConfig \/ AnswerConfig \/ ArriveConfig

ViewSpec == ViewInit /\ [][ViewNext]_viewVars

-----------------------------------------------------------------------------
\* A page that has all that was sent to it shows the state of the last event the API
\* knows, every entry of its log, and an error if there is one, however often the stream
\* broke and whatever a restart forgot, unless an event fell between copy and
\* subscription or the answer to the request came after events. What more it shows, the
\* entries, an error or READY, comes from events there were: a restart that lost rows
\* does not take them from the page.
ViewFollows ==
    /\ stream = [at |-> "open", left |-> <<>>] /\ doubt = {} /\ eventLog # <<>> =>
           /\ view.state = Last(eventLog).state
           /\ Range(eventLog) \subseteq Range(view.log)
           /\ (\E e \in Range(eventLog) : e.step = "error") => view.hasError
    /\ stream.at = "closed" /\ "overwritten" \notin doubt => view.state = READY
    /\ view.state = READY => \E e \in emitted : e.state = READY
    /\ view.hasError => \E e \in emitted : e.step = "error"
    /\ Range(view.log) \subseteq emitted
=============================================================================
