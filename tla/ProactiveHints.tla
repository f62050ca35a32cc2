---------------------------- MODULE ProactiveHints ----------------------------
(***************************************************************************)
(* Hints of one user: a scan collects dates from unread mail, documents    *)
(* and open tickets and saves those it does not know yet; the user accepts *)
(* a hint, which makes a calendar event, or dismisses it. The daily job    *)
(* and the user's button both scan, whenever they like, and the portal     *)
(* sends a request again that timed out.                                   *)
(*                                                                         *)
(* The language model lists the dated items it was shown, leaving the      *)
(* others out; the n-th answer is filed under the n-th item shown. A       *)
(* known hint is recognised by that reference alone, whatever its source.  *)
(***************************************************************************)
EXTENDS Naturals, Sequences, FiniteSets, SequencesExt, FiniteSetsExt

CONSTANTS
    Items,      \* tickets, mails and documents there may be
    SourceOf,   \* "ticket", "mail" or "document" for each
    RefOf,      \* the number of each in its own system: a mail may share a document's
    Scans,      \* bound: scans altogether
    Accepts,    \* bound: requests to accept a hint
    MaxHints,   \* bound: rows
    NoRef       \* of a hint about a subscription

VARIABLES
    shown,      \* of each source, the tickets due, unread mails and recent documents, newest first
    hints,      \* the rows, in the order they were inserted
    events,     \* of each row, how many calendar events were made
    scan,       \* of each scan: where it is, what it found, the references it knows
    accepting,  \* of each request: where it is and its row
    scansMet    \* not in the program: two scans were under way at once

hintVars == <<shown, hints, events, scan, accepting, scansMet>>

Sources == {"ticket", "mail", "document"}
Refs == {RefOf[i] : i \in Items} \cup {NoRef}
Hints == [source : Sources \cup {"finance"}, ref : Refs,
          status : {"pending", "accepted", "dismissed"}]

\* A number names one item of its source.
ASSUME HintsAssumption ==
    /\ SourceOf \in [Items -> Sources] /\ MaxHints \in Nat /\ IsFiniteSet(Accepts)
    /\ \A i, j \in Items : SourceOf[i] = SourceOf[j] /\ RefOf[i] = RefOf[j] => i = j

HintsTypeOK ==
    /\ shown \in [Sources -> Seq(Items)]
    /\ hints \in Seq(Hints) /\ Len(hints) <= MaxHints
    /\ events \in [1 .. MaxHints -> Nat]
    /\ scan \in [Scans -> [at : {"idle", "lookup", "save", "alerts", "ended"},
                          found : Seq(Hints), known : SUBSET Refs]]
    /\ accepting \in [Accepts -> [at : {"idle", "save", "create", "ended"}, row : 0 .. MaxHints]]
    /\ scansMet \in BOOLEAN

HintsInit ==
    /\ shown = [source \in Sources |-> <<>>] /\ hints = <<>>
    /\ events = [n \in 1 .. MaxHints |-> 0]
    /\ scan = [s \in Scans |-> [at |-> "idle", found |-> <<>>, known |-> {}]]
    /\ accepting = [a \in Accepts |-> [at |-> "idle", row |-> 0]]
    /\ scansMet = FALSE

ItemArrives(i) ==
    /\ i \notin Range(shown[SourceOf[i]])
    /\ shown' = [shown EXCEPT ![SourceOf[i]] = <<i>> \o @]
    /\ UNCHANGED <<hints, events, scan, accepting, scansMet>>

\* A mail is read, or a ticket closed: neither is seen by a later scan.
MarkRead(source) ==
    /\ source # "document"
    /\ \E n \in DOMAIN shown[source] : shown' = [shown EXCEPT ![source] = RemoveAt(@, n)]
    /\ UNCHANGED <<hints, events, scan, accepting, scansMet>>

-----------------------------------------------------------------------------
(* A scan *)

Row(source, ref) == [source |-> source, ref |-> ref, status |-> "pending"]

\* The first n items of a source, as hints: the model listed n dates. The answers are
\* numbered anew, and one too many refers to nothing.
FirstRows(source, n) ==
    LET list == shown[source]
    IN  [k \in 1 .. n |-> Row(source, IF k <= Len(list) THEN RefOf[list[k]] ELSE NoRef)]

scanTickets == {FirstRows("ticket", n) : n \in {0, Len(shown["ticket"])}}

\* Nothing is found when the model, the mail server or Paperless does not answer; an
\* empty list is not shown to the model.
Extracted(source) ==
    {FirstRows(source, n) : n \in 0 .. IF shown[source] = <<>> THEN 0 ELSE Len(shown[source]) + 1}

scanUser(s) ==
    /\ scan[s].at = "idle"
    /\ \E t \in scanTickets, m \in Extracted("mail"), d \in Extracted("document") :
           scan' = [scan EXCEPT ![s].at = "lookup", ![s].found = t \o m \o d]
    /\ scansMet' = (scansMet \/ \E t \in Scans \ {s} : scan[t].at \in {"lookup", "save"})
    /\ UNCHANGED <<shown, hints, events, accepting>>

\* saveNewHints reads the references that have a row, of whatever source. With nothing
\* found it inserts nothing, which Save does too.
LookUp(s) ==
    /\ scan[s].at = "lookup"
    /\ scan' = [scan EXCEPT ![s].at = "save", ![s].known = {hints[n].ref : n \in DOMAIN hints}]
    /\ UNCHANGED <<shown, hints, events, accepting, scansMet>>

\* The rows of a list at some of its places: they are told apart by their ids, not by
\* the order of the insertion.
RowsAt(list, places) == [n \in 1 .. Cardinality(places) |-> list[SetToSeq(places)[n]]]

\* A variant that takes what is known for new as well.
Fresh_All(s) == DOMAIN scan[s].found

\* Where in the list the hints are that have no row.
Fresh(s) == {k \in DOMAIN scan[s].found :
                scan[s].found[k].ref = NoRef \/ scan[s].found[k].ref \notin scan[s].known}

\* They are inserted, all or none; a failure ends the scan.
Save(s) ==
    /\ scan[s].at = "save"
    /\ \/ /\ Len(hints) + Cardinality(Fresh(s)) <= MaxHints
          /\ hints' = hints \o RowsAt(scan[s].found, Fresh(s))
          /\ scan' = [scan EXCEPT ![s] = [at |-> "alerts", found |-> <<>>, known |-> {}]]
       \/ /\ scan' = [scan EXCEPT ![s] = [at |-> "ended", found |-> <<>>, known |-> {}]]
          /\ UNCHANGED hints
    /\ UNCHANGED <<shown, events, accepting, scansMet>>

\* A subscription that can soon be cancelled no more makes one hint in every scan:
\* a hint of this source has no reference to be recognised by.
Alert(s) ==
    /\ scan[s].at = "alerts"
    /\ hints' \in {hints} \cup (IF Len(hints) < MaxHints
                               THEN {Append(hints, Row("finance", NoRef))} ELSE {})
    /\ scan' = [scan EXCEPT ![s].at = "ended"]
    /\ UNCHANGED <<shown, events, accepting, scansMet>>

-----------------------------------------------------------------------------
(* The user *)

\* The row is loaded; its status is not looked at.
AcceptHint(a, n) ==
    /\ accepting[a].at = "idle" /\ n \in DOMAIN hints
    /\ accepting' = [accepting EXCEPT ![a] = [at |-> "save", row |-> n]]
    /\ UNCHANGED <<shown, hints, events, scan, scansMet>>

SaveAccepted(a) ==
    /\ accepting[a].at = "save"
    /\ hints' = [hints EXCEPT ![accepting[a].row].status = "accepted"]
    /\ accepting' = [accepting EXCEPT ![a].at = "create"]
    /\ UNCHANGED <<shown, events, scan, scansMet>>

\* The calendar takes the event or fails, and then the hint stays accepted.
CreateEvent(a) ==
    /\ accepting[a].at = "create"
    /\ events' \in {events, [events EXCEPT ![accepting[a].row] = @ + 1]}
    /\ accepting' = [accepting EXCEPT ![a].at = "ended"]
    /\ UNCHANGED <<shown, hints, scan, scansMet>>

DismissHint(n) ==
    /\ n \in DOMAIN hints
    /\ hints' = [hints EXCEPT ![n].status = "dismissed"]
    /\ UNCHANGED <<shown, events, scan, accepting, scansMet>>

HintsNext ==
    \/ \E i \in Items : ItemArrives(i)
    \/ \E source \in Sources : MarkRead(source)
    \/ \E s \in Scans : scanUser(s) \/ LookUp(s) \/ Save(s) \/ Alert(s)
    \/ \E a \in Accepts, n \in 1 .. MaxHints : AcceptHint(a, n)
    \/ \E a \in Accepts : SaveAccepted(a) \/ CreateEvent(a)
    \/ \E n \in 1 .. MaxHints : DismissHint(n)

HintsSpec == HintsInit /\ [][HintsNext]_hintVars

-----------------------------------------------------------------------------
\* Unless two scans were under way at once, the user is offered a mail or document
\* once, however it was answered, and although scans, answers and mails interleave.
OfferedOnce ==
    ~scansMet =>
        \A m, n \in DOMAIN hints :
            hints[m].source = hints[n].source /\ hints[m].ref = hints[n].ref
                /\ hints[m].ref # NoRef => m = n

\* Nothing gets into the calendar that the user has not accepted, and no more often
\* than the request to accept was sent.
EventsAccepted ==
    \A n \in DOMAIN hints :
        /\ events[n] <= Cardinality({a \in Accepts : accepting[a].row = n})
        /\ events[n] > 0 => hints[n].status # "pending"

HintsSound == OfferedOnce /\ EventsAccepted

=============================================================================
