---------------------------- MODULE MochadReader ----------------------------
(***************************************************************************)
(* What the client thread reads: MochadClient composed with the text that  *)
(* mochad sends over its connections, the line buffer of _read_loop,       *)
(* protocol.ProtocolParser with its StatusParser, and the states that the  *)
(* bridge takes from the parsed lines.                                     *)
(*                                                                         *)
(* mochad is external.  It answers each "st" by a report: "Device          *)
(* selected", one line for every house it knows something about, "End      *)
(* status"; the lines of X10 events come at any time, also inside a        *)
(* report.  It goes on while nobody is connected and may be restarted.     *)
(* A connection may end anywhere, in the middle of a line too: text is a   *)
(* sequence of tokens, a line is its text and a newline.                   *)
(***************************************************************************)
EXTENDS MochadClient, Sequences, SequencesExt

CONSTANTS
    House,          \* the house codes, each with one device
    MaxEvents       \* bound: events and restarts of mochad, MQTT commands

ASSUME ReaderAssumption == MaxEvents \in Nat

VARIABLES
    actual,     \* [House -> what mochad knows: ON, OFF or UNKNOWN]
    events,     \* how often that was told or lost, or a command came
    requests,   \* "st" lines mochad has not begun to answer
    report,     \* the report mochad is writing: houses left, what was said
    wire,       \* text on its way to the client
    buffer,     \* _read_loop: buffer
    parser,     \* StatusParser: _active and _snapshot.devices
    view,       \* the states StateManager has recorded
    assumed,    \* ghost: whose state is the bridge's guess, not mochad's word
    crossed     \* ghost: an event came between a report's line and its end

UNKNOWN == "UNKNOWN"
Empty   == << >>
Nothing == [h \in House |-> UNKNOWN]     \* no house known, or none named
mochadVars == <<actual, events, requests, report, crossed>>
textVars   == <<wire, buffer, parser, view, assumed>>
rvars      == <<vars, mochadVars, textVars>>

NoReport == [open |-> FALSE, left |-> {}, said |-> Nothing]
ResetParser == [active |-> FALSE, snapshot |-> Nothing]

ReaderInit ==
    /\ Init
    /\ actual = Nothing /\ events = 0
    /\ requests = 0 /\ report = NoReport /\ crossed = FALSE
    /\ wire = Empty /\ buffer = Empty /\ parser = ResetParser
    /\ view = Nothing /\ assumed = {}

(***************************************************************************)
(* Lines.  Any other text (a diagnostic, "Device status", the count of a   *)
(* house, two pieces of text run together) changes nothing.                *)
(***************************************************************************)
NL               == [kind |-> "newline"]
Selected         == [kind |-> "selected"]
HouseLine(h, v)  == [kind |-> "house", house |-> h, value |-> v]
End(said)        == [kind |-> "end", said |-> said]
EventLine(h, v)  == [kind |-> "event", house |-> h, value |-> v]
Other            == [kind |-> "other"]

LineEnd(text)  == SelectInSeq(text, LAMBDA t : t = NL)
HasLine(text)  == LineEnd(text) # 0
FirstLine(text) == IF LineEnd(text) = 2 THEN text[1] ELSE Other
AfterLine(text) == SubSeq(text, LineEnd(text) + 1, Len(text))

\* Mutant: "Device selected" begins a report and keeps what was collected.
MutFeed(p, l) ==
    CASE l.kind = "selected"           -> [p EXCEPT !.active = TRUE]
      [] l.kind = "house" /\ p.active  -> [p EXCEPT !.snapshot[l.house] = l.value]
      [] l.kind = "end" /\ p.active    -> ResetParser
      [] OTHER                         -> p

\* StatusParser.feed.
Feed(p, l) ==
    CASE l.kind = "selected"           -> [active |-> TRUE, snapshot |-> Nothing]
      [] l.kind = "house" /\ p.active  -> [p EXCEPT !.snapshot[l.house] = l.value]
      [] l.kind = "end" /\ p.active    -> ResetParser
      [] OTHER                         -> p

Returns(p, l) == l.kind = "end" /\ p.active

\* The states v after a snapshot, which names some of the houses.
WithSnapshot(v, snapshot) ==
    [h \in House |-> IF snapshot[h] = UNKNOWN THEN v[h] ELSE snapshot[h]]

\* StateManager.apply on what parse_line returns: an event, a snapshot, None.
Apply(v, p, l) ==
    CASE l.kind = "event"  -> [v EXCEPT ![l.house] = l.value]
      [] Returns(p, l)     -> WithSnapshot(v, p.snapshot)
      [] OTHER             -> v

\* The houses whose state that records.
Recorded(p, l) ==
    CASE l.kind = "event"  -> {l.house}
      [] Returns(p, l)     -> {h \in House : p.snapshot[h] # UNKNOWN}
      [] OTHER             -> {}

(***************************************************************************)
(* The client thread with its text.                                        *)
(***************************************************************************)
\* Mutant: the connection is reported and no status is asked for.
MutOnMochadConnected == ConnectCallback /\ UNCHANGED <<mochadVars, textVars>>

\* The connect callback ends in request_status, which raises and is given up
\* when the socket is closed already.
OnMochadConnected ==
    /\ ConnectCallback
    /\ requests' = IF socket # None /\ peer THEN requests + 1 ELSE requests
    /\ UNCHANGED <<actual, events, report, crossed, textVars>>

Receive ==
    /\ cpc = "read" /\ lock = "free"
    /\ Go /\ socket # None
    /\ ~HasLine(buffer)
    /\ \E k \in 1 .. Len(wire) :
         /\ buffer' = buffer \o SubSeq(wire, 1, k)
         /\ wire' = SubSeq(wire, k + 1, Len(wire))
    /\ UNCHANGED <<vars, mochadVars, parser, view, assumed>>

\* Mutant: the text is taken apart only if it holds one line.
MutOnMochadLine ==
    /\ cpc = "read"
    /\ HasLine(buffer) /\ ~HasLine(AfterLine(buffer))
    /\ buffer' = AfterLine(buffer)
    /\ parser' = Feed(parser, FirstLine(buffer))
    /\ view' = Apply(view, parser, FirstLine(buffer))
    /\ assumed' = assumed \ Recorded(parser, FirstLine(buffer))
    /\ UNCHANGED <<vars, mochadVars, wire>>

\* One turn of the inner loop, which a stop does not end.
OnMochadLine ==
    /\ cpc = "read"
    /\ HasLine(buffer)
    /\ buffer' = AfterLine(buffer)
    /\ parser' = Feed(parser, FirstLine(buffer))
    /\ view' = Apply(view, parser, FirstLine(buffer))
    /\ assumed' = assumed \ Recorded(parser, FirstLine(buffer))
    /\ UNCHANGED <<vars, mochadVars, wire>>

\* The buffer is local to _read_loop; the parser is not.
ReadLoopEnds ==
    /\ ReadEnds /\ ~HasLine(buffer)
    /\ buffer' = Empty
    /\ UNCHANGED <<mochadVars, wire, parser, view, assumed>>

\* Closing the connection drops what is on it.
CloseConnection ==
    /\ Disconnect
    /\ wire' = Empty
    /\ requests' = 0 /\ report' = NoReport /\ crossed' = FALSE
    /\ UNCHANGED <<actual, events, buffer, parser, view, assumed>>

ReaderThread ==
    \/ (RunLoop \/ CreateSocket \/ CreateFails \/ InstallSocket \/ TestConnected
          \/ DisconnectCallback \/ ReconnectDelay) /\ UNCHANGED <<mochadVars, textVars>>
    \/ OnMochadConnected \/ Receive \/ OnMochadLine \/ ReadLoopEnds \/ CloseConnection

(***************************************************************************)
(* Commands on the MQTT thread: SYNC, and a command for a device, which is *)
(* recorded as its state at once, sent or not.  And mochad.                *)
(***************************************************************************)
Sync ==
    /\ lock = "free"
    /\ socket # None
    /\ events < MaxEvents /\ events' = events + 1
    /\ requests' = IF peer THEN requests + 1 ELSE requests
    /\ UNCHANGED <<vars, actual, report, crossed, textVars>>

\* StateManager.optimistic_update.  What becomes of the command (queued,
\* dropped, a send that fails, mochad's event after a send) is for mochad's
\* own events to say.
OptimisticUpdate(h, v) ==
    /\ events < MaxEvents /\ events' = events + 1
    /\ view' = [view EXCEPT ![h] = v]
    /\ assumed' = assumed \cup {h}
    /\ UNCHANGED <<vars, actual, requests, report, crossed, wire, buffer, parser>>

\* The other end of the connection: accepted, and not yet gone.
Attached == held # None \/ (socket # None /\ peer)

Write(l) == wire' = wire \o << l, NL >>

MochadBegins ==
    /\ Attached /\ requests > 0 /\ ~report.open
    /\ requests' = requests - 1
    /\ report' = [open |-> TRUE, left |-> {h \in House : actual[h] # UNKNOWN}, said |-> Nothing]
    /\ crossed' = FALSE
    /\ Write(Selected)
    /\ UNCHANGED <<vars, actual, events, buffer, parser, view, assumed>>

MochadHouse(h) ==
    /\ Attached /\ h \in report.left
    /\ report' = [report EXCEPT !.left = @ \ {h}, !.said[h] = actual[h]]
    /\ Write(HouseLine(h, actual[h]))
    /\ UNCHANGED <<vars, actual, events, requests, crossed, buffer, parser, view, assumed>>

MochadEnds ==
    /\ Attached /\ report.open /\ report.left = {}
    /\ report' = NoReport
    /\ Write(End(report.said))
    /\ UNCHANGED <<vars, actual, events, requests, crossed, buffer, parser, view, assumed>>

\* A device is used, by somebody or by a command of the bridge: told to
\* whoever is connected.
MochadEvent(h, v) ==
    /\ events < MaxEvents /\ events' = events + 1
    /\ actual' = [actual EXCEPT ![h] = v]
    /\ IF Attached THEN Write(EventLine(h, v)) ELSE UNCHANGED wire
    /\ crossed' = (crossed \/ report.said[h] # UNKNOWN)
    /\ UNCHANGED <<vars, requests, report, buffer, parser, view, assumed>>

\* mochad is started again: its connection is gone and it knows nothing.
MochadRestarts ==
    /\ ~Attached
    /\ events < MaxEvents /\ events' = events + 1
    /\ actual' = Nothing
    /\ UNCHANGED <<vars, requests, report, crossed, textVars>>

MochadWrites == MochadBegins \/ MochadEnds \/ \E h \in House : MochadHouse(h)

ReaderNext ==
    \/ ReaderThread
    \/ (MainThread \/ EnterConnected \/ Signal \/ PeerGone) /\ UNCHANGED <<mochadVars, textVars>>
    \/ Sync
    \/ MochadWrites
    \/ \E h \in House, v \in {"ON", "OFF"} : OptimisticUpdate(h, v) \/ MochadEvent(h, v)
    \/ MochadRestarts

\* As in MochadClient; and mochad finishes the report it owes.
ReaderSpec ==
    /\ ReaderInit /\ [][ReaderNext]_rvars
    /\ SF_rvars(ReaderThread)
    /\ WF_rvars(MainThread /\ UNCHANGED <<mochadVars, textVars>>)
    /\ WF_rvars(MochadWrites)

-----------------------------------------------------------------------------
\* protocol/status.py, and tests/test_status_parser_isolation.py:129,
\* test_later_status_start_recovers_after_interrupted_status: a report whose
\* end is read is returned, with exactly what mochad said in it, whatever the
\* parser still held of reports that a lost connection had cut off.
EveryReportReturned ==
    cpc = "read" /\ HasLine(buffer) /\ FirstLine(buffer).kind = "end" =>
      /\ Returns(parser, FirstLine(buffer))
      /\ parser.snapshot = FirstLine(buffer).said

\* Once mochad has answered and everything is read, the bridge has the states
\* that mochad has, whatever happened while they were not connected and
\* whatever it had assumed before; except where a command came since mochad
\* last spoke of the device (the bridge then shows what was asked for, also
\* when the command never left), or an event came after its house's line in
\* the report (the snapshot, applied at the end of the report, overwrites it).
ViewFollows ==
    /\ cpc = "read" /\ Attached
    /\ wire = Empty /\ buffer = Empty
    /\ requests = 0 /\ ~report.open /\ ~crossed
    => \A h \in House \ assumed : actual[h] # UNKNOWN => view[h] = actual[h]

\* A status request is answered and the answer taken in completely, unless
\* the connection or the client ends: no line stays behind in the buffer.
ReportCompletes ==
    requests > 0 ~> ((requests = 0 /\ ~report.open /\ wire = Empty /\ ~HasLine(buffer))
                       \/ ~Attached \/ ~Go)
=============================================================================
