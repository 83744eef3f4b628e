------------------------------- MODULE Bridge -------------------------------
(***************************************************************************)
(* bridge.Bridge at run time: the MQTT network thread and the mochad       *)
(* client thread call into StateManager, and each executes the list it got *)
(* back, one action at a time, while the other does the same.  The broker  *)
(* keeps the last retained message of each topic and publishes the will    *)
(* ("offline") when it loses the session.                                  *)
(*                                                                         *)
(* Left to other modules: the deque behind a device command and the        *)
(* readiness of the USB controller (DeviceCommandQueue; here a command may *)
(* be queued at any time), the sockets and the stop of the mochad client   *)
(* (MochadClient), start and stop of the process and the health file       *)
(* (Lifecycle).  What discovery messages contain is not modelled.          *)
(***************************************************************************)
EXTENDS StateManager

VARIABLES
    phase,      \* [Thread -> where the thread's connection stands]
    acts,       \* [Thread -> the actions it has still to execute]
    mqttUp,     \* MqttClient._connected
    session,    \* the broker's side: "none", "alive", "lost" (and not noticed)
    sock,       \* MochadClient._socket: "none", "up", "broken"
    retained,   \* the broker: [online, mochad, state]
    overlapped, \* ghost: two lists have been in execution at the same time ...
    cutShort    \* ghost: ... or a list was cut short, by a send that failed or a
                \* message that could not be built, since the last replay that
                \* ran alone

Thread == {"mqtt", "mochad"}
Other(t) == IF t = "mqtt" THEN "mochad" ELSE "mqtt"

links  == <<mqttUp, session, sock>>
ghosts == <<overlapped, cutShort>>
vars   == <<smVars, phase, acts, links, retained, ghosts>>

Idle(t) == acts[t] = << >>

Init ==
    /\ SMInit
    /\ phase = [t \in Thread |-> "offline"]
    /\ acts = [t \in Thread |-> << >>]
    /\ mqttUp = FALSE /\ session = "none" /\ sock = "none"
    /\ retained = [online |-> FALSE, mochad |-> FALSE,
                   state |-> [a \in Address |-> NONE]]
    /\ overlapped = FALSE /\ cutShort = FALSE

\* A handler starts: the operation on the state is done, its list begins.
Begin(t, actions) ==
    /\ Idle(t)
    /\ acts' = [acts EXCEPT ![t] = actions]
    /\ overlapped' = (overlapped \/ ~Idle(Other(t)))
    /\ UNCHANGED <<links, retained, cutShort>>

Enter(t, p) == phase' = [phase EXCEPT ![t] = p]

(***************************************************************************)
(* Executing one action.                                                   *)
(***************************************************************************)
PublishTypes == {"availability", "status", "discovery", "state", "event",
                 "command_event", "attributes"}

\* What the broker retains after a publish, given that the session is alive.
Retain(act) ==
    CASE act.type = "availability" -> [retained EXCEPT !.online = act.online]
      [] act.type = "status"       -> [retained EXCEPT !.mochad = act.mochad]
      [] act.type = "state"        -> [retained EXCEPT !.state[act.address] = act.state]
      [] OTHER                     -> retained

Done(t) == acts' = [acts EXCEPT ![t] = Tail(@)]

\* execute_action drops a publish while the client is disconnected; one that
\* the client accepts is lost if the session is gone already (QoS 0).
Delivered == mqttUp /\ session = "alive"
ExecutePublish(t) ==
    /\ ~Idle(t) /\ Head(acts[t]).type \in PublishTypes
    /\ Done(t)
    /\ retained' = IF Delivered THEN Retain(Head(acts[t])) ELSE retained
    /\ UNCHANGED <<smVars, phase, links, ghosts>>

\* The bridge's own discovery messages, those of a hello or health line and
\* of a cleanup.
BridgeDiscovery == PublishDiscovery(NONE)

\* Building the message of a device raises (DiscoveryError), as the present
\* configuration has it (DeviceSetup): execute_actions catches other errors
\* only, and the rest of the handler is abandoned to its caller, who logs it.
ExecuteDiscoveryRaises(t) ==
    /\ ~Idle(t) /\ Head(acts[t]).type = "discovery"
    /\ mqttUp \/ Head(acts[t]) = BridgeDiscovery
    /\ acts' = [acts EXCEPT ![t] = << >>]
    /\ cutShort' = (cutShort \/ Tail(acts[t]) # << >>)
    /\ UNCHANGED <<smVars, phase, links, retained, overlapped>>

\* A status document made from the present values of the two clients.
StatusNow == [type |-> "status_now"]
ExecuteStatusNow(t) ==
    /\ ~Idle(t) /\ Head(acts[t]) = StatusNow
    /\ acts' = [acts EXCEPT ![t] =
                  IF mqttUp THEN << PublishStatus(TRUE, sock # "none") >> \o Tail(@)
                            ELSE Tail(@)]
    /\ UNCHANGED <<smVars, phase, links, retained, ghosts>>

\* A device command: _device_command_queue_reason, which finds the client
\* disconnected or the controller not ready, queues the command and publishes
\* a status document; with a socket it may also find no reason.
Transmit(act) == [act EXCEPT !.type = "transmit"]
ExecuteDeviceCommand(t) ==
    /\ ~Idle(t) /\ Head(acts[t]).type = "send"
    /\ \/ acts' = [acts EXCEPT ![t] = << StatusNow >> \o Tail(@)]
       \/ /\ sock # "none"
          /\ acts' = [acts EXCEPT ![t] = << Transmit(Head(@)) >> \o Tail(@)]
    /\ UNCHANGED <<smVars, phase, links, retained, ghosts>>

\* send_line, for a command or a status request.
ExecuteSend(t) ==
    /\ ~Idle(t) /\ Head(acts[t]).type \in {"transmit", "request_status"}
    /\ sock # "none"
    /\ Done(t)
    /\ UNCHANGED <<smVars, phase, links, retained, ghosts>>

\* _request_mochad_diagnostics: three lines; an error ends only the requests.
RequestDiagnostics == [type |-> "request_diagnostics"]
ExecuteDiagnosticsRequest(t) ==
    /\ ~Idle(t) /\ Head(acts[t]) = RequestDiagnostics
    /\ Done(t)
    /\ UNCHANGED <<smVars, phase, links, retained, ghosts>>

\* The socket is gone or its peer is: execute_actions gives up the rest of the
\* list, and the handler goes on after it, which may be with the diagnostics.
ExecuteSendFails(t) ==
    /\ ~Idle(t) /\ Head(acts[t]).type \in {"transmit", "request_status"}
    /\ sock # "up"
    /\ acts' = [acts EXCEPT ![t] = IF RequestDiagnostics \in ToSet(@)
                                   THEN << RequestDiagnostics >> ELSE << >>]
    /\ cutShort' = TRUE
    /\ UNCHANGED <<smVars, phase, links, retained, overlapped>>

ExecuteLog(t) ==
    /\ ~Idle(t) /\ Head(acts[t]) = LogUnknownEvent
    /\ Done(t)
    /\ UNCHANGED <<smVars, phase, links, retained, ghosts>>

Execute(t) ==
    \/ ExecutePublish(t) \/ ExecuteStatusNow(t)
    \/ ExecuteDeviceCommand(t) \/ ExecuteSend(t) \/ ExecuteSendFails(t)
    \/ ExecuteDiagnosticsRequest(t) \/ ExecuteLog(t) \/ ExecuteDiscoveryRaises(t)

(***************************************************************************)
(* The MQTT thread.                                                        *)
(***************************************************************************)
\* MqttClient._on_connect sets the flag, ...
MqttOnConnect ==
    /\ phase["mqtt"] = "offline" /\ Idle("mqtt")
    /\ session' = "alive" /\ mqttUp' = TRUE
    /\ Enter("mqtt", "accepted")
    /\ UNCHANGED <<smVars, acts, sock, retained, ghosts>>

\* ... also for a connection the broker refuses and then closes: it never looks
\* at the reason code.  What is published meanwhile is lost.
MqttOnConnectRefused ==
    /\ phase["mqtt"] = "offline" /\ Idle("mqtt")
    /\ session' = "lost" /\ mqttUp' = TRUE
    /\ Enter("mqtt", "accepted")
    /\ UNCHANGED <<smVars, acts, sock, retained, ghosts>>

\* ... then calls Bridge._on_mqtt_connected: the replay.  If the other thread
\* executes nothing, this wipes out whatever was wrong on the broker.
OnMqttConnected ==
    /\ phase["mqtt"] = "accepted" /\ Idle("mqtt")
    /\ MqttConnected
    /\ acts' = [acts EXCEPT !["mqtt"] = MqttConnectedActions \o << BridgeDiscovery >>]
    /\ Enter("mqtt", "online")
    /\ overlapped' = ~Idle("mochad")
    /\ cutShort' = FALSE
    /\ UNCHANGED <<links, retained>>

\* The broker loses the session and publishes the will.
SessionLost ==
    /\ session = "alive"
    /\ session' = "lost"
    /\ retained' = [retained EXCEPT !.online = FALSE]
    /\ UNCHANGED <<smVars, phase, acts, mqttUp, sock, ghosts>>

\* Mutant: the client's flag is not reset.
MutMqttOnDisconnect ==
    /\ phase["mqtt"] = "online" /\ Idle("mqtt")
    /\ session = "lost"
    /\ session' = "none"
    /\ Enter("mqtt", "dropped")
    /\ UNCHANGED <<smVars, acts, mqttUp, sock, retained, ghosts>>

MqttOnDisconnect ==
    /\ phase["mqtt"] = "online" /\ Idle("mqtt")
    /\ session = "lost"
    /\ session' = "none" /\ mqttUp' = FALSE
    /\ Enter("mqtt", "dropped")
    /\ UNCHANGED <<smVars, acts, sock, retained, ghosts>>

OnMqttDisconnected ==
    /\ phase["mqtt"] = "dropped"
    /\ MqttDisconnected
    /\ Begin("mqtt", MqttDisconnectedActions)
    /\ Enter("mqtt", "offline")

\* The checks of _on_mqtt_command that do not concern the text of the message.
Understood(a, c) == c \in ConfigFor(a).supported_commands

\* A message on a command topic.  What is not understood is logged and changes
\* nothing.
OnMqttCommand ==
    /\ phase["mqtt"] = "online"
    /\ \E a \in Address, c \in DeviceCommand :
         /\ Understood(a, c)
         /\ OptimisticUpdate(a, c)
         /\ Begin("mqtt", OptimisticUpdateActions(a, c))
    /\ UNCHANGED phase

(***************************************************************************)
(* The mochad thread.                                                      *)
(***************************************************************************)
MochadConnect ==
    /\ phase["mochad"] = "offline" /\ Idle("mochad")
    /\ sock' = "up"
    /\ Enter("mochad", "installed")
    /\ UNCHANGED <<smVars, acts, mqttUp, session, retained, ghosts>>

OnMochadConnected ==
    /\ phase["mochad"] = "installed"
    /\ MochadConnected
    /\ Begin("mochad", MochadConnectedActions \o << RequestDiagnostics >>)
    /\ Enter("mochad", "online")

PeerGone ==
    /\ sock = "up"
    /\ sock' = "broken"
    /\ UNCHANGED <<smVars, phase, acts, mqttUp, session, retained, ghosts>>

MochadDisconnect ==
    /\ phase["mochad"] = "online" /\ Idle("mochad")
    /\ sock = "broken"
    /\ sock' = "none"
    /\ Enter("mochad", "closed")
    /\ UNCHANGED <<smVars, acts, mqttUp, session, retained, ghosts>>

\* Mutant: the callback is called only after a connection.
MutOnMochadDisconnected ==
    /\ phase["mochad"] = "closed"
    /\ MochadDisconnected
    /\ Begin("mochad", MochadDisconnectedActions)
    /\ Enter("mochad", "offline")

\* The disconnect callback, after a connection and after each failed attempt.
OnMochadDisconnected ==
    /\ phase["mochad"] \in {"closed", "offline"}
    /\ MochadDisconnected
    /\ Begin("mochad", MochadDisconnectedActions)
    /\ Enter("mochad", "offline")

\* _on_mochad_line: the events of the parser, and the diagnostics of mochad.
Reading == phase["mochad"] = "online" /\ UNCHANGED phase

OnDeviceEvent ==
    /\ Reading
    /\ \E a \in Address, c \in EventCommand :
         /\ ApplyDeviceEvent(a, c)
         /\ Begin("mochad", ApplyDeviceEventActions(a, c))

OnHouseEvent ==
    /\ Reading
    /\ \E h \in House, c \in HouseCommand :
         /\ ApplyHouseEvent(h, c)
         /\ Begin("mochad", ApplyHouseEventActions(h, c))

OnStatusSnapshot ==
    /\ Reading
    /\ \E S \in SUBSET Address : \E snap \in [S -> {"ON", "OFF"}] :
         /\ ApplyStatusSnapshot(snap)
         /\ Begin("mochad", ApplyStatusSnapshotActions(snap))

OnUnknownLine ==
    /\ Reading
    /\ ApplyUnknownEvent
    /\ Begin("mochad", ApplyUnknownEventActions)

\* A diagnostic line: "capabilities" publishes a status document, "hello" and
\* "health" also discovery, a flush of the queue a second document.
OnDiagnosticLine ==
    /\ Reading
    /\ UNCHANGED smVars
    /\ \E actions \in {<< StatusNow >>, << StatusNow, BridgeDiscovery >>,
                       << StatusNow, BridgeDiscovery, StatusNow >>} :
         Begin("mochad", actions)

MqttThread ==
    \/ Execute("mqtt")
    \/ OnMqttConnected \/ MqttOnDisconnect \/ OnMqttDisconnected

MochadThread ==
    \/ Execute("mochad")
    \/ OnMochadConnected \/ MochadDisconnect \/ OnMochadDisconnected

Environment ==
    \/ MqttOnConnect \/ MqttOnConnectRefused \/ SessionLost \/ MochadConnect \/ PeerGone
    \/ OnMqttCommand
    \/ OnDeviceEvent \/ OnHouseEvent \/ OnStatusSnapshot
    \/ OnUnknownLine \/ OnDiagnosticLine

Next == MqttThread \/ MochadThread \/ Environment

\* Both threads run.  Whether a connection is accepted, a line or a command
\* arrives or a peer goes away is not up to the bridge.
Spec == Init /\ [][Next]_vars /\ WF_vars(MqttThread) /\ WF_vars(MochadThread)

-----------------------------------------------------------------------------
\* Nothing is being executed and neither connection is half way.
Quiet ==
    /\ \A t \in Thread : Idle(t)
    /\ phase["mqtt"] = "online" /\ session = "alive"
    /\ phase["mochad"] \in {"online", "offline"}

ShowsAvailability == retained.online = Available /\ retained.mochad = mochadConn
ShowsStates == \A a \in Address : retained.state[a] = dev[a].current

\* The bridge's own variables; what it retains is what it may publish.
TypeOK ==
    /\ phase["mqtt"] \in {"offline", "accepted", "online", "dropped"}
    /\ phase["mochad"] \in {"offline", "installed", "online", "closed"}
    /\ retained.state \in [Address -> RecordedState \cup {NONE}]
    /\ mqttUp = (phase["mqtt"] \in {"accepted", "online"})
    /\ (sock = "none") = (phase["mochad"] \in {"offline", "closed"})

\* Whenever the bridge is at rest the broker shows its state, unless since
\* the last undisturbed replay two handlers overlapped or a list was cut
\* short, by a send that failed or a device that cannot be announced: lost
\* sessions, dropped publishes, the will, reconnects in any order and
\* suppressed duplicates never leave a wrong value retained by themselves, nor
\* does a replay that was executed into a refused connection.
SyncedUnlessDisturbed ==
    Quiet /\ ~overlapped /\ ~cutShort => ShowsAvailability /\ ShowsStates

\* A mochad that stays away is shown as unavailable even after a race: each
\* failed attempt to connect calls the disconnect callback again.
DownBecomesVisible ==
    (<>[](phase["mochad"] = "offline") /\ <>[](session = "alive"))
        => <>[](~retained.online /\ ~retained.mochad)

\* README.md:129: "MQTT and mochad availability remain visible in the
\* retained bridge status document"; x10/bridge/availability likewise, when no
\* list was cut short, in whatever order the two threads executed them.
AvailabilityVisible == Quiet /\ ~cutShort => ShowsAvailability
=============================================================================
