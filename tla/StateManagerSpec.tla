-------------------------- MODULE StateManagerSpec --------------------------
(***************************************************************************)
(* StateManager on its own, called with every input in every order, and    *)
(* what the lists it returns are good for.  mirror is what a broker would  *)
(* retain if each list were executed completely before the next call, with *)
(* publishes dropped while MQTT is disconnected: the ideal executor.  The  *)
(* threads of the bridge are not ideal executors; see Bridge.              *)
(***************************************************************************)
EXTENDS StateManager, Integers

VARIABLES
    emitted,    \* the list the last call returned
    mirror      \* [state : Address -> .., online : BOOLEAN, announced : SUBSET Address]

callVars == <<known, dev, mqttConn, mochadConn, emitted, mirror>>

CallsInit ==
    /\ SMInit
    /\ emitted = << >>
    /\ mirror = [state |-> [a \in Address |-> NONE], online |-> FALSE,
                 announced |-> {}]

\* A broker after one more message of the bridge.
ExecuteOn(m, act) ==
    CASE act.type = "state"        -> [m EXCEPT !.state[act.address] = act.state]
      [] act.type = "availability" -> [m EXCEPT !.online = act.online]
      [] act.type = "discovery"    -> [m EXCEPT !.announced = @ \cup {act.address}]
      [] OTHER                     -> m

\* ... and after a whole list, one message after the other.
ExecuteAll(m, actions) ==
    LET after[i \in 0 .. Len(actions)] ==
          IF i = 0 THEN m ELSE ExecuteOn(after[i - 1], actions[i])
    IN  after[Len(actions)]

Returning(actions) ==
    /\ emitted' = actions
    /\ mirror' = IF mqttConn' THEN ExecuteAll(mirror, actions) ELSE mirror

CallOptimisticUpdate ==
    \E a \in Address, c \in DeviceCommand :
        OptimisticUpdate(a, c) /\ Returning(OptimisticUpdateActions(a, c))

CallApplyDeviceEvent ==
    \E a \in Address, c \in EventCommand :
        ApplyDeviceEvent(a, c) /\ Returning(ApplyDeviceEventActions(a, c))

CallApplyHouseEvent ==
    \E h \in House, c \in EventCommand :
        ApplyHouseEvent(h, c) /\ Returning(ApplyHouseEventActions(h, c))

CallApplyStatusSnapshot ==
    \E S \in SUBSET Address : \E snap \in [S -> {"ON", "OFF"}] :
        ApplyStatusSnapshot(snap) /\ Returning(ApplyStatusSnapshotActions(snap))

CallApplyUnknownEvent == ApplyUnknownEvent /\ Returning(ApplyUnknownEventActions)

CallMqttConnected     == MqttConnected /\ Returning(MqttConnectedActions)
CallMqttDisconnected  == MqttDisconnected /\ Returning(MqttDisconnectedActions)
CallMochadConnected   == MochadConnected /\ Returning(MochadConnectedActions)
CallMochadDisconnected ==
    MochadDisconnected /\ Returning(MochadDisconnectedActions)

CallsNext ==
    \/ CallOptimisticUpdate
    \/ CallApplyDeviceEvent
    \/ CallApplyHouseEvent
    \/ CallApplyStatusSnapshot
    \/ CallApplyUnknownEvent
    \/ CallMqttConnected
    \/ CallMqttDisconnected
    \/ CallMochadConnected
    \/ CallMochadDisconnected

CallsSpec == CallsInit /\ [][CallsNext]_callVars

-----------------------------------------------------------------------------
\* The shape of the manager's state (state.DeviceState and the two flags);
\* in particular BRIGHT and STATUS_* never become the recorded state.
ManagerTypeOK ==
    /\ known \subseteq Address
    /\ dev \in [Address -> DeviceState]
    /\ mqttConn \in BOOLEAN
    /\ mochadConn \in BOOLEAN

\* A device whose configuration is not stateful (a chime) never gets a
\* recorded state, whichever of the four paths names it: a command, an event,
\* a house event or a status snapshot.  README: "Chimes are not stateful".
StatelessHasNoState ==
    \A a \in Address : ~Stateful(a) => dev[a].current = NONE

\* The housecode filter holds on every path: an address of a filtered house
\* is never recorded, and nothing about it is ever changed.
FilteredHousesUnknown ==
    \A a \in Address : ~AddressAllowed(a) => a \notin known /\ dev[a] = FreshDevice

\* Executed one after the other, the returned lists keep the broker equal to
\* the manager whenever MQTT is connected: changes made and dropped while it
\* was disconnected are replayed by mqtt_connected, and suppressing a
\* duplicate never leaves an old state retained.
MirrorInSync ==
    mqttConn => /\ \A a \in Address : mirror.state[a] = dev[a].current
                /\ mirror.online = Available

\* While MQTT is connected a device marked discovered has been announced on
\* this connection or an earlier one: the flag never gets ahead of the list.
DiscoveredIsAnnounced ==
    mqttConn => {a \in Address : dev[a].discovered} \subseteq mirror.announced

\* A retained state is handed out only when the recorded state changes, or in
\* the replay of mqtt_connected, which starts with the availability.
\* (docs/capability-device-registry.md: duplicates may be suppressed).
StatePublishedOnlyOnChange ==
    [][ \A i \in DOMAIN emitted' :
          emitted'[i].type = "state" =>
            LET a == emitted'[i].address
            IN  /\ dev'[a].current = emitted'[i].state
                /\ \/ dev[a].current # dev'[a].current
                   \/ emitted'[1].type = "availability" ]_callVars
=============================================================================
