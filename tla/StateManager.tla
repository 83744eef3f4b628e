---------------------------- MODULE StateManager ----------------------------
(***************************************************************************)
(* state.StateManager: the in-memory state of the bridge.                  *)
(*                                                                         *)
(* Every operation of the class runs under one re-entrant lock, so each is *)
(* one atomic action here; it changes the state and RETURNS a list of      *)
(* actions that the calling thread executes later, outside the lock.  An   *)
(* operation Op is therefore two definitions: Op, the state change, and    *)
(* OpActions, the list it returns, both in terms of the state before the   *)
(* call.  Timestamps, statistics and previous_state are written and never  *)
(* read by the bridge; they are left out.                                  *)
(*                                                                         *)
(* A Python dict iterates in insertion order.  The lists for several       *)
(* devices are given here in one fixed order of the addresses: the entries *)
(* of different devices concern different topics.                          *)
(***************************************************************************)
EXTENDS X10Model, Sequences, FiniteSets, SequencesExt

CONSTANT OptimisticUpdates  \* config: record a commanded state at once

ASSUME OptimisticAssumption == OptimisticUpdates \in BOOLEAN
ASSUME FiniteAssumption == IsFiniteSet(Address)     \* there are 256 of them

VARIABLES
    known,      \* the keys of _devices
    dev,        \* _devices, a fresh record for an address not yet known
    mqttConn,   \* _mqtt_connected
    mochadConn  \* _mochad_connected

smVars == <<known, dev, mqttConn, mochadConn>>

RecordedState == {"ON", "OFF", "DIM"}

DeviceState ==
    [current    : RecordedState \cup {NONE},
     pending    : DeviceCommand \cup {NONE},
     discovered : BOOLEAN,
     available  : BOOLEAN]

FreshDevice ==
    [current |-> NONE, pending |-> NONE, discovered |-> FALSE, available |-> FALSE]

SMInit ==
    /\ known = {a \in Configured : AddressAllowed(a)}
    /\ dev = [a \in Address |-> FreshDevice]
    /\ mqttConn = FALSE
    /\ mochadConn = FALSE

(***************************************************************************)
(* The actions an operation may return (models.BridgeAction).              *)
(***************************************************************************)
PublishAvailability(o)   == [type |-> "availability", online |-> o]
PublishStatus(q, m)      == [type |-> "status", mqtt |-> q, mochad |-> m]
PublishDiscovery(a)      == [type |-> "discovery", address |-> a]
PublishState(a, s)       == [type |-> "state", address |-> a, state |-> s]
PublishEvent(a)          == [type |-> "event", address |-> a]
PublishCommandEvent(a)   == [type |-> "command_event", address |-> a]
PublishAttributes(a, c)  == [type |-> "attributes", address |-> a, command |-> c]
SendDeviceCommand(a, c)  == [type |-> "send", address |-> a, command |-> c]
RequestStatus            == [type |-> "request_status"]
LogUnknownEvent          == [type |-> "log"]

\* _bridge_status_actions for given values of the two connection flags.
BridgeStatusActions(q, m) ==
    << PublishAvailability(q /\ m), PublishStatus(q, m) >>

Available == mqttConn /\ mochadConn

(***************************************************************************)
(* Helpers on one device record.                                           *)
(***************************************************************************)
\* _clear_confirmed_pending: the pending command is compared with the
\* authoritative state, so a pending BRIGHT is never confirmed.
ClearConfirmedPending(d, s) ==
    [d EXCEPT !.pending = IF @ = s THEN NONE ELSE @]

\* _set_device_state: the new record, and the publish it returns.
SetDeviceState(d, c, clear) ==
    LET s == AuthoritativeState(c)
        e == [d EXCEPT !.current = s]
    IN  IF clear THEN ClearConfirmedPending(e, s) ELSE e

\* Mutant: the state is published whether it changed or not.
MutSetDeviceStateActions(a, c) == << PublishState(a, AuthoritativeState(c)) >>

SetDeviceStateActions(a, c) ==
    IF dev[a].current = AuthoritativeState(c)
    THEN << >>
    ELSE << PublishState(a, AuthoritativeState(c)) >>

\* _discovery_actions: announce once per MQTT connection.
Discover(d) == [d EXCEPT !.discovered = @ \/ mqttConn]
\* Mutant: a device is announced only if it was known before the call.
MutDiscoveryActions(a) ==
    IF mqttConn /\ ~dev[a].discovered /\ a \in known
    THEN << PublishDiscovery(a) >> ELSE << >>

DiscoveryActions(a) ==
    IF mqttConn /\ ~dev[a].discovered THEN << PublishDiscovery(a) >> ELSE << >>

Stateful(a) == ConfigFor(a).stateful

\* The lists of several devices, one after the other.
ForEach(S, ActionsOf(_)) ==
    FlattenSeq([i \in 1..Cardinality(S) |-> ActionsOf(SetToSeq(S)[i])])

(***************************************************************************)
(* optimistic_update: a command of a user is about to be sent.             *)
(***************************************************************************)
CommandAccepted(a, c) ==
    AddressAllowed(a) /\ c \in ConfigFor(a).supported_commands

OptimisticUpdate(a, c) ==
    LET asked  == Discover([dev[a] EXCEPT !.pending = c])
        record == IF Stateful(a) /\ OptimisticUpdates
                  THEN SetDeviceState(asked, c, FALSE)
                  ELSE asked
    IN  /\ known' = IF AddressAllowed(a) THEN known \cup {a} ELSE known
        /\ dev' = IF CommandAccepted(a, c) THEN [dev EXCEPT ![a] = record] ELSE dev
        /\ UNCHANGED <<mqttConn, mochadConn>>

OptimisticUpdateActions(a, c) ==
    IF ~CommandAccepted(a, c) THEN << >>
    ELSE DiscoveryActions(a) \o << SendDeviceCommand(a, c) >> \o
         ( IF ~Stateful(a) THEN << PublishCommandEvent(a) >>
           ELSE << PublishAttributes(a, c) >> \o
                ( IF OptimisticUpdates
                  THEN SetDeviceStateActions(a, c)
                  ELSE << >> ) )

(***************************************************************************)
(* apply(DeviceEvent): mochad saw a command for one device.                *)
(***************************************************************************)
\* Mutant: chimes are not excepted.
MutEventSetsState(a, c) == c \in STATE_COMMANDS

EventSetsState(a, c) == Stateful(a) /\ c \in STATE_COMMANDS

ApplyDeviceEvent(a, c) ==
    LET seen   == Discover([dev[a] EXCEPT !.available = TRUE])
        record == IF EventSetsState(a, c) THEN SetDeviceState(seen, c, TRUE) ELSE seen
    IN  /\ known' = IF AddressAllowed(a) THEN known \cup {a} ELSE known
        /\ dev' = IF AddressAllowed(a) THEN [dev EXCEPT ![a] = record] ELSE dev
        /\ UNCHANGED <<mqttConn, mochadConn>>

ApplyDeviceEventActions(a, c) ==
    IF ~AddressAllowed(a) THEN << >>
    ELSE DiscoveryActions(a) \o << PublishEvent(a) >> \o
         ( IF EventSetsState(a, c) THEN SetDeviceStateActions(a, c) ELSE << >> )

(***************************************************************************)
(* apply(HouseEvent): mochad saw a command for a whole house.              *)
(***************************************************************************)
HouseTargets(h, c) ==
    {a \in known : /\ HouseAllowed(h)
                   /\ c \in HouseCommand
                   /\ HouseOf[a] = h
                   /\ Stateful(a)
                   /\ RespondsTo(a, c)}

HouseState(c) == IF c = "ALL_LIGHTS_ON" THEN "ON" ELSE "OFF"

ApplyHouseEvent(h, c) ==
    /\ dev' = [a \in Address |->
                 IF a \in HouseTargets(h, c)
                 THEN SetDeviceState([dev[a] EXCEPT !.available = TRUE],
                                     HouseState(c), TRUE)
                 ELSE dev[a]]
    /\ UNCHANGED <<known, mqttConn, mochadConn>>

ApplyHouseEventActions(h, c) ==
    ForEach(HouseTargets(h, c), LAMBDA a : SetDeviceStateActions(a, HouseState(c)))

(***************************************************************************)
(* apply(StatusSnapshot): the complete answer to a status request, a       *)
(* function from some addresses to ON or OFF.  A device that is first seen *)
(* here is recorded, but no discovery action is returned for it.           *)
(***************************************************************************)
\* Mutant: the housecode filter is forgotten on this path.
MutSnapshotTargets(snap) == {a \in DOMAIN snap : Stateful(a)}

SnapshotTargets(snap) == {a \in DOMAIN snap : AddressAllowed(a) /\ Stateful(a)}

ApplyStatusSnapshot(snap) ==
    /\ known' = known \cup {a \in DOMAIN snap : AddressAllowed(a)}
    /\ dev' = [a \in Address |->
                 IF a \in SnapshotTargets(snap)
                 THEN SetDeviceState([dev[a] EXCEPT !.available = TRUE],
                                     snap[a], TRUE)
                 ELSE dev[a]]
    /\ UNCHANGED <<mqttConn, mochadConn>>

ApplyStatusSnapshotActions(snap) ==
    ForEach(SnapshotTargets(snap), LAMBDA a : SetDeviceStateActions(a, snap[a]))

(***************************************************************************)
(* apply(UnknownEvent) only counts and logs.                               *)
(***************************************************************************)
ApplyUnknownEvent        == UNCHANGED smVars
ApplyUnknownEventActions == << LogUnknownEvent >>

(***************************************************************************)
(* The connection callbacks.                                               *)
(***************************************************************************)
MqttConnected ==
    /\ mqttConn' = TRUE
    /\ dev' = [a \in Address |->
                 IF a \in known THEN [dev[a] EXCEPT !.discovered = TRUE] ELSE dev[a]]
    /\ UNCHANGED <<known, mochadConn>>

\* Mutant: the replay after a reconnect leaves the states out.
MutAnnounceActions(a) == << PublishDiscovery(a) >>

AnnounceActions(a) ==
    << PublishDiscovery(a) >> \o
    ( IF dev[a].current # NONE THEN << PublishState(a, dev[a].current) >> ELSE << >> )

MqttConnectedActions ==
    BridgeStatusActions(TRUE, mochadConn) \o ForEach(known, AnnounceActions)

MqttDisconnected ==
    /\ mqttConn' = FALSE
    /\ UNCHANGED <<known, dev, mochadConn>>

MqttDisconnectedActions == BridgeStatusActions(FALSE, mochadConn)

MochadConnected ==
    /\ mochadConn' = TRUE
    /\ UNCHANGED <<known, dev, mqttConn>>

MochadConnectedActions == BridgeStatusActions(mqttConn, TRUE) \o << RequestStatus >>

MochadDisconnected ==
    /\ mochadConn' = FALSE
    /\ dev' = [a \in Address |->
                 IF a \in known THEN [dev[a] EXCEPT !.available = FALSE] ELSE dev[a]]
    /\ UNCHANGED <<known, mqttConn>>

\* Mutant: the list is made before the flag is cleared.
MutMochadDisconnectedActions == BridgeStatusActions(mqttConn, mochadConn)

MochadDisconnectedActions == BridgeStatusActions(mqttConn, FALSE)
=============================================================================
