-------------------------- MODULE LifecycleProofs --------------------------
(***************************************************************************)
(* What a stop leaves behind, on the broker and in the health file: for    *)
(* every set of addresses, every moment of the signal and every            *)
(* interleaving of the main, MQTT and mochad threads.                      *)
(***************************************************************************)
EXTENDS Lifecycle, ListLemmas

\* What a handler's list is made of.
Act ==
    [type : {"availability"}, online : BOOLEAN]
      \cup [type : {"status"}, mqtt : BOOLEAN, mochad : BOOLEAN]
      \cup [type : {"discovery"}, address : Address]
      \cup [type : {"state"}, address : Address, state : RecordedState]
      \cup [type : {"request_status", "health_now"}]
      \cup [type : {"health"}, status : {"starting", "running"}]

ManagerType ==
    /\ known \subseteq Address /\ dev \in [Address -> DeviceState]
    /\ mqttConn \in BOOLEAN /\ mochadConn \in BOOLEAN
    /\ acts \in [Thread -> Seq(Act)]

FlagType ==
    /\ resume \in LoopStep \cup StartStep
    /\ running \in BOOLEAN /\ stopping \in BOOLEAN
    /\ beat \in {NONE, "starting", "running"}
    /\ mqttAlive \in BOOLEAN /\ mqttUp \in BOOLEAN /\ stopEvent \in BOOLEAN
    /\ abandoned \in BOOLEAN /\ raced \in BOOLEAN /\ told \in BOOLEAN

TypeInv == TypeOK /\ ManagerType /\ FlagType

StopStep ==
    {"stopMochad", "stopDisconnect", "join", "shutdownStatus", "shutdownAvailability", "disconnectMqtt",
     "loopStop", "stopHealth"}

\* stop() has returned to the loop; or it has passed this or that step.
Back         == stopping /\ resume \in LoopStep /\ mpc \in LoopStep \cup {"ended"}
Waited       == Back \/ mpc = "stopHealth"
Disconnected == Waited \/ mpc = "loopStop"
Withdrawn    == Disconnected \/ mpc = "disconnectMqtt"
Published    == Withdrawn \/ mpc = "shutdownAvailability"
Joined       == Published \/ mpc = "shutdownStatus"

\* Where the main thread can be.
ControlInv ==
    /\ mpc \in StopStep => stopping /\ ~running
    /\ ~stopping => resume = "new"
    /\ stopping /\ resume \in LoopStep => /\ mpc \in StopStep \cup LoopStep \cup {"ended"}
                                          /\ ~running
    /\ stopping /\ resume = "test" => mpc \in StopStep \cup {"test", "ended"}
    /\ stopping /\ resume \in LoopStep => mpc # "connected"
    /\ resume = "connected" => mpc \in {"stopMochad", "stopDisconnect"}

\* The two other threads are done, one after the other.
ThreadInv ==
    /\ mphase \in {"unborn", "exit"} => Idle("mochad")
    /\ Joined /\ ~abandoned => mphase \in {"unborn", "exit"}
    /\ Published /\ ~raced => Idle("mqtt")
    /\ Disconnected => ~mqttAlive
    /\ Waited => Idle("mqtt")

\* Until the session is ended cleanly its loss is told by the will; from then
\* on nobody is left who could take back what stop() published.
BrokerInv ==
    /\ (~stopping \/ mpc \in StopStep \ {"loopStop", "stopHealth"}) /\ ~mqttUp
         => ~retained.online
    /\ Withdrawn /\ ~abandoned /\ ~raced => ~retained.online
    /\ Published /\ ~abandoned /\ ~raced /\ told => retained.status = "shutdown"

\* Nobody writes the health file after stop() did.
HealthInv ==
    Back /\ resume = "test" /\ ~abandoned => health = "stopped"

-----------------------------------------------------------------------------
(***************************************************************************)
(* The lists of the state manager.                                         *)
(***************************************************************************)
LEMMA ActTypes ==
    /\ \A q, m \in BOOLEAN : BridgeStatusActions(q, m) \in Seq(Act)
    /\ RequestStatus \in Act /\ WriteHealthNow \in Act
    /\ \A h \in {"starting", "running"} : WriteHealth(h) \in Act
    /\ \A a \in Address : PublishDiscovery(a) \in Act
    /\ \A a \in Address, r \in RecordedState : PublishState(a, r) \in Act
<1>1. \A q, m \in BOOLEAN : PublishAvailability(q /\ m) \in Act /\ PublishStatus(q, m) \in Act
  BY DEF PublishAvailability, PublishStatus, Act
<1>2. RequestStatus \in Act /\ WriteHealthNow \in Act
  BY DEF RequestStatus, WriteHealthNow, Act
<1>3. \A h \in {"starting", "running"} : WriteHealth(h) \in Act
  BY DEF WriteHealth, Act
<1>4. \A a \in Address : PublishDiscovery(a) \in Act
  BY DEF PublishDiscovery, Act
<1>5. \A a \in Address, r \in RecordedState : PublishState(a, r) \in Act
  BY DEF PublishState, Act
<1>6. \A x, y \in Act : << x, y >> \in Seq(Act)
  OBVIOUS
<1> QED
  BY <1>1, <1>2, <1>3, <1>4, <1>5, <1>6 DEF BridgeStatusActions

\* What the items of a list carry.
LEMMA ActFacts ==
    ASSUME NEW x \in Act
    PROVE  /\ x.type = "availability" => x.online \in BOOLEAN
           /\ x.type = "health" => x.status \in {"starting", "running"}
  BY DEF Act

\* The replay of mqtt_connected is a list of such items ...
LEMMA AnnounceList ==
    ASSUME TypeInv
    PROVE  ForEach(known, AnnounceActions) \in Seq(Act)
<1> DEFINE n == Cardinality(known)
           lists == [i \in 1 .. n |-> AnnounceActions(SetToSeq(known)[i])]
<1>1. IsFiniteSet(known)
  BY FiniteAssumption, FS_Subset DEF TypeInv, ManagerType
<1>2. n \in Nat /\ \A i \in 1 .. n : SetToSeq(known)[i] \in Address
  BY <1>1, SetToSeqProperties DEF TypeInv, ManagerType
<1>3. ASSUME NEW a \in Address
      PROVE  AnnounceActions(a) \in Seq(Act)
  <2>1. << PublishDiscovery(a) >> \in Seq(Act)
    BY ActTypes
  <2>2. dev[a].current # NONE => << PublishState(a, dev[a].current) >> \in Seq(Act)
    BY ActTypes DEF TypeInv, ManagerType, DeviceState
  <2>3. << >> \in Seq(Act)
    OBVIOUS
  <2>4. (IF dev[a].current # NONE THEN << PublishState(a, dev[a].current) >> ELSE << >>)
          \in Seq(Act)
    BY <2>2, <2>3
  <2> QED
    BY <2>1, <2>4, ConcatProperties DEF AnnounceActions
<1> HIDE DEF n
<1>4. lists \in [1 .. n -> Seq(Act)]
  BY <1>2, <1>3
<1> HIDE DEF lists
<1>5. FlattenSeq(lists) \in Seq(Act)
  BY <1>2, <1>4, FlattenHolds
<1> QED
  BY <1>5 DEF ForEach, lists, n

\* ... and so is what each connection callback executes, its health write
\* included.
LEMMA HandlerLists ==
    ASSUME TypeInv
    PROVE  /\ MqttConnectedActions \o << WriteHealthNow >> \in Seq(Act)
           /\ MqttDisconnectedActions \o << WriteHealth("starting") >> \in Seq(Act)
           /\ MochadConnectedActions \o << WriteHealthNow >> \in Seq(Act)
           /\ MochadDisconnectedActions \o << WriteHealth("starting") >> \in Seq(Act)
<1>1. /\ << WriteHealthNow >> \in Seq(Act) /\ << WriteHealth("starting") >> \in Seq(Act)
      /\ << RequestStatus >> \in Seq(Act)
  BY ActTypes
<1>2. \A q, m \in BOOLEAN : BridgeStatusActions(q, m) \in Seq(Act)
  BY ActTypes
<1>3. mqttConn \in BOOLEAN /\ mochadConn \in BOOLEAN
  BY DEF TypeInv, ManagerType
<1>4. MqttConnectedActions \in Seq(Act)
  BY <1>2, <1>3, AnnounceList, ConcatProperties DEF MqttConnectedActions
<1>5. MochadConnectedActions \in Seq(Act)
  BY <1>1, <1>2, <1>3, ConcatProperties DEF MochadConnectedActions
<1>6. MqttDisconnectedActions \in Seq(Act) /\ MochadDisconnectedActions \in Seq(Act)
  BY <1>2, <1>3 DEF MqttDisconnectedActions, MochadDisconnectedActions
<1> QED
  BY <1>1, <1>4, <1>5, <1>6, ConcatProperties

-----------------------------------------------------------------------------
(***************************************************************************)
(* Types.                                                                  *)
(***************************************************************************)
LEMMA TypeInit == Init => TypeInv
<1> SUFFICES ASSUME Init PROVE TypeInv
  OBVIOUS
<1>1. FreshDevice \in DeviceState
  BY DEF FreshDevice, DeviceState
<1>2. << >> \in Seq(Act)
  OBVIOUS
<1>3. ManagerType
  BY <1>1, <1>2, ConfigAssumption DEF Init, SMInit, ManagerType
<1>4. FlagType
  BY DEF Init, FlagType, StartStep
<1>5. TypeOK
  BY DEF Init, TypeOK, StartStep
<1> QED
  BY <1>3, <1>4, <1>5 DEF TypeInv

\* A handler begins.
LEMMA BeginType ==
    ASSUME TypeInv, NEW t \in Thread, NEW list \in Seq(Act), Begin(t, list)
    PROVE  acts' \in [Thread -> Seq(Act)]
  BY DEF Begin, TypeInv, ManagerType

\* One item of a callback's list, executed by its thread, keeps the types.
LEMMA ExecuteType ==
    ASSUME TypeInv, NEW t \in Thread, Execute(t)
    PROVE  TypeInv'
<1> DEFINE act == Head(acts[t])
<1>1. acts[t] \in Seq(Act) /\ acts[t] # << >>
  BY DEF Execute, TypeInv, ManagerType, Idle
<1>2. act \in Act /\ Tail(acts[t]) \in Seq(Act)
  BY <1>1
<1> HIDE DEF act
<1>3. << WriteHealth(HealthNow) >> \in Seq(Act)
  BY ActTypes DEF HealthNow
<1>4. acts' \in [Thread -> Seq(Act)]
  <2>1. << WriteHealth(HealthNow) >> \o Tail(acts[t]) \in Seq(Act)
    BY <1>2, <1>3, ConcatProperties
  <2> QED
    BY <1>2, <2>1 DEF Execute, TypeInv, ManagerType
<1>5. health' \in {NONE, "starting", "running", "stopped"}
  BY <1>2, ActFacts DEF Execute, TypeInv, TypeOK, act
<1>6. Retain(act) \in [online : BOOLEAN, status : {NONE, "online", "offline", "shutdown"}]
  <2>1. retained \in [online : BOOLEAN, status : {NONE, "online", "offline", "shutdown"}]
    BY DEF TypeInv, TypeOK
  <2>2. CASE act.type = "availability"
    BY <1>2, <2>1, <2>2, ActFacts DEF Retain
  <2>3. CASE act.type = "status"
    BY <2>1, <2>3 DEF Retain
  <2>4. CASE act.type \notin {"availability", "status"}
    BY <2>1, <2>4 DEF Retain
  <2> QED
    BY <2>2, <2>3, <2>4
<1>7. retained' \in [online : BOOLEAN, status : {NONE, "online", "offline", "shutdown"}]
  BY <1>6 DEF Execute, TypeInv, TypeOK, act
<1>8. UNCHANGED <<smVars, mainVars, linkVars, ghosts>>
  BY DEF Execute
<1> USE DEF smVars, mainVars, linkVars, ghosts
<1>9. ManagerType'
  BY <1>4, <1>8 DEF TypeInv, ManagerType
<1>10. FlagType'
  BY <1>8 DEF TypeInv, FlagType
<1> QED
  BY <1>5, <1>7, <1>8, <1>9, <1>10 DEF TypeInv, TypeOK

\* The connection flags and the records of the devices.
LEMMA ConnectionTypes ==
    ASSUME TypeInv, acts' \in [Thread -> Seq(Act)],
           \/ MqttConnected \/ MqttDisconnected \/ MochadConnected \/ MochadDisconnected
           \/ UNCHANGED smVars
    PROVE  ManagerType'
<1>1. \A d \in DeviceState : /\ [d EXCEPT !.discovered = TRUE] \in DeviceState
                             /\ [d EXCEPT !.available = FALSE] \in DeviceState
  BY DEF DeviceState
<1> QED
  BY <1>1 DEF TypeInv, ManagerType, MqttConnected, MqttDisconnected, MochadConnected,
              MochadDisconnected, smVars

\* Every step keeps the types.
LEMMA TypeNext == TypeInv /\ [Next]_vars => TypeInv'
<1> SUFFICES ASSUME TypeInv, [Next]_vars
             PROVE  TypeInv'
  OBVIOUS
<1> USE DEF smVars, mainVars, linkVars, ghosts, TypeInv
<1>0. UNCHANGED <<smVars, acts>> => ManagerType'
  BY DEF ManagerType
<1>1. CASE Main
  <2>1. ManagerType'
    BY <1>0, <1>1 DEF Main, StartRunning, StartMqtt, StartMochad, StartHealth, RunForever,
                      LeaveConnected, ReadAvailability, WriteHeartbeat, StopMochad,
                      StopDisconnect, JoinMochad,
                      ShutdownStatus, ShutdownAvailability, DisconnectMqtt, LoopStop, StopHealth
  <2>2. FlagType'
    <3>1. CASE StartRunning \/ StartMqtt
      BY <3>1 DEF StartRunning, StartMqtt, FlagType
    <3>7. CASE StartMochad \/ StartHealth \/ RunForever
      BY <3>7 DEF StartMochad, StartHealth, RunForever, FlagType
    <3>2. CASE ReadAvailability \/ WriteHeartbeat
      BY <3>2 DEF ReadAvailability, WriteHeartbeat, HealthNow, FlagType
    <3>3. CASE StopMochad \/ JoinMochad
      BY <3>3 DEF StopMochad, JoinMochad, FlagType
    <3>8. CASE ShutdownAvailability \/ LoopStop \/ StopHealth
      BY <3>8 DEF ShutdownAvailability, LoopStop, StopHealth, FlagType
    <3>6. CASE LeaveConnected \/ StopDisconnect
      BY <3>6 DEF LeaveConnected, StopDisconnect, FlagType
    <3>4. CASE DisconnectMqtt
      BY <3>4 DEF DisconnectMqtt, FlagType
    <3>5. CASE ShutdownStatus
      <4>1. raced' \in BOOLEAN /\ told' \in BOOLEAN
        BY <3>5 DEF ShutdownStatus, FlagType
      <4> QED
        BY <3>5, <4>1 DEF ShutdownStatus, FlagType
    <3> QED
      BY <1>1, <3>1, <3>2, <3>3, <3>4, <3>5, <3>6, <3>7, <3>8 DEF Main
  <2>3. TypeOK'
    <3>1. CASE StartRunning \/ StartMqtt \/ StartMochad \/ StartHealth
      BY <3>1 DEF StartRunning, StartMqtt, StartMochad, StartHealth, TypeOK, LoopStep, StartStep
    <3>2. CASE RunForever
      BY <3>2 DEF RunForever, TypeOK, LoopStep
    <3>3. CASE ReadAvailability \/ WriteHeartbeat
      BY <3>3 DEF ReadAvailability, WriteHeartbeat, FlagType, TypeOK, LoopStep
    <3>4. CASE StopMochad \/ StopDisconnect \/ JoinMochad \/ LoopStop \/ DisconnectMqtt
      BY <3>4 DEF StopMochad, StopDisconnect, JoinMochad, LoopStop, DisconnectMqtt, TypeOK
    <3>5. CASE ShutdownStatus \/ ShutdownAvailability
      <4>1. retained' \in [online : BOOLEAN, status : {NONE, "online", "offline", "shutdown"}]
        BY <3>5 DEF ShutdownStatus, ShutdownAvailability, TypeOK
      <4>2. mpc' \in {"shutdownAvailability", "disconnectMqtt"}
        BY <3>5 DEF ShutdownStatus, ShutdownAvailability
      <4>3. UNCHANGED <<health, linkVars>>
        BY <3>5 DEF ShutdownStatus, ShutdownAvailability
      <4> QED
        BY <4>1, <4>2, <4>3 DEF TypeOK
    <3>6. CASE StopHealth
      BY <3>6 DEF StopHealth, FlagType, TypeOK
    <3>7. CASE LeaveConnected
      <4>1. retained' \in [online : BOOLEAN, status : {NONE, "online", "offline", "shutdown"}]
        BY <3>7 DEF LeaveConnected, Retain, PublishStatus, TypeOK
      <4> QED
        BY <3>7, <4>1 DEF LeaveConnected, TypeOK, LoopStep
    <3> QED
      BY <1>1, <3>1, <3>2, <3>3, <3>4, <3>5, <3>6, <3>7 DEF Main
  <2> QED
    BY <2>1, <2>2, <2>3
<1>2. CASE Mqtt \/ Execute("mochad")
  BY <1>2, ExecuteType DEF Mqtt, Thread
<1>3. CASE OnMochadConnected
  <2>1. acts' \in [Thread -> Seq(Act)]
    BY <1>3, HandlerLists, BeginType DEF OnMochadConnected, Thread
  <2>2. ManagerType'
    BY <1>3, <2>1, ConnectionTypes DEF OnMochadConnected
  <2> QED
    BY <1>3, <2>2 DEF OnMochadConnected, FlagType, TypeOK
<1>4. CASE MochadExits \/ MochadAttempts \/ MochadInstalls
  BY <1>0, <1>4 DEF MochadExits, MochadAttempts, MochadInstalls, MochadStep, FlagType, TypeOK
<1>5. CASE Signal \/ ReloadStatus
  <2>1. FlagType'
    BY <1>5 DEF Signal, ReloadStatus, FlagType
  <2>2. TypeOK'
    BY <1>5 DEF Signal, ReloadStatus, TypeOK, LoopStep
  <2> QED
    BY <1>0, <1>5, <2>1, <2>2 DEF Signal, ReloadStatus
<1>6. CASE OnMqttConnected
  <2>1. acts' \in [Thread -> Seq(Act)]
    BY <1>6, HandlerLists, BeginType DEF OnMqttConnected, Thread
  <2>2. ManagerType'
    BY <1>6, <2>1, ConnectionTypes DEF OnMqttConnected
  <2> QED
    BY <1>6, <2>2 DEF OnMqttConnected, FlagType, TypeOK
<1>7. CASE OnMqttDisconnected
  <2>1. acts' \in [Thread -> Seq(Act)]
    BY <1>7, HandlerLists, BeginType DEF OnMqttDisconnected, Thread, ManagerType
  <2>2. ManagerType'
    BY <1>7, <2>1, ConnectionTypes DEF OnMqttDisconnected
  <2> QED
    <3>1. retained' \in [online : BOOLEAN, status : {NONE, "online", "offline", "shutdown"}]
      BY <1>7 DEF OnMqttDisconnected, TypeOK
    <3>2. TypeOK'
      BY <1>7, <3>1 DEF OnMqttDisconnected, TypeOK
    <3>3. FlagType'
      BY <1>7 DEF OnMqttDisconnected, FlagType
    <3> QED
      BY <2>2, <3>2, <3>3
<1>8. CASE OnMochadDisconnected
  <2>1. acts' \in [Thread -> Seq(Act)]
    BY <1>8, HandlerLists, BeginType DEF OnMochadDisconnected, Thread
  <2>2. ManagerType'
    BY <1>8, <2>1, ConnectionTypes DEF OnMochadDisconnected
  <2> QED
    BY <1>8, <2>2 DEF OnMochadDisconnected, FlagType, TypeOK
<1>9. CASE Ended \/ UNCHANGED vars
  BY <1>0, <1>9 DEF Ended, vars, FlagType, TypeOK
<1> QED
  BY <1>1, <1>2, <1>3, <1>4, <1>5, <1>6, <1>7, <1>8, <1>9 DEF Next, Mochad, Environment

\* Steps, health file and retained messages keep their types, and a session
\* has a network thread.
THEOREM TypeCorrect == Spec => []TypeOK
<1>1. TypeInv => TypeOK
  BY DEF TypeInv
<1> QED
  BY <1>1, TypeInit, TypeNext, PTL DEF Spec

-----------------------------------------------------------------------------
(***************************************************************************)
(* What a stop leaves behind.                                              *)
(***************************************************************************)
StopInv == ControlInv /\ ThreadInv /\ BrokerInv /\ HealthInv

\* Before start() nothing of a stop has happened.
LEMMA StopInit == Init => StopInv
  BY DEF Init, StopInv, ControlInv, ThreadInv, BrokerInv, HealthInv, Thread, Idle, StopStep,
         LoopStep, Back, Waited, Disconnected, Withdrawn, Published, Joined

\* Steps of the two other threads leave the main thread where it is.
MainStays == UNCHANGED mainVars

\* While the main thread stays where it is, so does everything that is said
\* of how far start(), the loop and stop() have come.
LEMMA PositionStays ==
    ASSUME MainStays
    PROVE  /\ ControlInv => ControlInv'
           /\ Back' = Back /\ Waited' = Waited /\ Disconnected' = Disconnected
           /\ Withdrawn' = Withdrawn /\ Published' = Published /\ Joined' = Joined
  BY DEF MainStays, mainVars, ControlInv, Back, Waited, Disconnected, Withdrawn, Published,
         Joined

\* A handler's step: it needs a handler, and a session to publish.
LEMMA ExecuteStop ==
    ASSUME TypeInv, StopInv, NEW t \in Thread, Execute(t)
    PROVE  StopInv'
<1>1. MainStays /\ UNCHANGED <<smVars, linkVars, ghosts>> /\ ~Idle(t)
  BY DEF Execute, MainStays
<1> USE DEF linkVars, ghosts
<1>2. \A u \in Thread : Idle(u) => Idle(u)'
  BY <1>1 DEF Execute, Idle, TypeInv, ManagerType
<1>3. ThreadInv'
  BY <1>1, <1>2, PositionStays DEF StopInv, ThreadInv, Thread
<1>4. ~Joined \/ abandoned \/ t = "mqtt"
  BY <1>1 DEF StopInv, ThreadInv, Thread
<1>5. ~Published \/ abandoned \/ raced
  BY <1>1, <1>4 DEF StopInv, ThreadInv, Joined
<1>6. BrokerInv'
  <2>1. (~stopping \/ mpc \in StopStep \ {"loopStop", "stopHealth"})' /\ ~mqttUp'
          => ~retained'.online
    BY <1>1 DEF Execute, StopInv, BrokerInv, MainStays, mainVars
  <2> QED
    BY <1>1, <1>5, <2>1, PositionStays DEF BrokerInv, Published
<1>7. HealthInv'
  <2>1. ~(Back /\ ~abandoned)
    BY <1>1, <1>4 DEF StopInv, ThreadInv, Joined, Published, Withdrawn, Disconnected, Waited
  <2> QED
    BY <1>1, <2>1, PositionStays DEF HealthInv
<1> QED
  BY <1>1, <1>3, <1>6, <1>7, PositionStays DEF StopInv

\* Every step keeps StopInv: the order of the steps of stop() is what counts.
LEMMA StopNext == TypeInv /\ StopInv /\ [Next]_vars => StopInv'
<1> SUFFICES ASSUME TypeInv, StopInv, [Next]_vars
             PROVE  StopInv'
  OBVIOUS
<1> USE DEF smVars, mainVars, linkVars, ghosts
<1>1. CASE Main \/ Signal \/ ReloadStatus
  <2>1. ControlInv'
    BY <1>1 DEF Main, StartRunning, StartMqtt, StartMochad, StartHealth, RunForever,
                LeaveConnected, ReadAvailability, WriteHeartbeat, Signal, ReloadStatus,
                StopMochad, StopDisconnect, JoinMochad, ShutdownStatus,
                ShutdownAvailability, DisconnectMqtt, LoopStop, StopHealth, StopInv, ControlInv,
                LockHeld, StopStep, LoopStep, StartStep, TypeInv, FlagType
  <2> USE DEF StopInv, ControlInv, StopStep, LoopStep, StartStep, Back, Waited, Disconnected,
              Withdrawn, Published, Joined, TypeInv, FlagType
  <2>2. CASE StartRunning \/ StartMqtt \/ StartMochad \/ StartHealth \/ Signal \/ StopMochad
    BY <2>1, <2>2 DEF StartRunning, StartMqtt, StartMochad, StartHealth, Signal, StopMochad,
                      ThreadInv, BrokerInv, HealthInv, Idle
  <2>11. CASE ReloadStatus \/ StopDisconnect
    BY <2>1, <2>11 DEF ReloadStatus, StopDisconnect, LockHeld, ThreadInv, BrokerInv, HealthInv, Idle
  <2>12. CASE LeaveConnected
    <3>1. mqttUp' = mqttUp /\ retained'.online = retained.online
      BY <2>12 DEF LeaveConnected, Retain, PublishStatus, TypeOK
    <3> QED
      BY <2>1, <2>12, <3>1 DEF LeaveConnected, ThreadInv, BrokerInv, HealthInv, Idle
  <2>3. CASE RunForever
    BY <2>1, <2>3 DEF RunForever, ThreadInv, BrokerInv, HealthInv, Idle, TypeOK
  <2>4. CASE ReadAvailability \/ WriteHeartbeat
    BY <2>1, <2>4 DEF ReadAvailability, WriteHeartbeat, ThreadInv, BrokerInv, HealthInv, Idle
  <2>5. CASE JoinMochad
    BY <2>1, <2>5 DEF JoinMochad, ThreadInv, BrokerInv, HealthInv, Idle
  <2>6. CASE ShutdownStatus
    BY <2>1, <2>6 DEF ShutdownStatus, ThreadInv, BrokerInv, HealthInv, Idle, TypeOK
  <2>7. CASE ShutdownAvailability
    BY <2>1, <2>7 DEF ShutdownAvailability, ThreadInv, BrokerInv, HealthInv, Idle, TypeOK
  <2>8. CASE DisconnectMqtt
    BY <2>1, <2>8 DEF DisconnectMqtt, ThreadInv, BrokerInv, HealthInv, Idle
  <2>9. CASE LoopStop
    BY <2>1, <2>9 DEF LoopStop, ThreadInv, BrokerInv, HealthInv, Idle
  <2>10. CASE StopHealth
    BY <2>1, <2>10 DEF StopHealth, ThreadInv, BrokerInv, HealthInv, Idle
  <2> QED
    BY <1>1, <2>2, <2>3, <2>4, <2>5, <2>6, <2>7, <2>8, <2>9, <2>10, <2>11, <2>12 DEF Main
<1>2. CASE Mqtt \/ Execute("mochad")
  BY <1>2, ExecuteStop DEF Mqtt, Thread
<1>3. CASE OnMochadConnected
  <2>1. MainStays
    BY <1>3 DEF OnMochadConnected, MainStays
  <2>2. ThreadInv'
    BY <1>3, <2>1, PositionStays
       DEF OnMochadConnected, StopInv, ThreadInv, Idle, Begin, Thread, TypeInv, ManagerType
  <2>3. BrokerInv' /\ HealthInv'
    BY <1>3, <2>1, PositionStays DEF OnMochadConnected, StopInv, BrokerInv, HealthInv, MainStays
  <2> QED
    BY <2>1, <2>2, <2>3, PositionStays DEF StopInv
<1>4. CASE MochadExits \/ MochadAttempts \/ MochadInstalls
  <2>1. MainStays
    BY <1>4 DEF MochadExits, MochadAttempts, MochadInstalls, MochadStep, MainStays
  <2>2. ThreadInv'
    BY <1>4, <2>1, PositionStays
       DEF MochadExits, MochadAttempts, MochadInstalls, MochadStep, StopInv, ThreadInv, Idle
  <2>3. BrokerInv' /\ HealthInv'
    BY <1>4, <2>1, PositionStays
       DEF MochadExits, MochadAttempts, MochadInstalls, MochadStep, StopInv, BrokerInv, HealthInv, MainStays
  <2> QED
    BY <2>1, <2>2, <2>3, PositionStays DEF StopInv
<1>5. Published => stopping
  BY DEF StopInv, ControlInv, StopStep, Published, Withdrawn, Disconnected, Waited, Back
<1>6. CASE OnMqttConnected
  <2>1. MainStays /\ ~Disconnected /\ ~Waited
    BY <1>6 DEF OnMqttConnected, MainStays, StopInv, ThreadInv, Disconnected
  <2>2. Published => raced'
    BY <1>5, <1>6 DEF OnMqttConnected
  <2>3. /\ Idle("mochad") => Idle("mochad")'
        /\ mphase' = mphase /\ abandoned' = abandoned /\ mqttUp' /\ retained' = retained
        /\ health' = health
    BY <1>6 DEF OnMqttConnected, Begin, Idle, Thread, TypeInv, ManagerType
  <2>4. ThreadInv'
    BY <2>1, <2>2, <2>3, PositionStays DEF StopInv, ThreadInv
  <2>5. BrokerInv' /\ HealthInv'
    BY <2>1, <2>2, <2>3, PositionStays DEF StopInv, BrokerInv, HealthInv, MainStays, Published
  <2> QED
    BY <2>1, <2>4, <2>5, PositionStays DEF StopInv
<1>7. CASE OnMqttDisconnected
  <2>1. MainStays /\ ~Disconnected /\ ~Waited
    BY <1>7 DEF OnMqttDisconnected, MainStays, StopInv, ThreadInv, Disconnected
  <2>2. stopping => acts' = acts
    BY <1>7 DEF OnMqttDisconnected
  <2>3. /\ Idle("mochad") => Idle("mochad")'
        /\ UNCHANGED <<mphase, health, ghosts>>
    BY <1>7 DEF OnMqttDisconnected, Begin, Idle, Thread, TypeInv, ManagerType
  <2>4. ThreadInv'
    BY <1>5, <2>1, <2>2, <2>3, PositionStays DEF StopInv, ThreadInv, Idle
  <2>5. ~retained'.online /\ retained'.status = retained.status
    BY <1>7 DEF OnMqttDisconnected, TypeInv, TypeOK
  <2>6. BrokerInv' /\ HealthInv'
    BY <2>1, <2>3, <2>5, PositionStays DEF StopInv, BrokerInv, HealthInv, MainStays
  <2> QED
    BY <2>1, <2>4, <2>6, PositionStays DEF StopInv
<1>8. CASE OnMochadDisconnected
  <2>1. MainStays
    BY <1>8 DEF OnMochadDisconnected, MainStays
  <2>2. ThreadInv'
    BY <1>8, <2>1, PositionStays
       DEF OnMochadDisconnected, StopInv, ThreadInv, Idle, Begin, Thread, TypeInv, ManagerType
  <2>3. BrokerInv' /\ HealthInv'
    BY <1>8, <2>1, PositionStays DEF OnMochadDisconnected, StopInv, BrokerInv, HealthInv, MainStays
  <2> QED
    BY <2>1, <2>2, <2>3, PositionStays DEF StopInv
<1>9. CASE Ended \/ UNCHANGED vars
  <2>1. MainStays
    BY <1>9 DEF Ended, vars, MainStays
  <2>2. ThreadInv'
    BY <1>9, <2>1, PositionStays DEF Ended, vars, StopInv, ThreadInv, Idle
  <2>3. BrokerInv' /\ HealthInv'
    BY <1>9, <2>1, PositionStays DEF Ended, vars, StopInv, BrokerInv, HealthInv, MainStays
  <2> QED
    BY <2>1, <2>2, <2>3, PositionStays DEF StopInv
<1> QED
  BY <1>1, <1>2, <1>3, <1>4, <1>6, <1>7, <1>8, <1>9 DEF Next, Mochad, Environment

\* StopInv holds throughout.
LEMMA StopInvariant == Spec => []StopInv
  BY TypeInit, TypeNext, StopInit, StopNext, PTL DEF Spec

\* A stop of the running bridge leaves "offline" retained, and the "shutdown"
\* document if it was published, whatever the other two threads were doing:
\* but for a mochad thread that outlives the join and a connection to the
\* broker made meanwhile.
THEOREM ShutdownCorrect == Spec => []CleanShutdown
<1>1. StopInv => CleanShutdown
  BY DEF StopInv, ControlInv, BrokerInv, CleanShutdown, Back, Waited, Disconnected, Withdrawn,
         Published, LoopStep
<1> QED
  BY <1>1, StopInvariant, PTL

\* The health file of a bridge that was stopped in its loop's test is not
\* healthy: no handler is left that could write after stop() did.
THEOREM StoppedCorrect == Spec => []StoppedIsUnhealthy
<1>1. StopInv => StoppedIsUnhealthy
  BY DEF StopInv, ControlInv, HealthInv, StoppedIsUnhealthy, Healthy, Back, LoopStep
<1> QED
  BY <1>1, StopInvariant, PTL
=============================================================================
