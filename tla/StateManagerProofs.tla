------------------------- MODULE StateManagerProofs -------------------------
(***************************************************************************)
(* For every finite set of addresses, configuration and housecode filter:  *)
(* the type of the manager's state, that a stateless device has no         *)
(* recorded state, that nothing of a filtered house is ever recorded, and  *)
(* that the lists the operations return keep a broker equal to the         *)
(* manager.  The last rests on one fact about every operation, Faithful:   *)
(* its list names what the step changes, and says what holds after it.     *)
(***************************************************************************)
EXTENDS StateManagerSpec, ListLemmas

\* The authoritative state of a state command is one of ON, OFF and DIM, so
\* what _set_device_state records is always a recorded state.
LEMMA AuthoritativeType ==
    \A c \in STATE_COMMANDS : AuthoritativeState(c) \in RecordedState
  BY DEF AuthoritativeState, STATE_COMMANDS, ON_COMMANDS, OFF_COMMANDS, RecordedState

\* _set_device_state keeps the record's shape, with and without the clearing
\* of the pending command, and touches nothing but state and pending command.
LEMMA SetDeviceStateType ==
    ASSUME NEW d \in DeviceState, NEW c \in STATE_COMMANDS, NEW clear \in BOOLEAN
    PROVE  SetDeviceState(d, c, clear) \in DeviceState
<1>1. AuthoritativeState(c) \in RecordedState
  BY AuthoritativeType
<1> QED
  BY <1>1 DEF SetDeviceState, ClearConfirmedPending, DeviceState

\* _discovery_actions changes the discovered flag only.
LEMMA DiscoverType ==
    ASSUME NEW d \in DeviceState, mqttConn \in BOOLEAN
    PROVE  /\ Discover(d) \in DeviceState
           /\ Discover(d).current = d.current
  BY DEF Discover, DeviceState

-----------------------------------------------------------------------------
\* An operation of the manager, whoever calls it and whatever becomes of the
\* list it returns.
Operation ==
    \/ \E a \in Address, c \in DeviceCommand : OptimisticUpdate(a, c)
    \/ \E a \in Address, c \in EventCommand : ApplyDeviceEvent(a, c)
    \/ \E h \in House, c \in EventCommand : ApplyHouseEvent(h, c)
    \/ \E S \in SUBSET Address : \E snap \in [S -> {"ON", "OFF"}] : ApplyStatusSnapshot(snap)
    \/ ApplyUnknownEvent
    \/ MqttConnected \/ MqttDisconnected
    \/ MochadConnected \/ MochadDisconnected

\* A call of StateManagerSpec is one of the operations.
LEMMA CallsAreOperations == CallsNext => Operation
BY DEF CallsNext, Operation, CallOptimisticUpdate, CallApplyDeviceEvent, CallApplyHouseEvent,
       CallApplyStatusSnapshot, CallApplyUnknownEvent, CallMqttConnected,
       CallMqttDisconnected, CallMochadConnected, CallMochadDisconnected

\* The tables keep their shape under every operation.
LEMMA OperationType ==
    ASSUME ManagerTypeOK, Operation
    PROVE  ManagerTypeOK'
<1> USE DEF ManagerTypeOK
<1>1. ASSUME NEW a \in Address, NEW c \in DeviceCommand, OptimisticUpdate(a, c)
      PROVE  ManagerTypeOK'
  <2> DEFINE asked == [dev[a] EXCEPT !.pending = c]
  <2>1. asked \in DeviceState
    BY DEF DeviceState
  <2>2. Discover(asked) \in DeviceState
    BY <2>1, DiscoverType
  <2>3. SetDeviceState(Discover(asked), c, FALSE) \in DeviceState
    BY <2>2, SetDeviceStateType DEF DeviceCommand, STATE_COMMANDS
  <2> QED
    BY <1>1, <2>2, <2>3 DEF OptimisticUpdate
<1>2. ASSUME NEW a \in Address, NEW c \in EventCommand, ApplyDeviceEvent(a, c)
      PROVE  ManagerTypeOK'
  <2> DEFINE seen == [dev[a] EXCEPT !.available = TRUE]
  <2>1. seen \in DeviceState
    BY DEF DeviceState
  <2>2. Discover(seen) \in DeviceState
    BY <2>1, DiscoverType
  <2>3. EventSetsState(a, c) => SetDeviceState(Discover(seen), c, TRUE) \in DeviceState
    BY <2>2, SetDeviceStateType DEF EventSetsState
  <2> QED
    BY <1>2, <2>2, <2>3 DEF ApplyDeviceEvent
<1>3. ASSUME NEW h \in House, NEW c \in EventCommand, ApplyHouseEvent(h, c)
      PROVE  ManagerTypeOK'
  <2>1. HouseState(c) \in STATE_COMMANDS
    BY DEF HouseState, STATE_COMMANDS
  <2>2. \A a \in Address : [dev[a] EXCEPT !.available = TRUE] \in DeviceState
    BY DEF DeviceState
  <2>3. \A a \in Address :
          SetDeviceState([dev[a] EXCEPT !.available = TRUE], HouseState(c), TRUE)
            \in DeviceState
    BY <2>1, <2>2, SetDeviceStateType
  <2> QED
    BY <1>3, <2>3 DEF ApplyHouseEvent
<1>4. ASSUME NEW S \in SUBSET Address, NEW snap \in [S -> {"ON", "OFF"}],
             ApplyStatusSnapshot(snap)
      PROVE  ManagerTypeOK'
  <2>1. \A a \in Address : [dev[a] EXCEPT !.available = TRUE] \in DeviceState
    BY DEF DeviceState
  <2>2. \A a \in S :
          SetDeviceState([dev[a] EXCEPT !.available = TRUE], snap[a], TRUE)
            \in DeviceState
    BY <2>1, SetDeviceStateType DEF STATE_COMMANDS
  <2> QED
    BY <1>4, <2>2 DEF ApplyStatusSnapshot, SnapshotTargets
<1>5. CASE ApplyUnknownEvent
  BY <1>5 DEF ApplyUnknownEvent, smVars
<1>6. CASE MqttConnected
  BY <1>6 DEF MqttConnected, DeviceState
<1>7. CASE MqttDisconnected
  BY <1>7 DEF MqttDisconnected
<1>8. CASE MochadConnected
  BY <1>8 DEF MochadConnected
<1>9. CASE MochadDisconnected
  BY <1>9 DEF MochadDisconnected, DeviceState
<1> HIDE DEF ManagerTypeOK
<1> QED
  BY <1>1, <1>2, <1>3, <1>4, <1>5, <1>6, <1>7, <1>8, <1>9 DEF Operation

\* The state manager's tables keep their shape under every call: device
\* records stay device records and only ON, OFF or DIM is ever recorded.
THEOREM ManagerTypeCorrect == CallsSpec => []ManagerTypeOK
<1>1. CallsInit => ManagerTypeOK
  <2>1. FreshDevice \in DeviceState
    BY DEF FreshDevice, DeviceState
  <2> QED
    BY <2>1, ConfigAssumption DEF CallsInit, SMInit, ManagerTypeOK
<1>2. ManagerTypeOK /\ [CallsNext]_callVars => ManagerTypeOK'
  <2>1. ASSUME ManagerTypeOK, UNCHANGED callVars
        PROVE  ManagerTypeOK'
    BY <2>1 DEF callVars, ManagerTypeOK
  <2> QED
    BY <2>1, CallsAreOperations, OperationType
<1> QED
  BY <1>1, <1>2, PTL DEF CallsSpec

\* A stateless device (a chime) never acquires a recorded state: each of the
\* four paths that record one, a command, a device event, a house event and a
\* status snapshot, asks the configuration first.
THEOREM StatelessCorrect == CallsSpec => []StatelessHasNoState
<1>1. CallsInit => StatelessHasNoState
  BY DEF CallsInit, SMInit, StatelessHasNoState, FreshDevice
<1>2. ManagerTypeOK /\ StatelessHasNoState /\ [CallsNext]_callVars => StatelessHasNoState'
  <2> SUFFICES ASSUME ManagerTypeOK, StatelessHasNoState, [CallsNext]_callVars,
                      NEW x \in Address, ~Stateful(x)
               PROVE  dev'[x].current = NONE
    BY DEF StatelessHasNoState, Stateful, ConfigFor
  <2>0. dev[x] \in DeviceState /\ dev[x].current = NONE /\ mqttConn \in BOOLEAN
    BY DEF ManagerTypeOK, StatelessHasNoState
  <2>1. CASE CallOptimisticUpdate
    <3>1. PICK a \in Address, c \in DeviceCommand : OptimisticUpdate(a, c)
      BY <2>1 DEF CallOptimisticUpdate
    <3> DEFINE asked == [dev[a] EXCEPT !.pending = c]
    <3>2. CASE a = x
      <4>1. asked \in DeviceState /\ asked.current = NONE
        BY <2>0, <3>2 DEF DeviceState
      <4>2. Discover(asked).current = NONE
        BY <2>0, <4>1, DiscoverType
      <4> QED
        BY <2>0, <3>1, <3>2, <4>2 DEF OptimisticUpdate, ManagerTypeOK
    <3> QED
      BY <2>0, <3>1, <3>2 DEF OptimisticUpdate, ManagerTypeOK
  <2>2. CASE CallApplyDeviceEvent
    <3>1. PICK a \in Address, c \in EventCommand : ApplyDeviceEvent(a, c)
      BY <2>2 DEF CallApplyDeviceEvent
    <3> DEFINE seen == [dev[a] EXCEPT !.available = TRUE]
    <3>2. CASE a = x
      <4>1. seen \in DeviceState /\ seen.current = NONE
        BY <2>0, <3>2 DEF DeviceState
      <4>2. Discover(seen).current = NONE
        BY <2>0, <4>1, DiscoverType
      <4> QED
        BY <2>0, <3>1, <3>2, <4>2 DEF ApplyDeviceEvent, EventSetsState, ManagerTypeOK
    <3> QED
      BY <2>0, <3>1, <3>2 DEF ApplyDeviceEvent, ManagerTypeOK
  <2>3. CASE CallApplyHouseEvent
    BY <2>0, <2>3 DEF CallApplyHouseEvent, ApplyHouseEvent, HouseTargets
  <2>4. CASE CallApplyStatusSnapshot
    BY <2>0, <2>4 DEF CallApplyStatusSnapshot, ApplyStatusSnapshot, SnapshotTargets
  <2>5. CASE CallApplyUnknownEvent
    BY <2>0, <2>5 DEF CallApplyUnknownEvent, ApplyUnknownEvent, smVars
  <2>6. CASE CallMqttConnected
    BY <2>0, <2>6 DEF CallMqttConnected, MqttConnected, DeviceState
  <2>7. CASE CallMqttDisconnected
    BY <2>0, <2>7 DEF CallMqttDisconnected, MqttDisconnected
  <2>8. CASE CallMochadConnected
    BY <2>0, <2>8 DEF CallMochadConnected, MochadConnected
  <2>9. CASE CallMochadDisconnected
    BY <2>0, <2>9 DEF CallMochadDisconnected, MochadDisconnected, DeviceState
  <2>10. CASE UNCHANGED callVars
    BY <2>0, <2>10 DEF callVars
  <2> QED
    BY <2>1, <2>2, <2>3, <2>4, <2>5, <2>6, <2>7, <2>8, <2>9, <2>10 DEF CallsNext
<1> QED
  BY <1>1, <1>2, ManagerTypeCorrect, PTL DEF CallsSpec

\* The housecode filter is complete: whatever is called, an address of a
\* filtered house never enters the table and its record never changes.
THEOREM FilterCorrect == CallsSpec => []FilteredHousesUnknown
<1>1. CallsInit => FilteredHousesUnknown
  BY DEF CallsInit, SMInit, FilteredHousesUnknown
<1>2. ManagerTypeOK /\ FilteredHousesUnknown /\ [CallsNext]_callVars => FilteredHousesUnknown'
  <2> SUFFICES ASSUME ManagerTypeOK, FilteredHousesUnknown, [CallsNext]_callVars,
                      NEW x \in Address, ~AddressAllowed(x)
               PROVE  x \notin known' /\ dev'[x] = FreshDevice
    BY DEF FilteredHousesUnknown, AddressAllowed, HouseAllowed
  <2>0. x \notin known /\ dev[x] = FreshDevice /\ dev \in [Address -> DeviceState]
    BY DEF ManagerTypeOK, FilteredHousesUnknown
  <2>1. CASE CallOptimisticUpdate
    BY <2>0, <2>1 DEF CallOptimisticUpdate, OptimisticUpdate, CommandAccepted
  <2>2. CASE CallApplyDeviceEvent
    BY <2>0, <2>2 DEF CallApplyDeviceEvent, ApplyDeviceEvent
  <2>3. CASE CallApplyHouseEvent
    BY <2>0, <2>3 DEF CallApplyHouseEvent, ApplyHouseEvent, HouseTargets
  <2>4. CASE CallApplyStatusSnapshot
    BY <2>0, <2>4 DEF CallApplyStatusSnapshot, ApplyStatusSnapshot, SnapshotTargets
  <2>5. CASE CallApplyUnknownEvent
    BY <2>0, <2>5 DEF CallApplyUnknownEvent, ApplyUnknownEvent, smVars
  <2>6. CASE CallMqttConnected
    BY <2>0, <2>6 DEF CallMqttConnected, MqttConnected
  <2>7. CASE CallMqttDisconnected
    BY <2>0, <2>7 DEF CallMqttDisconnected, MqttDisconnected
  <2>8. CASE CallMochadConnected
    BY <2>0, <2>8 DEF CallMochadConnected, MochadConnected
  <2>9. CASE CallMochadDisconnected
    BY <2>0, <2>9 DEF CallMochadDisconnected, MochadDisconnected
  <2>10. CASE UNCHANGED callVars
    BY <2>0, <2>10 DEF callVars
  <2> QED
    BY <2>1, <2>2, <2>3, <2>4, <2>5, <2>6, <2>7, <2>8, <2>9, <2>10 DEF CallsNext
<1> QED
  BY <1>1, <1>2, ManagerTypeCorrect, PTL DEF CallsSpec

-----------------------------------------------------------------------------
(***************************************************************************)
(* The ideal executor.                                                     *)
(***************************************************************************)
\* What the operations return, as far as the mirror tells it apart.
Action ==
    [type : {"state"}, address : Address, state : RecordedState]
      \cup [type : {"availability"}, online : BOOLEAN]
      \cup [type : {"discovery", "event", "command_event"}, address : Address]
      \cup [type : {"status"}, mqtt : BOOLEAN, mochad : BOOLEAN]
      \cup [type : {"attributes", "send"}, address : Address, command : DeviceCommand]
      \cup [type : {"request_status", "log"}]

Mirror ==
    [state : [Address -> RecordedState \cup {NONE}], online : BOOLEAN,
     announced : SUBSET Address]

\* The mirror after each of the first n messages.
AfterEach(m, actions, n, f) ==
    f = [i \in 0 .. n |-> IF i = 0 THEN m ELSE ExecuteOn(f[i - 1], actions[i])]

\* It exists for a list of every length.
LEMMA AfterEachExists ==
    ASSUME NEW m, NEW actions, NEW n \in Nat
    PROVE  \E f : AfterEach(m, actions, n, f)
<1> DEFINE P == {k \in Nat : \E f : AfterEach(m, actions, k, f)}
<1>1. 0 \in P
  <2>1. AfterEach(m, actions, 0, [i \in 0 .. 0 |-> m])
    BY DEF AfterEach
  <2> QED
    BY <2>1
<1>2. ASSUME NEW k \in Nat, k \in P
      PROVE  k + 1 \in P
  <2>1. PICK f : AfterEach(m, actions, k, f)
    BY <1>2
  <2> DEFINE g == [i \in 0 .. k + 1 |-> IF i <= k THEN f[i]
                                        ELSE ExecuteOn(f[i - 1], actions[i])]
  <2>2. \A i \in 0 .. k : f[i] = IF i = 0 THEN m ELSE ExecuteOn(f[i - 1], actions[i])
    BY <2>1 DEF AfterEach
  <2>3. ASSUME NEW i \in 0 .. k + 1
        PROVE  g[i] = IF i = 0 THEN m ELSE ExecuteOn(g[i - 1], actions[i])
    BY <2>2
  <2>4. AfterEach(m, actions, k + 1, g)
    BY <2>3 DEF AfterEach
  <2> HIDE DEF g
  <2> QED
    BY <2>4
<1> HIDE DEF P
<1>3. Nat \subseteq P
  BY <1>1, <1>2, NatSetInduction
<1> QED
  BY <1>3 DEF P

\* The last of them is the mirror after the whole list.
LEMMA ExecuteAllSteps ==
    ASSUME NEW m, NEW actions, Len(actions) \in Nat
    PROVE  \E f : AfterEach(m, actions, Len(actions), f)
                  /\ ExecuteAll(m, actions) = f[Len(actions)]
<1> DEFINE Is(f) == f = [i \in 0 .. Len(actions) |->
                           IF i = 0 THEN m ELSE ExecuteOn(f[i - 1], actions[i])]
<1>1. \E f : Is(f)
  <2>1. PICK f : AfterEach(m, actions, Len(actions), f)
    BY AfterEachExists
  <2>2. Is(f)
    BY <2>1 DEF AfterEach
  <2> HIDE DEF Is
  <2> QED
    BY <2>2
<1>2. Is(CHOOSE f : Is(f))
  BY <1>1
<1>3. ExecuteAll(m, actions) = (CHOOSE f : Is(f))[Len(actions)]
  BY DEF ExecuteAll
<1> QED
  BY <1>2, <1>3 DEF AfterEach

\* One message.
LEMMA ExecuteOne ==
    ASSUME NEW m \in Mirror, NEW x \in Action
    PROVE  LET r == ExecuteOn(m, x) IN
             /\ r \in Mirror /\ m.announced \subseteq r.announced
             /\ x.type = "state" => /\ x.address \in Address
                                    /\ r.state = [m.state EXCEPT ![x.address] = x.state]
             /\ x.type # "state" => r.state = m.state
             /\ r.online = IF x.type = "availability" THEN x.online ELSE m.online
             /\ x.type = "discovery" => x.address \in r.announced
<1>1. CASE x.type = "state"
  <2>1. x.address \in Address /\ x.state \in RecordedState \cup {NONE}
    BY <1>1 DEF Action
  <2>2. ExecuteOn(m, x) = [m EXCEPT !.state[x.address] = x.state]
    BY <1>1 DEF ExecuteOn
  <2> QED
    BY <1>1, <2>1, <2>2 DEF Mirror
<1>2. CASE x.type = "availability"
  <2>1. x.online \in BOOLEAN
    BY <1>2 DEF Action
  <2>2. ExecuteOn(m, x) = [m EXCEPT !.online = x.online]
    BY <1>2 DEF ExecuteOn
  <2> QED
    BY <1>2, <2>1, <2>2 DEF Mirror
<1>3. CASE x.type = "discovery"
  <2>1. x.address \in Address
    BY <1>3 DEF Action
  <2>2. ExecuteOn(m, x) = [m EXCEPT !.announced = @ \cup {x.address}]
    BY <1>3 DEF ExecuteOn
  <2> QED
    BY <1>3, <2>1, <2>2 DEF Mirror
<1>4. CASE x.type \notin {"state", "availability", "discovery"}
  <2>1. ExecuteOn(m, x) = m
    BY <1>4 DEF ExecuteOn
  <2> QED
    BY <1>4, <2>1
<1> QED
  BY <1>1, <1>2, <1>3, <1>4

\* A list whose messages agree with a target: what it names is as the target
\* says, and the rest is as it was.
LEMMA ExecuteAllResult ==
    ASSUME NEW m \in Mirror, NEW actions \in Seq(Action),
           NEW target \in [Address -> RecordedState \cup {NONE}], NEW online \in BOOLEAN,
           \A x \in Holds(actions) :
             /\ x.type = "state" => x.state = target[x.address]
             /\ x.type = "availability" => x.online = online
    PROVE  LET r == ExecuteAll(m, actions) IN
             /\ r \in Mirror /\ m.announced \subseteq r.announced
             /\ \A a \in Address : r.state[a] \in {m.state[a], target[a]}
             /\ r.online \in {m.online, online}
             /\ \A x \in Holds(actions) :
                  /\ x.type = "state" => r.state[x.address] = target[x.address]
                  /\ x.type = "availability" => r.online = online
                  /\ x.type = "discovery" => x.address \in r.announced
<1> DEFINE n == Len(actions)
<1>1. n \in Nat /\ \A i \in 1 .. n : actions[i] \in Action /\ actions[i] \in Holds(actions)
  BY DEF Holds
<1> HIDE DEF n
<1>2. PICK f : AfterEach(m, actions, n, f) /\ ExecuteAll(m, actions) = f[n]
  BY <1>1, ExecuteAllSteps DEF n
<1>3. f[0] = m /\ \A i \in 1 .. n : f[i] = ExecuteOn(f[i - 1], actions[i])
  BY <1>1, <1>2 DEF AfterEach
<1> DEFINE Good(k) ==
             /\ f[k] \in Mirror /\ m.announced \subseteq f[k].announced
             /\ \A a \in Address : f[k].state[a] \in {m.state[a], target[a]}
             /\ f[k].online \in {m.online, online}
             /\ \A j \in 1 .. k :
                  /\ actions[j].type = "state" =>
                       f[k].state[actions[j].address] = target[actions[j].address]
                  /\ actions[j].type = "availability" => f[k].online = online
                  /\ actions[j].type = "discovery" => actions[j].address \in f[k].announced
           P == {k \in Nat : k <= n => Good(k)}
<1>4. 0 \in P
  BY <1>3
<1>5. ASSUME NEW k \in Nat, k \in P
      PROVE  k + 1 \in P
  <2> SUFFICES ASSUME k + 1 <= n
               PROVE  Good(k + 1)
    OBVIOUS
  <2> DEFINE x == actions[k + 1]
             r == f[k + 1]
  <2>1. Good(k) /\ k + 1 \in 1 .. n /\ (k + 1) - 1 = k
    BY <1>1, <1>5
  <2>2. /\ r = ExecuteOn(f[k], x) /\ x \in Action
        /\ x.type = "state" => x.state = target[x.address]
        /\ x.type = "availability" => x.online = online
    BY <1>1, <1>3, <2>1
  <2>3. /\ r \in Mirror /\ f[k].announced \subseteq r.announced
        /\ x.type = "state" => /\ x.address \in Address
                               /\ r.state = [f[k].state EXCEPT ![x.address] = x.state]
        /\ x.type # "state" => r.state = f[k].state
        /\ r.online = IF x.type = "availability" THEN x.online ELSE f[k].online
        /\ x.type = "discovery" => x.address \in r.announced
    <3> HIDE DEF x, r
    <3> QED
      BY <2>1, <2>2, ExecuteOne
  <2>4. f[k].state \in [Address -> RecordedState \cup {NONE}]
    BY <2>1 DEF Mirror
  <2>5. \A j \in 1 .. k : actions[j].type = "state" => actions[j].address \in Address
    BY <1>1, <2>1 DEF Action
  <2>6. \A j \in 1 .. k + 1 : j \in 1 .. k \/ j = k + 1
    OBVIOUS
  <2> HIDE DEF x, r
  <2>7. \A a \in Address : r.state[a] = IF x.type = "state" /\ a = x.address
                                        THEN target[a] ELSE f[k].state[a]
    BY <2>2, <2>3, <2>4
  <2>8. \A a \in Address : r.state[a] \in {m.state[a], target[a]}
    BY <2>1, <2>7
  <2>9. \A j \in 1 .. k + 1 :
           actions[j].type = "state" =>
             r.state[actions[j].address] = target[actions[j].address]
    BY <2>1, <2>3, <2>5, <2>6, <2>7 DEF x
  <2>10. /\ r.online \in {m.online, online}
         /\ \A j \in 1 .. k + 1 : actions[j].type = "availability" => r.online = online
    BY <2>1, <2>2, <2>3, <2>6 DEF x
  <2>11. /\ m.announced \subseteq r.announced
         /\ \A j \in 1 .. k + 1 :
              actions[j].type = "discovery" => actions[j].address \in r.announced
    BY <2>1, <2>3, <2>6 DEF x
  <2> QED
    BY <2>3, <2>8, <2>9, <2>10, <2>11 DEF r
<1> HIDE DEF P
<1>6. Nat \subseteq P
  BY <1>4, <1>5, NatSetInduction
<1>7. Good(n)
  BY <1>1, <1>6 DEF P
<1>8. \A x \in Holds(actions) : \E j \in 1 .. n : x = actions[j]
  BY DEF Holds, n
<1> QED
  BY <1>2, <1>7, <1>8

-----------------------------------------------------------------------------
(***************************************************************************)
(* The lists the operations return.                                        *)
(***************************************************************************)
\* A list agrees with the step that returns it: every message says what is
\* recorded after the step, and what the step changes is in a message.
Faithful(actions) ==
    /\ actions \in Seq(Action)
    /\ \A x \in Holds(actions) :
         /\ x.type = "state" => x.state = dev'[x.address].current
         /\ x.type = "availability" => x.online = Available'
         /\ x.type = "status" => x.mochad = mochadConn'
    /\ \A a \in Address :
         /\ dev'[a].current # dev[a].current =>
              \E x \in Holds(actions) : x.type = "state" /\ x.address = a
         /\ dev'[a].discovered /\ ~dev[a].discovered =>
              mqttConn' /\ \E x \in Holds(actions) : x.type = "discovery" /\ x.address = a
         /\ dev'[a].current = NONE => dev[a].current = NONE
    /\ Available' # Available => \E x \in Holds(actions) : x.type = "availability"
    /\ mochadConn' # mochadConn => \E x \in Holds(actions) : x.type = "status"
    /\ mqttConn' /\ ~mqttConn =>
         /\ \E x \in Holds(actions) : x.type = "availability"
         /\ \E x \in Holds(actions) : x.type = "status"
         /\ \A a \in Address : dev'[a].current # NONE =>
              \E x \in Holds(actions) : x.type = "state" /\ x.address = a

\* A state is named only if it changes, or in the replay after a connect.
OnlyChanges(actions) ==
    \A x \in Holds(actions) : x.type = "state" =>
      \/ dev[x.address].current # dev'[x.address].current
      \/ actions[1].type = "availability"

\* A device that is not known has nothing recorded.
UnknownIsFresh ==
    \A a \in Address \ known : dev[a].current = NONE /\ ~dev[a].discovered

\* The empty list and a list of one action, with what they hold.
LEMMA Lists ==
    /\ << >> \in Seq(Action) /\ Holds(<< >>) = {}
    /\ \A x \in Action : << x >> \in Seq(Action) /\ Holds(<< x >>) = {x}
<1>1. ASSUME NEW x \in Action
      PROVE  << x >> \in Seq(Action) /\ Holds(<< x >>) = {x}
  BY DEF Holds
<1> QED
  BY <1>1 DEF Holds

\* The messages are actions, and are told apart by their type.
LEMMA ActionTyped ==
    /\ \A o \in BOOLEAN : PublishAvailability(o) \in Action
    /\ \A q, m \in BOOLEAN : PublishStatus(q, m) \in Action
    /\ \A a \in Address : /\ PublishDiscovery(a) \in Action /\ PublishEvent(a) \in Action
                          /\ PublishCommandEvent(a) \in Action
    /\ \A a \in Address, s \in RecordedState : PublishState(a, s) \in Action
    /\ \A a \in Address, c \in DeviceCommand :
         PublishAttributes(a, c) \in Action /\ SendDeviceCommand(a, c) \in Action
    /\ RequestStatus \in Action /\ LogUnknownEvent \in Action
BY DEF Action, PublishAvailability, PublishStatus, PublishDiscovery, PublishEvent,
       PublishCommandEvent, PublishState, PublishAttributes, SendDeviceCommand,
       RequestStatus, LogUnknownEvent

\* _set_device_state returns the new state, and nothing for a duplicate.
LEMMA SetStateList ==
    ASSUME NEW a \in Address, NEW c \in STATE_COMMANDS
    PROVE  /\ SetDeviceStateActions(a, c) \in Seq(Action)
           /\ Holds(SetDeviceStateActions(a, c)) =
                IF dev[a].current = AuthoritativeState(c) THEN {}
                ELSE {PublishState(a, AuthoritativeState(c))}
<1>1. PublishState(a, AuthoritativeState(c)) \in Action
  BY AuthoritativeType, ActionTyped
<1> QED
  BY <1>1, Lists DEF SetDeviceStateActions

\* _discovery_actions returns the announcement of a device that was not
\* announced on this connection.
LEMMA DiscoveryList ==
    ASSUME NEW a \in Address
    PROVE  /\ DiscoveryActions(a) \in Seq(Action)
           /\ Holds(DiscoveryActions(a)) =
                IF mqttConn /\ ~dev[a].discovered THEN {PublishDiscovery(a)} ELSE {}
<1>1. PublishDiscovery(a) \in Action
  BY ActionTyped
<1> QED
  BY <1>1, Lists DEF DiscoveryActions

\* The lists of several devices.
LEMMA ForEachList ==
    ASSUME NEW S, IsFiniteSet(S), NEW lists \in [S -> Seq(Action)]
    PROVE  LET s == FlattenSeq([i \in 1 .. Cardinality(S) |-> lists[SetToSeq(S)[i]]]) IN
             /\ s \in Seq(Action)
             /\ \A x : x \in Holds(s) <=> \E a \in S : x \in Holds(lists[a])
<1> DEFINE n == Cardinality(S)
           l == [i \in 1 .. n |-> lists[SetToSeq(S)[i]]]
<1>1. /\ n \in Nat /\ SetToSeq(S) \in [1 .. n -> S]
      /\ \A a \in S : \E i \in 1 .. n : SetToSeq(S)[i] = a
  BY SetToSeqProperties
<1>2. l \in [1 .. n -> Seq(Action)] /\ \A i \in 1 .. n : l[i] = lists[SetToSeq(S)[i]]
  BY <1>1
<1> HIDE DEF n, l
<1>3. /\ FlattenSeq(l) \in Seq(Action)
      /\ Holds(FlattenSeq(l)) = UNION {Holds(l[i]) : i \in 1 .. n}
  BY <1>1, <1>2, FlattenHolds
<1>4. ASSUME NEW a \in S, NEW x \in Holds(lists[a])
      PROVE  x \in Holds(FlattenSeq(l))
  <2>1. PICK i \in 1 .. n : SetToSeq(S)[i] = a
    BY <1>1
  <2> QED
    BY <1>2, <1>3, <1>4, <2>1
<1>5. ASSUME NEW x \in Holds(FlattenSeq(l))
      PROVE  \E a \in S : x \in Holds(lists[a])
  <2>1. PICK i \in 1 .. n : x \in Holds(l[i])
    BY <1>3, <1>5
  <2> QED
    BY <1>1, <1>2, <2>1
<1> QED
  BY <1>3, <1>4, <1>5 DEF l, n

\* What the helpers on one record do to the fields that are mirrored.
LEMMA RecordFields ==
    ASSUME NEW d \in DeviceState, NEW c \in STATE_COMMANDS, NEW clear \in BOOLEAN
    PROVE  /\ SetDeviceState(d, c, clear).current = AuthoritativeState(c)
           /\ SetDeviceState(d, c, clear).discovered = d.discovered
<1>1. AuthoritativeState(c) \in RecordedState
  BY AuthoritativeType
<1> QED
  BY <1>1 DEF SetDeviceState, ClearConfirmedPending, DeviceState

\* _discovery_actions leaves the state alone and marks the device while MQTT
\* is connected.
LEMMA DiscoverFields ==
    ASSUME NEW d \in DeviceState
    PROVE  /\ Discover(d).current = d.current
           /\ Discover(d).discovered = (d.discovered \/ mqttConn)
BY DEF Discover, DeviceState

\* A call about one device.
LEMMA OneDevice ==
    ASSUME ManagerTypeOK, NEW a \in Address, NEW record \in DeviceState,
           dev' = [dev EXCEPT ![a] = record], UNCHANGED <<mqttConn, mochadConn>>,
           NEW actions \in Seq(Action), NEW sets \in BOOLEAN, NEW s \in RecordedState,
           record.discovered = (dev[a].discovered \/ mqttConn),
           record.current = IF sets THEN s ELSE dev[a].current,
           \A x \in Holds(actions) :
             /\ x.type # "availability" /\ x.type # "status"
             /\ x.type = "state" => x.address = a /\ x.state = s /\ sets /\ dev[a].current # s,
           sets /\ dev[a].current # s => PublishState(a, s) \in Holds(actions),
           mqttConn /\ ~dev[a].discovered => PublishDiscovery(a) \in Holds(actions)
    PROVE  Faithful(actions) /\ OnlyChanges(actions)
<1>1. dev'[a] = record /\ \A b \in Address \ {a} : dev'[b] = dev[b]
  BY DEF ManagerTypeOK
<1>2. Available' = Available /\ mqttConn' = mqttConn
  BY DEF Available
<1>3. /\ PublishState(a, s).type = "state" /\ PublishState(a, s).address = a
      /\ PublishDiscovery(a).type = "discovery" /\ PublishDiscovery(a).address = a
  BY DEF PublishState, PublishDiscovery
<1>4. s # NONE
  BY DEF RecordedState, NONE
<1>5. \A x \in Holds(actions) :
         /\ x.type = "state" => x.state = dev'[x.address].current
         /\ x.type = "availability" => x.online = Available'
  BY <1>1
<1>6. ASSUME NEW b \in Address
      PROVE  /\ dev'[b].current # dev[b].current =>
                  \E x \in Holds(actions) : x.type = "state" /\ x.address = b
             /\ dev'[b].discovered /\ ~dev[b].discovered =>
                  mqttConn' /\ \E x \in Holds(actions) : x.type = "discovery" /\ x.address = b
             /\ dev'[b].current = NONE => dev[b].current = NONE
  <2>1. CASE b = a
    <3>1. dev'[b] = record
      BY <1>1, <2>1
    <3>2. dev'[b].current # dev[b].current =>
             \E x \in Holds(actions) : x.type = "state" /\ x.address = b
      BY <1>3, <2>1, <3>1
    <3>3. dev'[b].discovered /\ ~dev[b].discovered =>
             mqttConn' /\ \E x \in Holds(actions) : x.type = "discovery" /\ x.address = b
      <4>1. dev'[b].discovered /\ ~dev[b].discovered => mqttConn /\ ~dev[a].discovered
        BY <2>1, <3>1, Zenon
      <4>2. mqttConn /\ ~dev[a].discovered =>
              \E x \in Holds(actions) : x.type = "discovery" /\ x.address = b
        BY <1>3, <2>1
      <4> QED
        BY <1>2, <4>1, <4>2
    <3>4. dev'[b].current = NONE => dev[b].current = NONE
      BY <1>4, <2>1, <3>1
    <3> QED
      BY <3>2, <3>3, <3>4
  <2>2. CASE b # a
    BY <1>1, <2>2
  <2> QED
    BY <2>1, <2>2
<1>7. Faithful(actions)
  BY <1>2, <1>5, <1>6 DEF Faithful
<1>8. OnlyChanges(actions)
  BY <1>1 DEF OnlyChanges
<1> QED
  BY <1>7, <1>8

\* The states of several devices are set, and those that change are named.
LEMMA SetSeveral ==
    ASSUME NEW T \in SUBSET Address, NEW auth \in [T -> RecordedState],
           \A b \in T : dev'[b].current = auth[b] /\ dev'[b].discovered = dev[b].discovered,
           \A b \in Address \ T : dev'[b] = dev[b],
           UNCHANGED <<mqttConn, mochadConn>>, NEW actions \in Seq(Action),
           \A x : x \in Holds(actions) <=>
             \E b \in T : dev[b].current # auth[b] /\ x = PublishState(b, auth[b])
    PROVE  Faithful(actions) /\ OnlyChanges(actions)
<1>1. \A b, s : /\ PublishState(b, s).type = "state" /\ PublishState(b, s).address = b
                /\ PublishState(b, s).state = s
  BY DEF PublishState
<1>2. Available' = Available /\ mqttConn' = mqttConn
  BY DEF Available
<1>3. \A b \in T : auth[b] # NONE
  BY DEF RecordedState, NONE
<1>4. \A x \in Holds(actions) :
         /\ x.type = "state" /\ x.address \in T /\ x.state = dev'[x.address].current
         /\ dev[x.address].current # dev'[x.address].current
  <2>1. ASSUME NEW x \in Holds(actions)
        PROVE  /\ x.type = "state" /\ x.address \in T /\ x.state = dev'[x.address].current
               /\ dev[x.address].current # dev'[x.address].current
    <3>1. PICK b \in T : dev[b].current # auth[b] /\ x = PublishState(b, auth[b])
      BY <2>1, Zenon
    <3> QED
      BY <1>1, <3>1
  <2> QED
    BY <2>1
<1>5. ASSUME NEW b \in Address
      PROVE  /\ dev'[b].current # dev[b].current =>
                  \E x \in Holds(actions) : x.type = "state" /\ x.address = b
             /\ dev'[b].discovered = dev[b].discovered
             /\ dev'[b].current = NONE => dev[b].current = NONE
  <2>1. CASE b \in T
    <3>1. dev[b].current # auth[b] => PublishState(b, auth[b]) \in Holds(actions)
      BY <2>1, Zenon
    <3> QED
      BY <1>1, <1>3, <2>1, <3>1
  <2>2. CASE b \notin T
    BY <2>2
  <2> QED
    BY <2>1, <2>2
<1>6. Faithful(actions)
  <2>1. \A b \in Address : ~(dev'[b].discovered /\ ~dev[b].discovered)
    BY <1>5
  <2> QED
    BY <1>2, <1>4, <1>5, <2>1 DEF Faithful
<1>7. OnlyChanges(actions)
  BY <1>4 DEF OnlyChanges
<1> QED
  BY <1>6, <1>7

\* A call that sets the state of several devices.
LEMMA SeveralDevices ==
    ASSUME ManagerTypeOK, NEW T \in SUBSET Address, NEW cmd \in [T -> STATE_COMMANDS],
           dev' = [b \in Address |->
                     IF b \in T
                     THEN SetDeviceState([dev[b] EXCEPT !.available = TRUE], cmd[b], TRUE)
                     ELSE dev[b]],
           UNCHANGED <<mqttConn, mochadConn>>,
           NEW lists \in [T -> Seq(Action)],
           \A b \in T : lists[b] = SetDeviceStateActions(b, cmd[b]),
           NEW actions,
           actions = FlattenSeq([i \in 1 .. Cardinality(T) |-> lists[SetToSeq(T)[i]]])
    PROVE  Faithful(actions) /\ OnlyChanges(actions)
<1>1. IsFiniteSet(T)
  BY FS_Subset, FiniteAssumption
<1>2. /\ actions \in Seq(Action)
      /\ \A x : x \in Holds(actions) <=> \E b \in T : x \in Holds(lists[b])
  BY <1>1, ForEachList
<1>3. /\ \A b \in T : /\ dev'[b].current = AuthoritativeState(cmd[b])
                      /\ dev'[b].discovered = dev[b].discovered
      /\ \A b \in Address \ T : dev'[b] = dev[b]
  <2>1. ASSUME NEW b \in T
        PROVE  /\ dev'[b].current = AuthoritativeState(cmd[b])
               /\ dev'[b].discovered = dev[b].discovered
    <3> DEFINE d == [dev[b] EXCEPT !.available = TRUE]
    <3>1. d \in DeviceState /\ d.discovered = dev[b].discovered
      BY DEF ManagerTypeOK, DeviceState
    <3>2. dev'[b] = SetDeviceState(d, cmd[b], TRUE) /\ cmd[b] \in STATE_COMMANDS
      OBVIOUS
    <3> HIDE DEF d
    <3> QED
      BY <3>1, <3>2, RecordFields
  <2> QED
    BY <2>1
<1>4. \A x : x \in Holds(actions) <=>
        \E b \in T : /\ dev[b].current # AuthoritativeState(cmd[b])
                     /\ x = PublishState(b, AuthoritativeState(cmd[b]))
  <2>1. \A b \in T : Holds(lists[b]) =
          IF dev[b].current = AuthoritativeState(cmd[b]) THEN {}
          ELSE {PublishState(b, AuthoritativeState(cmd[b]))}
    BY SetStateList
  <2>2. \A b \in T : \A x : x \in Holds(lists[b]) <=>
          /\ dev[b].current # AuthoritativeState(cmd[b])
          /\ x = PublishState(b, AuthoritativeState(cmd[b]))
    BY <2>1
  <2> QED
    BY <1>2, <2>2, Zenon
<1> DEFINE auth == [b \in T |-> AuthoritativeState(cmd[b])]
<1>5. auth \in [T -> RecordedState] /\ \A b \in T : auth[b] = AuthoritativeState(cmd[b])
  BY AuthoritativeType
<1> HIDE DEF auth
<1>6. \A b \in T : dev'[b].current = auth[b] /\ dev'[b].discovered = dev[b].discovered
  BY <1>3, <1>5
<1>7. \A x : x \in Holds(actions) <=>
        \E b \in T : dev[b].current # auth[b] /\ x = PublishState(b, auth[b])
  BY <1>4, <1>5, Zenon
<1>8. \A b \in Address \ T : dev'[b] = dev[b]
  BY <1>3
<1> QED
  BY <1>2, <1>5, <1>6, <1>7, <1>8, SetSeveral, Zenon

\* A call that changes nothing and publishes no state.
LEMMA NoDevice ==
    ASSUME NEW actions \in Seq(Action), UNCHANGED <<dev, mqttConn, mochadConn>>,
           \A x \in Holds(actions) : x.type \notin {"state", "availability", "status"}
    PROVE  Faithful(actions) /\ OnlyChanges(actions)
BY DEF Faithful, OnlyChanges, Available

\* A configuration says whether its device is stateful.
LEMMA StatefulType ==
    ASSUME NEW a \in Address
    PROVE  Stateful(a) \in BOOLEAN
<1>1. CASE a \in Configured /\ AddressAllowed(a)
  BY <1>1, ConfigAssumption DEF Stateful, ConfigFor, DeviceConfig
<1>2. CASE ~(a \in Configured /\ AddressAllowed(a))
  BY <1>2 DEF Stateful, ConfigFor, DefaultConfig
<1> QED
  BY <1>1, <1>2

\* optimistic_update returns what a broker needs to follow it, and a state only
\* if it changed.
LEMMA OptimisticFaithful ==
    ASSUME ManagerTypeOK, NEW a \in Address, NEW c \in DeviceCommand, OptimisticUpdate(a, c)
    PROVE  LET l == OptimisticUpdateActions(a, c) IN Faithful(l) /\ OnlyChanges(l)
<1> DEFINE asked  == Discover([dev[a] EXCEPT !.pending = c])
           sets   == Stateful(a) /\ OptimisticUpdates
           record == IF sets THEN SetDeviceState(asked, c, FALSE) ELSE asked
           s      == AuthoritativeState(c)
           D      == DiscoveryActions(a)
           X      == << SendDeviceCommand(a, c) >>
           E      == << PublishCommandEvent(a) >>
           A      == << PublishAttributes(a, c) >>
           C      == IF OptimisticUpdates THEN SetDeviceStateActions(a, c) ELSE << >>
           R      == IF ~Stateful(a) THEN E ELSE A \o C
           l      == OptimisticUpdateActions(a, c)
<1>1. CASE ~CommandAccepted(a, c)
  <2>1. l = << >> /\ UNCHANGED <<dev, mqttConn, mochadConn>>
    BY <1>1 DEF OptimisticUpdateActions, OptimisticUpdate
  <2> HIDE DEF l
  <2> QED
    BY <2>1, Lists, NoDevice DEF l
<1>2. CASE CommandAccepted(a, c)
  <2>1. l = D \o X \o R
    BY <1>2 DEF OptimisticUpdateActions
  <2>2. dev' = [dev EXCEPT ![a] = record] /\ UNCHANGED <<mqttConn, mochadConn>>
    BY <1>2 DEF OptimisticUpdate
  <2>3. c \in STATE_COMMANDS /\ s \in RecordedState
    BY AuthoritativeType DEF DeviceCommand, STATE_COMMANDS
  <2>4. /\ [dev[a] EXCEPT !.pending = c] \in DeviceState
        /\ [dev[a] EXCEPT !.pending = c].current = dev[a].current
        /\ [dev[a] EXCEPT !.pending = c].discovered = dev[a].discovered
    BY DEF ManagerTypeOK, DeviceState
  <2>5. /\ asked \in DeviceState /\ asked.current = dev[a].current
        /\ asked.discovered = (dev[a].discovered \/ mqttConn)
    <3>1. mqttConn \in BOOLEAN
      BY DEF ManagerTypeOK
    <3> QED
      BY <2>4, <3>1, DiscoverType, DiscoverFields
  <2> HIDE DEF asked, s
  <2>6. /\ SetDeviceState(asked, c, FALSE) \in DeviceState
        /\ SetDeviceState(asked, c, FALSE).current = s
        /\ SetDeviceState(asked, c, FALSE).discovered = asked.discovered
    BY <2>3, <2>5, SetDeviceStateType, RecordFields DEF s
  <2>7. sets \in BOOLEAN
    BY OptimisticAssumption, StatefulType
  <2> HIDE DEF sets
  <2>8. /\ record \in DeviceState
        /\ record.current = IF sets THEN s ELSE dev[a].current
    BY <2>5, <2>6
  <2>9. record.discovered = (dev[a].discovered \/ mqttConn)
    <3>1. CASE sets
      BY <2>5, <2>6, <3>1, Zenon
    <3>2. CASE ~sets
      BY <2>5, <3>2, Zenon
    <3> QED
      BY <3>1, <3>2
  <2>10. /\ D \in Seq(Action) /\ X \in Seq(Action) /\ E \in Seq(Action) /\ A \in Seq(Action)
         /\ C \in Seq(Action)
         /\ Holds(D) = IF mqttConn /\ ~dev[a].discovered THEN {PublishDiscovery(a)} ELSE {}
         /\ Holds(X) = {SendDeviceCommand(a, c)} /\ Holds(E) = {PublishCommandEvent(a)}
         /\ Holds(A) = {PublishAttributes(a, c)}
         /\ Holds(C) = IF OptimisticUpdates /\ dev[a].current # s THEN {PublishState(a, s)} ELSE {}
    <3>1. D \in Seq(Action)
          /\ Holds(D) = IF mqttConn /\ ~dev[a].discovered THEN {PublishDiscovery(a)} ELSE {}
      BY DiscoveryList
    <3>2. /\ SendDeviceCommand(a, c) \in Action /\ PublishCommandEvent(a) \in Action
          /\ PublishAttributes(a, c) \in Action
      BY ActionTyped
    <3>3. /\ X \in Seq(Action) /\ E \in Seq(Action) /\ A \in Seq(Action)
          /\ Holds(X) = {SendDeviceCommand(a, c)} /\ Holds(E) = {PublishCommandEvent(a)}
          /\ Holds(A) = {PublishAttributes(a, c)}
      BY <3>2, Lists
    <3>4. C \in Seq(Action) /\ Holds(C) = IF OptimisticUpdates /\ dev[a].current # s
                                          THEN {PublishState(a, s)} ELSE {}
      BY <2>3, SetStateList, Lists DEF s
    <3> QED
      BY <3>1, <3>3, <3>4
  <2> HIDE DEF D, X, E, A, C
  <2>11. /\ R \in Seq(Action)
         /\ Stateful(a) => Holds(R) = Holds(A) \cup Holds(C)
         /\ ~Stateful(a) => Holds(R) = Holds(E)
    BY <2>10, ConcatHolds
  <2> HIDE DEF R, l
  <2>12. D \o X \in Seq(Action) /\ Holds(D \o X) = Holds(D) \cup Holds(X)
    BY <2>10, ConcatHolds
  <2>13. l \in Seq(Action) /\ Holds(l) = Holds(D) \cup Holds(X) \cup Holds(R)
    <3> DEFINE DX == D \o X
    <3>1. DX \in Seq(Action) /\ Holds(DX) = Holds(D) \cup Holds(X) /\ l = DX \o R
      BY <2>1, <2>12
    <3> HIDE DEF DX
    <3>2. DX \o R \in Seq(Action) /\ Holds(DX \o R) = Holds(DX) \cup Holds(R)
      BY <2>11, <3>1, ConcatHolds
    <3> QED
      BY <3>1, <3>2
  <2>14. /\ SendDeviceCommand(a, c).type = "send" /\ PublishCommandEvent(a).type = "command_event"
         /\ PublishAttributes(a, c).type = "attributes" /\ PublishDiscovery(a).type = "discovery"
         /\ PublishState(a, s).type = "state" /\ PublishState(a, s).address = a
         /\ PublishState(a, s).state = s
    BY DEF SendDeviceCommand, PublishCommandEvent, PublishAttributes, PublishDiscovery, PublishState
  <2>15. \A x \in Holds(l) :
           /\ x.type # "availability" /\ x.type # "status"
           /\ x.type = "state" => x.address = a /\ x.state = s /\ sets /\ dev[a].current # s
    BY <2>10, <2>11, <2>13, <2>14 DEF sets
  <2>16. /\ sets /\ dev[a].current # s => PublishState(a, s) \in Holds(l)
         /\ mqttConn /\ ~dev[a].discovered => PublishDiscovery(a) \in Holds(l)
    BY <2>10, <2>11, <2>13 DEF sets
  <2> HIDE DEF record
  <2> QED
    BY <2>2, <2>3, <2>7, <2>8, <2>9, <2>13, <2>15, <2>16, OneDevice DEF l
<1> QED
  BY <1>1, <1>2

\* So does apply for a device event ...
LEMMA EventFaithful ==
    ASSUME ManagerTypeOK, NEW a \in Address, NEW c \in EventCommand, ApplyDeviceEvent(a, c)
    PROVE  LET l == ApplyDeviceEventActions(a, c) IN Faithful(l) /\ OnlyChanges(l)
<1> DEFINE seen   == Discover([dev[a] EXCEPT !.available = TRUE])
           sets   == EventSetsState(a, c)
           record == IF sets THEN SetDeviceState(seen, c, TRUE) ELSE seen
           s      == IF sets THEN AuthoritativeState(c) ELSE "ON"
           D      == DiscoveryActions(a)
           X      == << PublishEvent(a) >>
           C      == IF sets THEN SetDeviceStateActions(a, c) ELSE << >>
           l      == ApplyDeviceEventActions(a, c)
<1>1. CASE ~AddressAllowed(a)
  <2>1. l = << >> /\ UNCHANGED <<dev, mqttConn, mochadConn>>
    BY <1>1 DEF ApplyDeviceEventActions, ApplyDeviceEvent
  <2> HIDE DEF l
  <2> QED
    BY <2>1, Lists, NoDevice DEF l
<1>2. CASE AddressAllowed(a)
  <2>1. l = D \o X \o C
    BY <1>2 DEF ApplyDeviceEventActions
  <2>2. dev' = [dev EXCEPT ![a] = record] /\ UNCHANGED <<mqttConn, mochadConn>>
    BY <1>2 DEF ApplyDeviceEvent
  <2>3. /\ sets => c \in STATE_COMMANDS /\ s = AuthoritativeState(c)
        /\ s \in RecordedState
        /\ sets \in BOOLEAN
    <3>1. sets \in BOOLEAN /\ (sets => c \in STATE_COMMANDS)
      BY StatefulType DEF EventSetsState
    <3>2. s \in RecordedState
      BY <3>1, AuthoritativeType DEF RecordedState
    <3> QED
      BY <3>1, <3>2
  <2>4. /\ [dev[a] EXCEPT !.available = TRUE] \in DeviceState
        /\ [dev[a] EXCEPT !.available = TRUE].current = dev[a].current
        /\ [dev[a] EXCEPT !.available = TRUE].discovered = dev[a].discovered
    BY DEF ManagerTypeOK, DeviceState
  <2>5. /\ seen \in DeviceState /\ seen.current = dev[a].current
        /\ seen.discovered = (dev[a].discovered \/ mqttConn)
    <3>1. mqttConn \in BOOLEAN
      BY DEF ManagerTypeOK
    <3> QED
      BY <2>4, <3>1, DiscoverType, DiscoverFields
  <2> HIDE DEF seen, s
  <2>6. sets => /\ SetDeviceState(seen, c, TRUE) \in DeviceState
                /\ SetDeviceState(seen, c, TRUE).current = s
                /\ SetDeviceState(seen, c, TRUE).discovered = seen.discovered
    BY <2>3, <2>5, SetDeviceStateType, RecordFields
  <2>7. /\ C \in Seq(Action)
        /\ Holds(C) = IF sets /\ dev[a].current # s THEN {PublishState(a, s)} ELSE {}
    <3>1. CASE sets
      BY <2>3, <3>1, SetStateList
    <3>2. CASE ~sets
      BY <3>2, Lists
    <3> QED
      BY <3>1, <3>2
  <2> HIDE DEF sets, C
  <2>8. /\ record \in DeviceState
        /\ record.current = IF sets THEN s ELSE dev[a].current
    BY <2>5, <2>6
  <2>9. record.discovered = (dev[a].discovered \/ mqttConn)
    <3>1. CASE sets
      BY <2>5, <2>6, <3>1, Zenon
    <3>2. CASE ~sets
      BY <2>5, <3>2, Zenon
    <3> QED
      BY <3>1, <3>2
  <2>10. /\ D \in Seq(Action) /\ X \in Seq(Action)
         /\ Holds(D) = IF mqttConn /\ ~dev[a].discovered THEN {PublishDiscovery(a)} ELSE {}
         /\ Holds(X) = {PublishEvent(a)}
    BY DiscoveryList, ActionTyped, Lists
  <2> HIDE DEF D, X, l
  <2>11. l \in Seq(Action) /\ Holds(l) = Holds(D) \cup Holds(X) \cup Holds(C)
    <3> DEFINE DX == D \o X
    <3>1. DX \in Seq(Action) /\ Holds(DX) = Holds(D) \cup Holds(X) /\ l = DX \o C
      BY <2>1, <2>10, ConcatHolds
    <3> HIDE DEF DX
    <3>2. DX \o C \in Seq(Action) /\ Holds(DX \o C) = Holds(DX) \cup Holds(C)
      BY <2>7, <3>1, ConcatHolds
    <3> QED
      BY <3>1, <3>2
  <2>12. /\ PublishEvent(a).type = "event" /\ PublishDiscovery(a).type = "discovery"
         /\ PublishState(a, s).type = "state" /\ PublishState(a, s).address = a
         /\ PublishState(a, s).state = s
    BY DEF PublishEvent, PublishDiscovery, PublishState
  <2>13. \A x \in Holds(l) :
           /\ x.type # "availability" /\ x.type # "status"
           /\ x.type = "state" => x.address = a /\ x.state = s /\ sets /\ dev[a].current # s
    BY <2>7, <2>10, <2>11, <2>12
  <2>14. /\ sets /\ dev[a].current # s => PublishState(a, s) \in Holds(l)
         /\ mqttConn /\ ~dev[a].discovered => PublishDiscovery(a) \in Holds(l)
    BY <2>7, <2>10, <2>11
  <2> HIDE DEF record
  <2> QED
    BY <2>2, <2>3, <2>8, <2>9, <2>11, <2>13, <2>14, OneDevice DEF l
<1> QED
  BY <1>1, <1>2

\* ... for a house event, which goes through the devices of the house ...
LEMMA HouseFaithful ==
    ASSUME ManagerTypeOK, NEW h \in House, NEW c \in EventCommand, ApplyHouseEvent(h, c)
    PROVE  LET l == ApplyHouseEventActions(h, c) IN Faithful(l) /\ OnlyChanges(l)
<1> DEFINE T == HouseTargets(h, c)
           cmd == [b \in T |-> HouseState(c)]
           lists == [b \in T |-> SetDeviceStateActions(b, HouseState(c))]
           l == ApplyHouseEventActions(h, c)
<1>1. HouseState(c) \in STATE_COMMANDS
  BY DEF HouseState, STATE_COMMANDS
<1>2. T \in SUBSET Address
  BY DEF HouseTargets, ManagerTypeOK
<1> HIDE DEF T
<1>3. cmd \in [T -> STATE_COMMANDS] /\ \A b \in T : cmd[b] = HouseState(c)
  BY <1>1
<1>4. lists \in [T -> Seq(Action)] /\ \A b \in T : lists[b] = SetDeviceStateActions(b, cmd[b])
  BY <1>1, <1>2, SetStateList
<1>5. l = FlattenSeq([i \in 1 .. Cardinality(T) |-> lists[SetToSeq(T)[i]]])
  <2>1. IsFiniteSet(T)
    BY <1>2, FS_Subset, FiniteAssumption
  <2>2. SetToSeq(T) \in [1 .. Cardinality(T) -> T]
    BY <2>1, SetToSeqProperties
  <2>3. [i \in 1 .. Cardinality(T) |-> lists[SetToSeq(T)[i]]]
          = [i \in 1 .. Cardinality(T) |-> SetDeviceStateActions(SetToSeq(T)[i], HouseState(c))]
    BY <2>2
  <2> QED
    BY <2>3 DEF ApplyHouseEventActions, ForEach, T
<1>6. /\ dev' = [b \in Address |->
                   IF b \in T
                   THEN SetDeviceState([dev[b] EXCEPT !.available = TRUE], cmd[b], TRUE)
                   ELSE dev[b]]
      /\ UNCHANGED <<mqttConn, mochadConn>>
  BY <1>3 DEF ApplyHouseEvent, T
<1> HIDE DEF cmd, lists, l
<1> QED
  BY <1>2, <1>3, <1>4, <1>5, <1>6, SeveralDevices DEF l

\* ... and for a status snapshot.
LEMMA SnapshotFaithful ==
    ASSUME ManagerTypeOK, NEW S \in SUBSET Address, NEW snap \in [S -> {"ON", "OFF"}],
           ApplyStatusSnapshot(snap)
    PROVE  LET l == ApplyStatusSnapshotActions(snap) IN Faithful(l) /\ OnlyChanges(l)
<1> DEFINE T == SnapshotTargets(snap)
           cmd == [b \in T |-> snap[b]]
           lists == [b \in T |-> SetDeviceStateActions(b, snap[b])]
           l == ApplyStatusSnapshotActions(snap)
<1>1. T \in SUBSET Address /\ \A b \in T : snap[b] \in STATE_COMMANDS
  BY DEF SnapshotTargets, STATE_COMMANDS
<1> HIDE DEF T
<1>2. cmd \in [T -> STATE_COMMANDS] /\ \A b \in T : cmd[b] = snap[b]
  BY <1>1
<1>3. lists \in [T -> Seq(Action)] /\ \A b \in T : lists[b] = SetDeviceStateActions(b, cmd[b])
  BY <1>1, <1>2, SetStateList
<1>4. l = FlattenSeq([i \in 1 .. Cardinality(T) |-> lists[SetToSeq(T)[i]]])
  <2>1. IsFiniteSet(T)
    BY <1>1, FS_Subset, FiniteAssumption
  <2>2. SetToSeq(T) \in [1 .. Cardinality(T) -> T]
    BY <2>1, SetToSeqProperties
  <2>3. [i \in 1 .. Cardinality(T) |-> lists[SetToSeq(T)[i]]]
          = [i \in 1 .. Cardinality(T) |->
               SetDeviceStateActions(SetToSeq(T)[i], snap[SetToSeq(T)[i]])]
    BY <2>2
  <2> QED
    BY <2>3 DEF ApplyStatusSnapshotActions, ForEach, T
<1>5. /\ dev' = [b \in Address |->
                   IF b \in T
                   THEN SetDeviceState([dev[b] EXCEPT !.available = TRUE], cmd[b], TRUE)
                   ELSE dev[b]]
      /\ UNCHANGED <<mqttConn, mochadConn>>
  BY <1>2 DEF ApplyStatusSnapshot, T
<1> HIDE DEF cmd, lists, l
<1> QED
  BY <1>1, <1>2, <1>3, <1>4, <1>5, SeveralDevices DEF l

\* The two messages about the bridge itself.
LEMMA StatusList ==
    ASSUME NEW q \in BOOLEAN, NEW m \in BOOLEAN
    PROVE  /\ BridgeStatusActions(q, m) \in Seq(Action)
           /\ BridgeStatusActions(q, m)[1] = PublishAvailability(q /\ m)
           /\ Len(BridgeStatusActions(q, m)) = 2
           /\ Holds(BridgeStatusActions(q, m)) =
                {PublishAvailability(q /\ m), PublishStatus(q, m)}
<1>1. PublishAvailability(q /\ m) \in Action /\ PublishStatus(q, m) \in Action
  <2>1. (q /\ m) \in BOOLEAN
    OBVIOUS
  <2> QED
    BY <2>1, ActionTyped
<1> QED
  BY <1>1 DEF BridgeStatusActions, Holds

\* A call that moves the flags only and says so.
LEMMA FlagsMove ==
    ASSUME NEW q \in BOOLEAN, NEW m \in BOOLEAN, NEW actions \in Seq(Action),
           mqttConn' = q, mochadConn' = m, mqttConn' => mqttConn,
           \A b \in Address : /\ dev'[b].current = dev[b].current
                              /\ dev'[b].discovered = dev[b].discovered,
           PublishAvailability(q /\ m) \in Holds(actions),
           PublishStatus(q, m) \in Holds(actions),
           \A x \in Holds(actions) :
             x \in {PublishAvailability(q /\ m), PublishStatus(q, m), RequestStatus}
    PROVE  Faithful(actions) /\ OnlyChanges(actions)
<1>1. Available' = (q /\ m)
  BY DEF Available
<1>2. /\ PublishAvailability(q /\ m).type = "availability"
      /\ PublishAvailability(q /\ m).online = (q /\ m)
      /\ PublishStatus(q, m).type = "status" /\ PublishStatus(q, m).mochad = m
      /\ RequestStatus.type = "request_status"
  BY DEF PublishAvailability, PublishStatus, RequestStatus
<1>3. \A x \in Holds(actions) :
        /\ x.type # "state"
        /\ x.type = "availability" => x.online = Available'
        /\ x.type = "status" => x.mochad = mochadConn'
  BY <1>1, <1>2
<1>4. \A b \in Address : ~(dev'[b].discovered /\ ~dev[b].discovered)
  OBVIOUS
<1>5. Faithful(actions)
  BY <1>2, <1>3, <1>4 DEF Faithful
<1>6. OnlyChanges(actions)
  BY <1>3 DEF OnlyChanges
<1> QED
  BY <1>5, <1>6

\* What is replayed for one device.
LEMMA AnnounceList ==
    ASSUME ManagerTypeOK, NEW a \in Address
    PROVE  /\ AnnounceActions(a) \in Seq(Action)
           /\ Holds(AnnounceActions(a)) =
                {PublishDiscovery(a)} \cup
                (IF dev[a].current = NONE THEN {} ELSE {PublishState(a, dev[a].current)})
<1> DEFINE D == << PublishDiscovery(a) >>
           R == IF dev[a].current # NONE THEN << PublishState(a, dev[a].current) >>
                ELSE << >>
<1>1. dev[a].current # NONE => dev[a].current \in RecordedState
  BY DEF ManagerTypeOK, DeviceState
<1>2. D \in Seq(Action) /\ Holds(D) = {PublishDiscovery(a)}
  BY ActionTyped, Lists
<1>3. /\ R \in Seq(Action)
      /\ Holds(R) = IF dev[a].current = NONE THEN {} ELSE {PublishState(a, dev[a].current)}
  BY <1>1, ActionTyped, Lists
<1> HIDE DEF D, R
<1>4. D \o R \in Seq(Action) /\ Holds(D \o R) = Holds(D) \cup Holds(R)
  BY <1>2, <1>3, ConcatHolds
<1> QED
  BY <1>2, <1>3, <1>4 DEF D, R, AnnounceActions

\* The replay of mqtt_connected, for all known devices.
LEMMA ReplayList ==
    ASSUME ManagerTypeOK
    PROVE  LET l == MqttConnectedActions IN
             /\ l \in Seq(Action)
             /\ l[1] = PublishAvailability(mochadConn)
             /\ \A x : x \in Holds(l) <=>
                  \/ x = PublishAvailability(mochadConn)
                  \/ x = PublishStatus(TRUE, mochadConn)
                  \/ \E a \in known :
                       \/ x = PublishDiscovery(a)
                       \/ dev[a].current # NONE /\ x = PublishState(a, dev[a].current)
<1> DEFINE B == BridgeStatusActions(TRUE, mochadConn)
           lists == [a \in known |-> AnnounceActions(a)]
           F == FlattenSeq([i \in 1 .. Cardinality(known) |-> lists[SetToSeq(known)[i]]])
           l == MqttConnectedActions
<1>0. known \subseteq Address /\ IsFiniteSet(known) /\ mochadConn \in BOOLEAN
  BY FS_Subset, FiniteAssumption DEF ManagerTypeOK
<1>1. l = B \o F
  <2>1. SetToSeq(known) \in [1 .. Cardinality(known) -> known]
    BY <1>0, SetToSeqProperties
  <2>2. [i \in 1 .. Cardinality(known) |-> lists[SetToSeq(known)[i]]]
          = [i \in 1 .. Cardinality(known) |-> AnnounceActions(SetToSeq(known)[i])]
    BY <2>1
  <2> QED
    BY <2>2 DEF MqttConnectedActions, ForEach
<1>2. /\ B \in Seq(Action) /\ B[1] = PublishAvailability(mochadConn) /\ Len(B) = 2
      /\ Holds(B) = {PublishAvailability(mochadConn), PublishStatus(TRUE, mochadConn)}
  <2>1. (TRUE /\ mochadConn) = mochadConn /\ TRUE \in BOOLEAN
    BY <1>0
  <2> QED
    BY <1>0, <2>1, StatusList
<1>3. lists \in [known -> Seq(Action)]
  BY <1>0, AnnounceList
<1>4. \A a \in known : \A x : x \in Holds(lists[a]) <=>
        \/ x = PublishDiscovery(a)
        \/ dev[a].current # NONE /\ x = PublishState(a, dev[a].current)
  <2>1. \A a \in known : Holds(lists[a]) =
          {PublishDiscovery(a)} \cup
          (IF dev[a].current = NONE THEN {} ELSE {PublishState(a, dev[a].current)})
    BY <1>0, AnnounceList
  <2> QED
    BY <2>1
<1> HIDE DEF B, lists
<1>5. /\ F \in Seq(Action)
      /\ \A x : x \in Holds(F) <=> \E a \in known : x \in Holds(lists[a])
  BY <1>0, <1>3, ForEachList
<1> HIDE DEF F
<1>b. B \in Seq(Action)
  BY <1>2
<1>f. F \in Seq(Action)
  BY <1>5
<1>6. B \o F \in Seq(Action) /\ Holds(B \o F) = Holds(B) \cup Holds(F)
  BY ONLY <1>b, <1>f, ConcatHolds
<1>7. (B \o F)[1] = B[1]
  <2>1. Len(B) = 2 /\ Len(F) \in Nat
    BY <1>2, <1>f, LenProperties
  <2>2. \A i \in 1 .. Len(B) + Len(F) : (B \o F)[i] = IF i <= Len(B) THEN B[i]
                                                      ELSE F[i - Len(B)]
    BY ONLY <1>b, <1>f, ConcatProperties
  <2> QED
    BY ONLY <2>1, <2>2
<1>8. \A x : x \in Holds(F) <=>
        \E a \in known : \/ x = PublishDiscovery(a)
                         \/ dev[a].current # NONE /\ x = PublishState(a, dev[a].current)
  BY <1>4, <1>5, Zenon
<1>9. \A x : x \in Holds(B \o F) <=> x \in Holds(F) \/ x = PublishAvailability(mochadConn)
                                       \/ x = PublishStatus(TRUE, mochadConn)
  BY <1>2, <1>6
<1> HIDE DEF l
<1>10. \A x : x \in Holds(l) <=>
         \/ x = PublishAvailability(mochadConn)
         \/ x = PublishStatus(TRUE, mochadConn)
         \/ \E a \in known : \/ x = PublishDiscovery(a)
                             \/ dev[a].current # NONE /\ x = PublishState(a, dev[a].current)
  BY <1>1, <1>8, <1>9, Zenon
<1>11. l \in Seq(Action) /\ l[1] = PublishAvailability(mochadConn)
  BY <1>1, <1>2, <1>6, <1>7
<1> QED
  BY <1>10, <1>11 DEF l

\* mqtt_connected: the availability comes first, then every known device; a
\* device that is not known has nothing to replay.
LEMMA ConnectFaithful ==
    ASSUME ManagerTypeOK, UnknownIsFresh, MqttConnected
    PROVE  LET l == MqttConnectedActions IN Faithful(l) /\ OnlyChanges(l)
<1> DEFINE l == MqttConnectedActions
<1>1. /\ l \in Seq(Action) /\ l[1] = PublishAvailability(mochadConn)
      /\ \A x : x \in Holds(l) <=>
           \/ x = PublishAvailability(mochadConn)
           \/ x = PublishStatus(TRUE, mochadConn)
           \/ \E a \in known :
                \/ x = PublishDiscovery(a)
                \/ dev[a].current # NONE /\ x = PublishState(a, dev[a].current)
  BY ReplayList
<1> HIDE DEF l
<1>2. /\ PublishAvailability(mochadConn).type = "availability"
      /\ PublishAvailability(mochadConn).online = mochadConn
      /\ PublishStatus(TRUE, mochadConn).type = "status"
      /\ PublishStatus(TRUE, mochadConn).mochad = mochadConn
      /\ \A b, s : /\ PublishState(b, s).type = "state" /\ PublishState(b, s).address = b
                   /\ PublishState(b, s).state = s
                   /\ PublishDiscovery(b).type = "discovery" /\ PublishDiscovery(b).address = b
  BY DEF PublishAvailability, PublishStatus, PublishState, PublishDiscovery
<1>3. \A b \in Address : dev'[b].current = dev[b].current
  <2>1. \A b \in Address : [dev[b] EXCEPT !.discovered = TRUE].current = dev[b].current
    BY DEF ManagerTypeOK, DeviceState
  <2> QED
    BY <2>1 DEF MqttConnected
<1>4. \A b \in Address : b \notin known => dev'[b] = dev[b]
  BY DEF MqttConnected
<1>5. mqttConn' = TRUE /\ mochadConn \in BOOLEAN /\ mochadConn' = mochadConn
  BY DEF MqttConnected, ManagerTypeOK
<1>6. Available' = mochadConn
  BY <1>5 DEF Available
<1>7. known \subseteq Address
  BY DEF ManagerTypeOK
<1>8. ASSUME NEW x \in Holds(l)
      PROVE  /\ x.type = "state" => x.state = dev'[x.address].current
             /\ x.type = "availability" => x.online = Available'
             /\ x.type = "status" => x.mochad = mochadConn'
  <2>1. CASE x = PublishAvailability(mochadConn)
    BY <1>2, <1>6, <2>1
  <2>2. CASE x = PublishStatus(TRUE, mochadConn)
    BY <1>2, <1>5, <2>2
  <2>3. CASE \E a \in known :
               \/ x = PublishDiscovery(a)
               \/ dev[a].current # NONE /\ x = PublishState(a, dev[a].current)
    BY <1>2, <1>3, <1>7, <2>3
  <2> QED
    BY <1>1, <1>8, <2>1, <2>2, <2>3, Zenon
<1>9. /\ \E x \in Holds(l) : x.type = "availability"
      /\ \E x \in Holds(l) : x.type = "status"
  <2>1. PublishAvailability(mochadConn) \in Holds(l)
        /\ PublishStatus(TRUE, mochadConn) \in Holds(l)
    BY <1>1, Zenon
  <2> QED
    BY <1>2, <2>1
<1>10. ASSUME NEW b \in Address, dev[b].current # NONE
       PROVE  \E x \in Holds(l) : x.type = "state" /\ x.address = b
  <2>1. b \in known
    BY <1>10 DEF UnknownIsFresh
  <2>2. PublishState(b, dev[b].current) \in Holds(l)
    BY <1>1, <1>10, <2>1, Zenon
  <2> QED
    BY <1>2, <2>2
<1>11. ASSUME NEW b \in Address, dev'[b].discovered, ~dev[b].discovered
       PROVE  \E x \in Holds(l) : x.type = "discovery" /\ x.address = b
  <2>1. b \in known
    BY <1>4, <1>11
  <2>2. PublishDiscovery(b) \in Holds(l)
    BY <1>1, <2>1, Zenon
  <2> QED
    BY <1>2, <2>2
<1>12. Faithful(l)
  BY <1>1, <1>3, <1>5, <1>8, <1>9, <1>10, <1>11 DEF Faithful
<1>13. OnlyChanges(l)
  BY <1>1, <1>2 DEF OnlyChanges
<1> QED
  BY <1>12, <1>13 DEF l

\* The other connection callbacks and the unknown event.
LEMMA FlagsFaithful ==
    ASSUME ManagerTypeOK
    PROVE  /\ ApplyUnknownEvent => LET l == ApplyUnknownEventActions IN
                                     Faithful(l) /\ OnlyChanges(l)
           /\ MqttDisconnected => LET l == MqttDisconnectedActions IN
                                    Faithful(l) /\ OnlyChanges(l)
           /\ MochadConnected => LET l == MochadConnectedActions IN
                                   Faithful(l) /\ OnlyChanges(l)
           /\ MochadDisconnected => LET l == MochadDisconnectedActions IN
                                      Faithful(l) /\ OnlyChanges(l)
<1>0. mqttConn \in BOOLEAN /\ mochadConn \in BOOLEAN /\ TRUE \in BOOLEAN /\ FALSE \in BOOLEAN
  BY DEF ManagerTypeOK
<1>1. ASSUME ApplyUnknownEvent
      PROVE  LET l == ApplyUnknownEventActions IN Faithful(l) /\ OnlyChanges(l)
  <2> DEFINE l == ApplyUnknownEventActions
  <2>1. LogUnknownEvent \in Action /\ LogUnknownEvent.type = "log"
    BY ActionTyped DEF LogUnknownEvent
  <2>2. l \in Seq(Action) /\ \A x \in Holds(l) : x.type \notin {"state", "availability", "status"}
    BY <2>1, Lists DEF ApplyUnknownEventActions
  <2>3. UNCHANGED <<dev, mqttConn, mochadConn>>
    BY <1>1 DEF ApplyUnknownEvent, smVars
  <2> HIDE DEF l
  <2> QED
    BY <2>2, <2>3, NoDevice DEF l
<1>2. ASSUME MqttDisconnected
      PROVE  LET l == MqttDisconnectedActions IN Faithful(l) /\ OnlyChanges(l)
  <2> DEFINE l == MqttDisconnectedActions
  <2>1. /\ l \in Seq(Action)
        /\ Holds(l) = {PublishAvailability(FALSE /\ mochadConn), PublishStatus(FALSE, mochadConn)}
    BY <1>0, StatusList DEF MqttDisconnectedActions
  <2>2. mqttConn' = FALSE /\ mochadConn' = mochadConn /\ dev' = dev
    BY <1>2 DEF MqttDisconnected
  <2> HIDE DEF l
  <2> QED
    BY <1>0, <2>1, <2>2, FlagsMove DEF l
<1>3. ASSUME MochadConnected
      PROVE  LET l == MochadConnectedActions IN Faithful(l) /\ OnlyChanges(l)
  <2> DEFINE l == MochadConnectedActions
             B == BridgeStatusActions(mqttConn, TRUE)
             R == << RequestStatus >>
  <2>1. /\ B \in Seq(Action)
        /\ Holds(B) = {PublishAvailability(mqttConn /\ TRUE), PublishStatus(mqttConn, TRUE)}
    BY <1>0, StatusList
  <2>2. R \in Seq(Action) /\ Holds(R) = {RequestStatus}
    BY ActionTyped, Lists
  <2> HIDE DEF B, R
  <2>3. B \o R \in Seq(Action) /\ Holds(B \o R) = Holds(B) \cup Holds(R)
    <3>1. B \in Seq(Action) /\ R \in Seq(Action)
      BY <2>1, <2>2
    <3> QED
      BY ONLY <3>1, ConcatHolds
  <2>4. l = B \o R
    BY DEF MochadConnectedActions, B, R
  <2>5. mqttConn' = mqttConn /\ mochadConn' = TRUE /\ dev' = dev
    BY <1>3 DEF MochadConnected
  <2> HIDE DEF l
  <2>6. /\ l \in Seq(Action) /\ PublishAvailability(mqttConn /\ TRUE) \in Holds(l)
        /\ PublishStatus(mqttConn, TRUE) \in Holds(l)
        /\ \A x \in Holds(l) : x \in {PublishAvailability(mqttConn /\ TRUE),
                                      PublishStatus(mqttConn, TRUE), RequestStatus}
    BY <2>1, <2>2, <2>3, <2>4
  <2> QED
    BY <1>0, <2>5, <2>6, FlagsMove DEF l
<1>4. ASSUME MochadDisconnected
      PROVE  LET l == MochadDisconnectedActions IN Faithful(l) /\ OnlyChanges(l)
  <2> DEFINE l == MochadDisconnectedActions
  <2>1. /\ l \in Seq(Action)
        /\ Holds(l) = {PublishAvailability(mqttConn /\ FALSE), PublishStatus(mqttConn, FALSE)}
    BY <1>0, StatusList DEF MochadDisconnectedActions
  <2>2. mqttConn' = mqttConn /\ mochadConn' = FALSE
    BY <1>4 DEF MochadDisconnected
  <2>3. \A b \in Address : /\ dev'[b].current = dev[b].current
                           /\ dev'[b].discovered = dev[b].discovered
    <3>1. \A b \in Address :
            /\ [dev[b] EXCEPT !.available = FALSE].current = dev[b].current
            /\ [dev[b] EXCEPT !.available = FALSE].discovered = dev[b].discovered
      BY DEF ManagerTypeOK, DeviceState
    <3> QED
      BY <1>4, <3>1 DEF MochadDisconnected
  <2> HIDE DEF l
  <2> QED
    BY <1>0, <2>1, <2>2, <2>3, FlagsMove DEF l
<1> QED
  BY <1>1, <1>2, <1>3, <1>4, Zenon

-----------------------------------------------------------------------------
(***************************************************************************)
(* The mirror.  MirrorInSync alone is not inductive: when MQTT connects,   *)
(* the replay names only the devices that have a recorded state, so of the *)
(* others the mirror must not have kept one from an earlier connection.    *)
(***************************************************************************)
SyncInv ==
    /\ mirror \in Mirror
    /\ \A a \in Address : dev[a].current = NONE => mirror.state[a] = NONE
    /\ \A a \in Address : dev[a].discovered => a \in mirror.announced
    /\ MirrorInSync

\* Every operation leaves the records of unknown devices empty.
LEMMA UnknownStep ==
    ASSUME ManagerTypeOK, UnknownIsFresh, Operation
    PROVE  UnknownIsFresh'
<1> SUFFICES ASSUME NEW x \in Address, x \notin known'
             PROVE  dev'[x].current = NONE /\ ~dev'[x].discovered
  BY DEF UnknownIsFresh
<1>0. dev \in [Address -> DeviceState] /\ known \subseteq Address
  BY DEF ManagerTypeOK
<1>1. x \notin known => dev[x].current = NONE /\ ~dev[x].discovered
  BY DEF UnknownIsFresh
<1>2. x \notin known /\ dev'[x] = dev[x]
  <2>1. CASE \E a \in Address, c \in DeviceCommand : OptimisticUpdate(a, c)
    BY <1>0, <2>1 DEF OptimisticUpdate, CommandAccepted
  <2>2. CASE \E a \in Address, c \in EventCommand : ApplyDeviceEvent(a, c)
    BY <1>0, <2>2 DEF ApplyDeviceEvent
  <2>3. CASE \E h \in House, c \in EventCommand : ApplyHouseEvent(h, c)
    BY <1>0, <2>3 DEF ApplyHouseEvent, HouseTargets
  <2>4. CASE \E S \in SUBSET Address : \E snap \in [S -> {"ON", "OFF"}] :
               ApplyStatusSnapshot(snap)
    BY <1>0, <2>4 DEF ApplyStatusSnapshot, SnapshotTargets
  <2>5. CASE ApplyUnknownEvent
    BY <1>0, <2>5 DEF ApplyUnknownEvent, smVars
  <2>6. CASE MqttConnected \/ MqttDisconnected
    BY <1>0, <2>6 DEF MqttConnected, MqttDisconnected
  <2>7. CASE MochadConnected \/ MochadDisconnected
    BY <1>0, <2>7 DEF MochadConnected, MochadDisconnected
  <2> QED
    BY <2>1, <2>2, <2>3, <2>4, <2>5, <2>6, <2>7 DEF Operation
<1> QED
  BY <1>1, <1>2

\* Every call returns a faithful list that repeats no state.
LEMMA NextFaithful ==
    ASSUME ManagerTypeOK, UnknownIsFresh, CallsNext
    PROVE  \E l : Returning(l) /\ Faithful(l) /\ OnlyChanges(l)
<1>1. CASE CallOptimisticUpdate
  <2>1. PICK a \in Address, c \in DeviceCommand :
          OptimisticUpdate(a, c) /\ Returning(OptimisticUpdateActions(a, c))
    BY <1>1 DEF CallOptimisticUpdate
  <2> QED
    BY <2>1, OptimisticFaithful, Zenon
<1>2. CASE CallApplyDeviceEvent
  <2>1. PICK a \in Address, c \in EventCommand :
          ApplyDeviceEvent(a, c) /\ Returning(ApplyDeviceEventActions(a, c))
    BY <1>2 DEF CallApplyDeviceEvent
  <2> QED
    BY <2>1, EventFaithful, Zenon
<1>3. CASE CallApplyHouseEvent
  <2>1. PICK h \in House, c \in EventCommand :
          ApplyHouseEvent(h, c) /\ Returning(ApplyHouseEventActions(h, c))
    BY <1>3 DEF CallApplyHouseEvent
  <2> QED
    BY <2>1, HouseFaithful, Zenon
<1>4. CASE CallApplyStatusSnapshot
  <2>1. PICK S \in SUBSET Address : \E snap \in [S -> {"ON", "OFF"}] :
          ApplyStatusSnapshot(snap) /\ Returning(ApplyStatusSnapshotActions(snap))
    BY <1>4 DEF CallApplyStatusSnapshot
  <2>2. PICK snap \in [S -> {"ON", "OFF"}] :
          ApplyStatusSnapshot(snap) /\ Returning(ApplyStatusSnapshotActions(snap))
    BY <2>1
  <2> QED
    BY <2>2, SnapshotFaithful, Zenon
<1>5. CASE CallApplyUnknownEvent
  BY <1>5, FlagsFaithful, Zenon DEF CallApplyUnknownEvent
<1>6. CASE CallMqttConnected
  BY <1>6, ConnectFaithful, Zenon DEF CallMqttConnected
<1>7. CASE CallMqttDisconnected
  BY <1>7, FlagsFaithful, Zenon DEF CallMqttDisconnected
<1>8. CASE CallMochadConnected
  BY <1>8, FlagsFaithful, Zenon DEF CallMochadConnected
<1>9. CASE CallMochadDisconnected
  BY <1>9, FlagsFaithful, Zenon DEF CallMochadDisconnected
<1> QED
  BY <1>1, <1>2, <1>3, <1>4, <1>5, <1>6, <1>7, <1>8, <1>9 DEF CallsNext

\* Executing a faithful list keeps the mirror in step.
LEMMA SyncStep ==
    ASSUME ManagerTypeOK, ManagerTypeOK', SyncInv, NEW l, Faithful(l), Returning(l)
    PROVE  SyncInv'
<1> DEFINE target == [a \in Address |-> dev'[a].current]
           online == Available'
<1>0. /\ target \in [Address -> RecordedState \cup {NONE}]
      /\ \A a \in Address : target[a] = dev'[a].current
  BY DEF ManagerTypeOK, DeviceState
<1>1. online \in BOOLEAN
  BY DEF ManagerTypeOK, Available
<1>2. /\ l \in Seq(Action)
      /\ \A x \in Holds(l) : x.type = "state" => x.address \in Address
  <2>1. l \in Seq(Action)
    BY DEF Faithful
  <2>2. \A x \in Holds(l) : x \in Action
    BY <2>1 DEF Holds
  <2> QED
    BY <2>1, <2>2 DEF Action
<1>3. \A x \in Holds(l) : /\ x.type = "state" => x.state = target[x.address]
                          /\ x.type = "availability" => x.online = online
  BY <1>2 DEF Faithful
<1>4. mirror \in Mirror
  BY DEF SyncInv
<1>5. CASE ~mqttConn'
  <2>1. mirror' = mirror
    BY <1>5 DEF Returning
  <2>2. \A a \in Address : dev'[a].current = NONE => mirror'.state[a] = NONE
    BY <2>1 DEF SyncInv, Faithful
  <2>3. \A a \in Address : dev'[a].discovered => a \in mirror'.announced
    BY <1>5, <2>1 DEF SyncInv, Faithful
  <2> QED
    BY <1>4, <1>5, <2>1, <2>2, <2>3 DEF SyncInv, MirrorInSync
<1>6. CASE mqttConn'
  <2>1. mirror' = ExecuteAll(mirror, l)
    BY <1>6 DEF Returning
  <2> HIDE DEF target, online
  <2>2. LET r == ExecuteAll(mirror, l) IN
          /\ r \in Mirror /\ mirror.announced \subseteq r.announced
          /\ \A a \in Address : r.state[a] \in {mirror.state[a], target[a]}
          /\ r.online \in {mirror.online, online}
          /\ \A x \in Holds(l) :
               /\ x.type = "state" => r.state[x.address] = target[x.address]
               /\ x.type = "availability" => r.online = online
               /\ x.type = "discovery" => x.address \in r.announced
    BY <1>0, <1>1, <1>2, <1>3, <1>4, ExecuteAllResult
  <2>3. ASSUME NEW a \in Address
        PROVE  mirror'.state[a] = dev'[a].current
    <3>1. mirror'.state[a] \in {mirror.state[a], dev'[a].current}
      BY <1>0, <2>1, <2>2
    <3>2. (\E x \in Holds(l) : x.type = "state" /\ x.address = a) =>
            mirror'.state[a] = dev'[a].current
      BY <1>0, <2>1, <2>2
    <3>3. /\ dev'[a].current # dev[a].current =>
               \E x \in Holds(l) : x.type = "state" /\ x.address = a
          /\ dev'[a].current = NONE => dev[a].current = NONE
          /\ ~mqttConn /\ dev'[a].current # NONE =>
               \E x \in Holds(l) : x.type = "state" /\ x.address = a
      BY <1>6 DEF Faithful
    <3>4. /\ mqttConn => mirror.state[a] = dev[a].current
          /\ dev[a].current = NONE => mirror.state[a] = NONE
      BY DEF SyncInv, MirrorInSync
    <3> QED
      BY <3>1, <3>2, <3>3, <3>4
  <2>4. mirror'.online = Available'
    <3>1. mirror'.online \in {mirror.online, Available'}
      BY <2>1, <2>2 DEF online
    <3>2. (\E x \in Holds(l) : x.type = "availability") => mirror'.online = Available'
      BY <2>1, <2>2 DEF online
    <3>3. /\ Available' # Available => \E x \in Holds(l) : x.type = "availability"
          /\ ~mqttConn => \E x \in Holds(l) : x.type = "availability"
      BY <1>6 DEF Faithful
    <3>4. mqttConn => mirror.online = Available
      BY DEF SyncInv, MirrorInSync
    <3> QED
      BY <3>1, <3>2, <3>3, <3>4
  <2>5. ASSUME NEW a \in Address, dev'[a].discovered
        PROVE  a \in mirror'.announced
    <3>1. CASE dev[a].discovered
      BY <2>1, <2>2, <3>1 DEF SyncInv
    <3>2. CASE ~dev[a].discovered
      <4>1. PICK x \in Holds(l) : x.type = "discovery" /\ x.address = a
        BY <2>5, <3>2 DEF Faithful
      <4> QED
        BY <2>1, <2>2, <4>1
    <3> QED
      BY <3>1, <3>2
  <2>6. mirror' \in Mirror
    BY <2>1, <2>2
  <2> QED
    BY <2>3, <2>4, <2>5, <2>6 DEF SyncInv, MirrorInSync
<1> QED
  BY <1>5, <1>6

\* A device the manager does not know has nothing recorded, in every
\* reachable state: mqtt_connected loses nothing by replaying known devices.
THEOREM UnknownCorrect == CallsSpec => []UnknownIsFresh
<1>1. CallsInit => UnknownIsFresh
  BY DEF CallsInit, SMInit, UnknownIsFresh, FreshDevice
<1>2. ManagerTypeOK /\ UnknownIsFresh /\ [CallsNext]_callVars => UnknownIsFresh'
  <2>1. ASSUME UnknownIsFresh, UNCHANGED callVars
        PROVE  UnknownIsFresh'
    BY <2>1 DEF callVars, UnknownIsFresh
  <2> QED
    BY <2>1, CallsAreOperations, UnknownStep
<1> QED
  BY <1>1, <1>2, ManagerTypeCorrect, PTL DEF CallsSpec

\* The mirror follows the manager, with what that needs from one connection
\* to the next.
THEOREM SyncCorrect == CallsSpec => []SyncInv
<1>1. CallsInit => SyncInv
  <2> SUFFICES ASSUME CallsInit
               PROVE  SyncInv
    OBVIOUS
  <2>1. mqttConn = FALSE /\ \A a \in Address : ~dev[a].discovered
    BY DEF CallsInit, SMInit, FreshDevice
  <2>2. /\ mirror = [state |-> [a \in Address |-> NONE], online |-> FALSE, announced |-> {}]
        /\ \A a \in Address : mirror.state[a] = NONE
    BY DEF CallsInit
  <2>3. mirror \in Mirror
    BY <2>2 DEF Mirror
  <2> QED
    BY <2>1, <2>2, <2>3 DEF SyncInv, MirrorInSync
<1>2. ManagerTypeOK /\ ManagerTypeOK' /\ UnknownIsFresh /\ SyncInv /\ [CallsNext]_callVars
        => SyncInv'
  <2> SUFFICES ASSUME ManagerTypeOK, ManagerTypeOK', UnknownIsFresh, SyncInv, [CallsNext]_callVars
               PROVE  SyncInv'
    OBVIOUS
  <2>1. CASE CallsNext
    <3>1. PICK l : Returning(l) /\ Faithful(l)
      BY <2>1, NextFaithful
    <3> QED
      BY <3>1, SyncStep
  <2>2. CASE UNCHANGED callVars
    BY <2>2 DEF callVars, SyncInv, MirrorInSync, Available
  <2> QED
    BY <2>1, <2>2
<1> QED
  BY <1>1, <1>2, ManagerTypeCorrect, UnknownCorrect, PTL DEF CallsSpec

\* Executed in full and in order, the returned lists keep the broker equal to
\* the manager whenever MQTT is connected, through any number of reconnects
\* and of changes made in between.
THEOREM MirrorCorrect == CallsSpec => []MirrorInSync
<1>1. SyncInv => MirrorInSync
  BY DEF SyncInv
<1> QED
  BY <1>1, SyncCorrect, PTL

\* While MQTT is connected every device marked discovered has been announced:
\* the flag never gets ahead of the lists.
THEOREM DiscoveredCorrect == CallsSpec => []DiscoveredIsAnnounced
<1>1. SyncInv => DiscoveredIsAnnounced
  BY DEF SyncInv, DiscoveredIsAnnounced
<1> QED
  BY <1>1, SyncCorrect, PTL

\* A state is handed out only when the recorded state changes, or in the
\* replay of mqtt_connected; and it is the state recorded after the call.
THEOREM PublishedCorrect == CallsSpec => StatePublishedOnlyOnChange
<1> DEFINE Changed(i) ==
             emitted'[i].type = "state" =>
               LET a == emitted'[i].address
               IN  /\ dev'[a].current = emitted'[i].state
                   /\ \/ dev[a].current # dev'[a].current
                      \/ emitted'[1].type = "availability"
<1>1. ManagerTypeOK /\ UnknownIsFresh /\ [CallsNext]_callVars
        => [\A i \in DOMAIN emitted' : Changed(i)]_callVars
  <2> SUFFICES ASSUME ManagerTypeOK, UnknownIsFresh, CallsNext, NEW i \in DOMAIN emitted'
               PROVE  Changed(i)
    <3> HIDE DEF Changed
    <3> QED
      OBVIOUS
  <2>1. PICK l : Returning(l) /\ Faithful(l) /\ OnlyChanges(l)
    BY NextFaithful
  <2>2. emitted' = l /\ l \in Seq(Action)
    BY <2>1 DEF Returning, Faithful
  <2>3. emitted'[i] \in Holds(l)
    BY <2>2 DEF Holds
  <2> QED
    BY <2>1, <2>2, <2>3 DEF Faithful, OnlyChanges
<1> QED
  BY <1>1, ManagerTypeCorrect, UnknownCorrect, PTL DEF CallsSpec, StatePublishedOnlyOnChange
=============================================================================
