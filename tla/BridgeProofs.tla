---------------------------- MODULE BridgeProofs ----------------------------
(***************************************************************************)
(* For every finite set of addresses, configuration and housecode filter:  *)
(* the two threads, executing their lists action by action, leave the      *)
(* broker with the manager's state whenever the bridge is at rest, unless  *)
(* lists overlapped or one was cut short since the last replay.            *)
(*                                                                         *)
(* What each operation of the manager returns is taken from                *)
(* StateManagerProofs (Faithful); its variables emitted and mirror play no *)
(* part here.                                                              *)
(***************************************************************************)
EXTENDS Bridge, StateManagerProofs

\* What a thread may have to execute.
Item ==
    Action \cup {StatusNow, RequestDiagnostics, BridgeDiscovery}
      \cup [type : {"transmit"}, address : Address, command : DeviceCommand]

Pending == Holds(acts["mqtt"]) \cup Holds(acts["mochad"])

\* Some action that is pending will publish the state of a, the availability,
\* a status document.
StatePending(a)     == \E x \in Pending : x.type = "state" /\ x.address = a
AvailabilityPending == \E x \in Pending : x.type = "availability"
StatusPending       == \E x \in Pending : x.type = "status"

Phases == {"offline", "accepted", "online", "dropped", "installed", "closed"}

ShapeInv ==
    /\ ManagerTypeOK
    /\ phase \in [Thread -> Phases]
    /\ acts \in [Thread -> Seq(Item)]
    /\ sock \in {"none", "up", "broken"}
    /\ retained \in [online : BOOLEAN, mochad : BOOLEAN,
                     state : [Address -> RecordedState \cup {NONE}]]
    /\ overlapped \in BOOLEAN /\ cutShort \in BOOLEAN
    /\ TypeOK

\* The manager's flags follow the phases of the two connections.
FlagInv ==
    /\ mqttConn = (phase["mqtt"] \in {"online", "dropped"})
    /\ mochadConn = (phase["mochad"] \in {"online", "closed"})

\* Of a device without a recorded state no state was ever published.
OldInv ==
    \A a \in Address : dev[a].current = NONE => retained.state[a] = NONE /\ ~StatePending(a)

\* Two lists at a time are remembered.
ListInv == ~overlapped => Idle("mqtt") \/ Idle("mochad")

Live    == /\ phase["mqtt"] = "online" /\ session = "alive"
           /\ ~overlapped /\ ~cutShort
Settled == phase["mochad"] \in {"online", "offline"}

\* While nothing has disturbed the bridge: what is pending says what is
\* recorded, and what the broker does not show is pending.  A status document
\* made between the installation of the socket and the connect callback may
\* say what the manager does not; the callback's own replaces it.
LiveInv ==
    Live =>
      /\ \A x \in Pending :
           /\ x.type = "state" => x.state = dev[x.address].current
           /\ x.type = "availability" => x.online = Available
           /\ x.type = "status" /\ Settled => x.mochad = mochadConn
      /\ \A a \in Address : retained.state[a] = dev[a].current \/ StatePending(a)
      /\ retained.online = Available \/ AvailabilityPending
      /\ Settled => retained.mochad = mochadConn \/ StatusPending

BridgeInv == ShapeInv /\ FlagInv /\ UnknownIsFresh /\ OldInv /\ ListInv /\ LiveInv

-----------------------------------------------------------------------------
\* Items that change nothing the invariant speaks of.
Neutral(x) == x.type # "state" /\ x.type # "availability" /\ x.type # "status"

\* The items that the bridge adds to the lists of the state manager publish
\* neither a state nor the availability.
LEMMA ItemTypes ==
    /\ StatusNow \in Item /\ Neutral(StatusNow)
    /\ RequestDiagnostics \in Item /\ Neutral(RequestDiagnostics)
    /\ BridgeDiscovery \in Item /\ Neutral(BridgeDiscovery)
    /\ \A q, m \in BOOLEAN : PublishStatus(q, m) \in Item
    /\ \A x \in Action : x \in Item
<1>1. /\ Neutral(StatusNow) /\ Neutral(RequestDiagnostics) /\ Neutral(BridgeDiscovery)
  BY DEF Neutral, StatusNow, RequestDiagnostics, BridgeDiscovery, PublishDiscovery
<1>2. \A q, m \in BOOLEAN : PublishStatus(q, m) \in Item
  BY ActionTyped DEF Item
<1> QED
  BY <1>1, <1>2 DEF Item

\* The state, the flag and the document that the items carry.
LEMMA ItemFields ==
    ASSUME NEW x \in Item
    PROVE  /\ x.type = "state" => x.address \in Address /\ x.state \in RecordedState
           /\ x.type = "availability" => x.online \in BOOLEAN
           /\ x.type = "status" => x.mochad \in BOOLEAN
<1>1. CASE x \in Action
  BY <1>1 DEF Action
<1>2. CASE x \in {StatusNow, RequestDiagnostics, BridgeDiscovery}
  BY <1>2, ItemTypes DEF Neutral
<1>3. CASE x \in [type : {"transmit"}, address : Address, command : DeviceCommand]
  BY <1>3
<1> QED
  BY <1>1, <1>2, <1>3 DEF Item

\* The first of a list, and the rest.
LEMMA FirstAndRest ==
    ASSUME NEW s \in Seq(Item), s # << >>
    PROVE  /\ Head(s) \in Item /\ Tail(s) \in Seq(Item)
           /\ Holds(s) = {Head(s)} \cup Holds(Tail(s))
<1>1. /\ Len(s) \in Nat \ {0} /\ Head(s) = s[1] /\ Tail(s) \in Seq(Item)
      /\ Len(Tail(s)) = Len(s) - 1 /\ \A i \in 1 .. Len(s) - 1 : Tail(s)[i] = s[i + 1]
      /\ \A i \in 1 .. Len(s) : s[i] \in Item
  OBVIOUS
<1>2. Holds(Tail(s)) \subseteq Holds(s) /\ Head(s) \in Holds(s)
  BY <1>1 DEF Holds
<1>3. ASSUME NEW i \in 1 .. Len(s)
      PROVE  s[i] \in {Head(s)} \cup Holds(Tail(s))
  <2>1. CASE i = 1
    BY <1>1, <2>1
  <2>2. CASE i # 1
    <3>1. i - 1 \in 1 .. Len(Tail(s)) /\ Tail(s)[i - 1] = s[i]
      BY <1>1, <2>2
    <3> QED
      BY <3>1 DEF Holds
  <2> QED
    BY <2>1, <2>2
<1>4. Holds(s) \subseteq {Head(s)} \cup Holds(Tail(s))
  BY <1>3 DEF Holds
<1> QED
  BY <1>1, <1>2, <1>4

\* What the broker retains after one publish.
LEMMA RetainOne ==
    ASSUME ShapeInv, NEW x \in Item
    PROVE  LET r == Retain(x) IN
             /\ r \in [online : BOOLEAN, mochad : BOOLEAN,
                       state : [Address -> RecordedState \cup {NONE}]]
             /\ \A a \in Address :
                  r.state[a] = IF x.type = "state" /\ x.address = a THEN x.state
                               ELSE retained.state[a]
             /\ r.online = IF x.type = "availability" THEN x.online ELSE retained.online
             /\ r.mochad = IF x.type = "status" THEN x.mochad ELSE retained.mochad
<1>0. retained \in [online : BOOLEAN, mochad : BOOLEAN,
                    state : [Address -> RecordedState \cup {NONE}]]
  BY DEF ShapeInv
<1>1. CASE x.type = "state"
  <2>1. x.address \in Address /\ x.state \in RecordedState
    BY <1>1, ItemFields
  <2>2. Retain(x) = [retained EXCEPT !.state[x.address] = x.state]
    BY <1>1 DEF Retain
  <2> QED
    BY <1>0, <1>1, <2>1, <2>2
<1>2. CASE x.type = "availability"
  <2>1. x.online \in BOOLEAN
    BY <1>2, ItemFields
  <2>2. Retain(x) = [retained EXCEPT !.online = x.online]
    BY <1>2 DEF Retain
  <2> QED
    BY <1>0, <1>2, <2>1, <2>2
<1>3. CASE x.type = "status"
  <2>1. x.mochad \in BOOLEAN
    BY <1>3, ItemFields
  <2>2. Retain(x) = [retained EXCEPT !.mochad = x.mochad]
    BY <1>3 DEF Retain
  <2> QED
    BY <1>0, <1>3, <2>1, <2>2
<1>4. CASE Neutral(x)
  <2>1. Retain(x) = retained
    BY <1>4 DEF Retain, Neutral
  <2> QED
    BY <1>0, <1>4, <2>1 DEF Neutral
<1> QED
  BY <1>1, <1>2, <1>3, <1>4 DEF Neutral

-----------------------------------------------------------------------------
\* What is pending after thread t's list has become new.
LEMMA PendingAfter ==
    ASSUME acts \in [Thread -> Seq(Item)], NEW t \in Thread, NEW new \in Seq(Item),
           acts' = [acts EXCEPT ![t] = new]
    PROVE  /\ acts' \in [Thread -> Seq(Item)]
           /\ acts'[t] = new /\ acts'[Other(t)] = acts[Other(t)] /\ Other(t) \in Thread
           /\ Pending' = Holds(new) \cup Holds(acts[Other(t)])
           /\ Pending = Holds(acts[t]) \cup Holds(acts[Other(t)])
           /\ \A u \in Thread : u = t \/ u = Other(t)
  BY DEF Pending, Thread, Other

\* One item is executed: it leaves the list, and what comes instead of it is
\* neutral or a status document of this moment.
LEMMA ExecuteKeeps ==
    ASSUME BridgeInv, NEW t \in Thread, ~Idle(t), NEW x \in Holds(acts[t]),
           NEW new \in Seq(Item), acts' = [acts EXCEPT ![t] = new],
           \A y \in Holds(acts[t]) : y = x \/ y \in Holds(new),
           \A y \in Holds(new) : \/ y \in Holds(acts[t])
                                 \/ Neutral(y)
                                 \/ y.type = "status" /\ y.mochad = (sock # "none"),
           UNCHANGED <<smVars, phase, links, ghosts>>,
           retained' = IF Delivered THEN Retain(x) ELSE retained
    PROVE  BridgeInv'
<1> USE DEF BridgeInv
<1>0. /\ UNCHANGED <<known, dev, mqttConn, mochadConn, phase, mqttUp, session, sock>>
      /\ UNCHANGED <<overlapped, cutShort>>
  BY DEF smVars, links, ghosts
<1>1. /\ acts \in [Thread -> Seq(Item)] /\ acts' \in [Thread -> Seq(Item)]
      /\ acts'[t] = new /\ acts'[Other(t)] = acts[Other(t)]
      /\ Pending' = Holds(new) \cup Holds(acts[Other(t)])
      /\ Pending = Holds(acts[t]) \cup Holds(acts[Other(t)])
      /\ \A u \in Thread : u = t \/ u = Other(t)
  <2>1. acts \in [Thread -> Seq(Item)]
    BY DEF ShapeInv
  <2> QED
    BY <2>1, PendingAfter
<1>2. x \in Item /\ x \in Pending
  BY <1>1 DEF Holds
<1>3. /\ \A y \in Pending : y = x \/ y \in Pending'
      /\ \A y \in Pending' : \/ y \in Pending \/ Neutral(y)
                             \/ y.type = "status" /\ y.mochad = (sock # "none")
  BY <1>1
<1>4. LET r == Retain(x) IN
        /\ r \in [online : BOOLEAN, mochad : BOOLEAN,
                  state : [Address -> RecordedState \cup {NONE}]]
        /\ \A a \in Address :
             r.state[a] = IF x.type = "state" /\ x.address = a THEN x.state
                          ELSE retained.state[a]
        /\ r.online = IF x.type = "availability" THEN x.online ELSE retained.online
        /\ r.mochad = IF x.type = "status" THEN x.mochad ELSE retained.mochad
  BY <1>2, RetainOne
<1>5. ShapeInv'
  <2>1. retained' \in [online : BOOLEAN, mochad : BOOLEAN,
                       state : [Address -> RecordedState \cup {NONE}]]
    BY <1>4 DEF ShapeInv
  <2>2. ManagerTypeOK' /\ (phase \in [Thread -> Phases])'
        /\ overlapped' \in BOOLEAN /\ cutShort' \in BOOLEAN
        /\ sock' \in {"none", "up", "broken"}
    BY <1>0 DEF ShapeInv, ManagerTypeOK
  <2>3. retained'.state \in [Address -> RecordedState \cup {NONE}]
    BY <2>1
  <2>4. TypeOK'
    BY <1>0, <2>3 DEF ShapeInv, TypeOK
  <2> QED
    BY <1>1, <2>1, <2>2, <2>4 DEF ShapeInv
<1>6. FlagInv' /\ UnknownIsFresh'
  BY <1>0 DEF FlagInv, UnknownIsFresh
<1>7. OldInv'
  <2> SUFFICES ASSUME NEW a \in Address, dev[a].current = NONE
               PROVE  retained'.state[a] = NONE /\ ~StatePending(a)'
    BY <1>0 DEF OldInv
  <2>1. retained.state[a] = NONE /\ \A y \in Pending : ~(y.type = "state" /\ y.address = a)
    BY DEF OldInv, StatePending
  <2>2. \A y \in Pending' : ~(y.type = "state" /\ y.address = a)
    BY <1>3, <2>1 DEF Neutral
  <2>3. retained'.state[a] = NONE
    BY <1>2, <1>4, <2>1
  <2> QED
    BY <2>2, <2>3 DEF StatePending
<1>8. ListInv'
  BY <1>0, <1>1 DEF ListInv, Idle, Thread
<1>9. LiveInv'
  <2> SUFFICES ASSUME Live
               PROVE  /\ \A y \in Pending' :
                           /\ y.type = "state" => y.state = dev[y.address].current
                           /\ y.type = "availability" => y.online = Available
                           /\ y.type = "status" /\ Settled => y.mochad = mochadConn
                      /\ \A a \in Address : retained'.state[a] = dev[a].current
                                              \/ StatePending(a)'
                      /\ retained'.online = Available \/ AvailabilityPending'
                      /\ Settled => retained'.mochad = mochadConn \/ StatusPending'
    <3>1. Live' <=> Live
      BY <1>0 DEF Live
    <3>2. (Settled' <=> Settled) /\ Available' = Available
      BY <1>0 DEF Settled, Available
    <3> QED
      BY <1>0, <3>1, <3>2 DEF LiveInv
  <2>1. Delivered
    BY DEF Live, Delivered, ShapeInv, TypeOK
  <2>2. retained' = Retain(x)
    BY <2>1
  <2>3. /\ \A y \in Pending :
             /\ y.type = "state" => y.state = dev[y.address].current
             /\ y.type = "availability" => y.online = Available
             /\ y.type = "status" /\ Settled => y.mochad = mochadConn
        /\ \A a \in Address : retained.state[a] = dev[a].current \/ StatePending(a)
        /\ retained.online = Available \/ AvailabilityPending
        /\ Settled => retained.mochad = mochadConn \/ StatusPending
    BY DEF LiveInv
  <2>4. Settled => (sock # "none") = mochadConn
    BY DEF Settled, FlagInv, ShapeInv, TypeOK
  <2>5. \A y \in Pending' :
          /\ y.type = "state" => y.state = dev[y.address].current
          /\ y.type = "availability" => y.online = Available
          /\ y.type = "status" /\ Settled => y.mochad = mochadConn
    BY <1>3, <2>3, <2>4 DEF Neutral
  <2>6. ASSUME NEW a \in Address
        PROVE  retained'.state[a] = dev[a].current \/ StatePending(a)'
    <3>1. CASE x.type = "state" /\ x.address = a
      BY <1>2, <1>4, <2>2, <2>3, <3>1
    <3>2. CASE ~(x.type = "state" /\ x.address = a)
      <4>1. retained'.state[a] = retained.state[a]
        BY <1>4, <2>2, <3>2
      <4>2. StatePending(a) => StatePending(a)'
        BY <1>3, <3>2 DEF StatePending
      <4> QED
        BY <2>3, <4>1, <4>2
    <3> QED
      BY <3>1, <3>2
  <2>7. retained'.online = Available \/ AvailabilityPending'
    <3>1. x.type # "availability" /\ AvailabilityPending => AvailabilityPending'
      BY <1>3 DEF AvailabilityPending
    <3> QED
      BY <1>2, <1>4, <2>2, <2>3, <3>1
  <2>8. Settled => retained'.mochad = mochadConn \/ StatusPending'
    <3>1. x.type # "status" /\ StatusPending => StatusPending'
      BY <1>3 DEF StatusPending
    <3> QED
      BY <1>2, <1>4, <2>2, <2>3, <3>1
  <2> QED
    BY <2>5, <2>6, <2>7, <2>8
<1> QED
  BY <1>5, <1>6, <1>7, <1>8, <1>9

\* The rest of the list after a failed send: nothing, or the diagnostics.
LEMMA SendFailsKeeps ==
    ASSUME BridgeInv, NEW t \in Thread, ExecuteSendFails(t)
    PROVE  BridgeInv'
<1> DEFINE new == IF RequestDiagnostics \in ToSet(acts[t]) THEN << RequestDiagnostics >>
                  ELSE << >>
<1> USE DEF BridgeInv
<1>0. /\ UNCHANGED <<known, dev, mqttConn, mochadConn, phase, mqttUp, session, sock>>
      /\ UNCHANGED <<overlapped, retained>> /\ cutShort' = TRUE
      /\ acts' = [acts EXCEPT ![t] = new] /\ ~Idle(t)
  BY DEF ExecuteSendFails, smVars, links
<1>1. new \in Seq(Item) /\ \A y \in Holds(new) : Neutral(y)
  BY ItemTypes DEF Holds
<1> HIDE DEF new
<1>2. /\ acts' \in [Thread -> Seq(Item)]
      /\ acts'[t] = new /\ acts'[Other(t)] = acts[Other(t)]
      /\ Pending' = Holds(new) \cup Holds(acts[Other(t)])
      /\ Pending = Holds(acts[t]) \cup Holds(acts[Other(t)])
      /\ \A u \in Thread : u = t \/ u = Other(t)
  BY <1>0, <1>1, PendingAfter DEF ShapeInv
<1>3. \A y \in Pending' : y \in Pending \/ Neutral(y)
  BY <1>1, <1>2
<1>4. ShapeInv' /\ FlagInv' /\ UnknownIsFresh'
  BY <1>0, <1>2 DEF ShapeInv, ManagerTypeOK, TypeOK, FlagInv, UnknownIsFresh
<1>5. OldInv'
  BY <1>0, <1>3 DEF OldInv, StatePending, Neutral
<1>6. ListInv'
  BY <1>0, <1>2 DEF ListInv, Idle, Thread
<1>7. LiveInv'
  BY <1>0 DEF LiveInv, Live
<1> QED
  BY <1>4, <1>5, <1>6, <1>7

\* A message that cannot be built: the rest of the list is abandoned.
LEMMA RaisesKeeps ==
    ASSUME BridgeInv, NEW t \in Thread, ExecuteDiscoveryRaises(t), Tail(acts[t]) # << >>
    PROVE  BridgeInv'
<1> DEFINE new == << >>
<1> USE DEF BridgeInv
<1>0. /\ UNCHANGED <<known, dev, mqttConn, mochadConn, phase, mqttUp, session, sock>>
      /\ UNCHANGED <<overlapped, retained>> /\ cutShort' = TRUE
      /\ acts' = [acts EXCEPT ![t] = new] /\ ~Idle(t)
  BY DEF ExecuteDiscoveryRaises, smVars, links
<1>1. new \in Seq(Item) /\ \A y \in Holds(new) : Neutral(y)
  BY DEF Holds
<1> HIDE DEF new
<1>2. /\ acts' \in [Thread -> Seq(Item)]
      /\ acts'[t] = new /\ acts'[Other(t)] = acts[Other(t)]
      /\ Pending' = Holds(new) \cup Holds(acts[Other(t)])
      /\ Pending = Holds(acts[t]) \cup Holds(acts[Other(t)])
      /\ \A u \in Thread : u = t \/ u = Other(t)
  BY <1>0, <1>1, PendingAfter DEF ShapeInv
<1>3. \A y \in Pending' : y \in Pending \/ Neutral(y)
  BY <1>1, <1>2
<1>4. ShapeInv' /\ FlagInv' /\ UnknownIsFresh'
  BY <1>0, <1>2 DEF ShapeInv, ManagerTypeOK, TypeOK, FlagInv, UnknownIsFresh
<1>5. OldInv'
  BY <1>0, <1>3 DEF OldInv, StatePending, Neutral
<1>6. ListInv'
  BY <1>0, <1>2 DEF ListInv, Idle, Thread
<1>7. LiveInv'
  BY <1>0 DEF LiveInv, Live
<1> QED
  BY <1>4, <1>5, <1>6, <1>7

\* Every action a thread executes keeps the invariant.
LEMMA ThreadKeeps ==
    ASSUME BridgeInv, NEW t \in Thread, Execute(t)
    PROVE  BridgeInv'
<1> DEFINE x == Head(acts[t])
           rest == Tail(acts[t])
<1>0. ~Idle(t) /\ acts[t] \in Seq(Item)
  BY DEF Execute, ExecutePublish, ExecuteDiscoveryRaises, ExecuteStatusNow, ExecuteDeviceCommand, ExecuteSend,
         ExecuteSendFails, ExecuteDiagnosticsRequest, ExecuteLog, BridgeInv, ShapeInv
<1>1. /\ x \in Item /\ rest \in Seq(Item) /\ Holds(acts[t]) = {x} \cup Holds(rest)
  BY <1>0, FirstAndRest DEF Idle
<1>2. x \in Holds(acts[t]) /\ \A y \in Holds(acts[t]) : y = x \/ y \in Holds(rest)
  BY <1>1
<1>3. Neutral(x) => Retain(x) = retained
  BY DEF Retain, Neutral
\* ... with a list that begins with a new item, or does not.
<1>4. ASSUME NEW y \in Item,
             Neutral(y) \/ (y.type = "status" /\ y.mochad = (sock # "none"))
      PROVE  LET s == << y >> \o rest IN
               /\ s \in Seq(Item) /\ \A z \in Holds(acts[t]) : z = x \/ z \in Holds(s)
               /\ \A z \in Holds(s) : \/ z \in Holds(acts[t]) \/ Neutral(z)
                                      \/ z.type = "status" /\ z.mochad = (sock # "none")
  <2> DEFINE h == << y >>
  <2>1. h \in Seq(Item) /\ Holds(h) = {y}
    BY DEF Holds
  <2> HIDE DEF h, rest, x
  <2>2. h \o rest \in Seq(Item) /\ Holds(h \o rest) = Holds(h) \cup Holds(rest)
    BY <1>1, <2>1, ConcatHolds
  <2> QED
    BY <1>1, <1>4, <2>1, <2>2 DEF h
<1> HIDE DEF x, rest
<1>5. CASE ExecutePublish(t)
  <2>1. /\ acts' = [acts EXCEPT ![t] = rest]
        /\ retained' = IF Delivered THEN Retain(x) ELSE retained
        /\ UNCHANGED <<smVars, phase, links, ghosts>>
    BY <1>5 DEF ExecutePublish, Done, x, rest
  <2> QED
    BY <1>0, <1>1, <1>2, <2>1, ExecuteKeeps
<1>6. CASE ExecuteSend(t) \/ ExecuteDiagnosticsRequest(t) \/ ExecuteLog(t)
  <2>1. /\ acts' = [acts EXCEPT ![t] = rest] /\ retained' = retained
        /\ UNCHANGED <<smVars, phase, links, ghosts>>
    BY <1>6 DEF ExecuteSend, ExecuteDiagnosticsRequest, ExecuteLog, Done, rest
  <2>2. Neutral(x)
    BY <1>6 DEF ExecuteSend, ExecuteDiagnosticsRequest, ExecuteLog, Neutral,
                RequestDiagnostics, LogUnknownEvent, x
  <2>3. retained' = IF Delivered THEN Retain(x) ELSE retained
    BY <1>3, <2>1, <2>2
  <2> QED
    BY <1>0, <1>1, <1>2, <2>1, <2>3, ExecuteKeeps
<1>7. CASE ExecuteStatusNow(t)
  <2> DEFINE y == PublishStatus(TRUE, sock # "none")
             new == << y >> \o rest
  <2>1. /\ acts' = [acts EXCEPT ![t] = IF mqttUp THEN new ELSE rest] /\ retained' = retained
        /\ UNCHANGED <<smVars, phase, links, ghosts>> /\ Neutral(x)
    BY <1>7, ItemTypes DEF ExecuteStatusNow, x, rest
  <2>2. retained' = IF Delivered THEN Retain(x) ELSE retained
    BY <1>3, <2>1
  <2>3. y \in Item /\ y.type = "status" /\ y.mochad = (sock # "none")
    <3>1. TRUE \in BOOLEAN /\ (sock # "none") \in BOOLEAN
      OBVIOUS
    <3>2. y.type = "status" /\ y.mochad = (sock # "none")
      BY DEF PublishStatus
    <3> QED
      BY <3>1, <3>2, ItemTypes
  <2> HIDE DEF y
  <2>4. /\ new \in Seq(Item) /\ \A z \in Holds(acts[t]) : z = x \/ z \in Holds(new)
        /\ \A z \in Holds(new) : \/ z \in Holds(acts[t]) \/ Neutral(z)
                                 \/ z.type = "status" /\ z.mochad = (sock # "none")
    BY <1>4, <2>3
  <2> HIDE DEF new
  <2>5. CASE mqttUp
    BY <1>0, <1>2, <2>1, <2>2, <2>4, <2>5, ExecuteKeeps
  <2>6. CASE ~mqttUp
    BY <1>0, <1>1, <1>2, <2>1, <2>2, <2>6, ExecuteKeeps
  <2> QED
    BY <2>5, <2>6
<1>8. CASE ExecuteDeviceCommand(t)
  <2>1. x.type = "send" /\ Neutral(x) /\ UNCHANGED <<smVars, phase, links, ghosts>>
        /\ retained' = retained
    BY <1>8 DEF ExecuteDeviceCommand, x, Neutral
  <2>2. PICK y \in {StatusNow, Transmit(x)} : acts' = [acts EXCEPT ![t] = << y >> \o rest]
    BY <1>8 DEF ExecuteDeviceCommand, x, rest
  <2>3. y \in Item /\ Neutral(y)
    <3>1. x \in [type : {"attributes", "send"}, address : Address, command : DeviceCommand]
      <4>1. x \notin {StatusNow, RequestDiagnostics, BridgeDiscovery}
        BY <2>1 DEF StatusNow, RequestDiagnostics, BridgeDiscovery, PublishDiscovery
      <4> QED
        BY <1>1, <2>1, <4>1 DEF Item, Action
    <3>2. Transmit(x) \in [type : {"transmit"}, address : Address, command : DeviceCommand]
      BY <3>1 DEF Transmit
    <3> QED
      BY <2>2, <3>2, ItemTypes DEF Item, Neutral
  <2>4. retained' = IF Delivered THEN Retain(x) ELSE retained
    BY <1>3, <2>1
  <2> DEFINE new == << y >> \o rest
  <2>5. /\ new \in Seq(Item) /\ \A z \in Holds(acts[t]) : z = x \/ z \in Holds(new)
        /\ \A z \in Holds(new) : \/ z \in Holds(acts[t]) \/ Neutral(z)
                                 \/ z.type = "status" /\ z.mochad = (sock # "none")
    BY <1>4, <2>3
  <2> HIDE DEF new
  <2> QED
    BY <1>0, <1>2, <2>1, <2>2, <2>4, <2>5, ExecuteKeeps DEF new
<1>9. CASE ExecuteSendFails(t)
  BY <1>9, SendFailsKeeps
<1>10. CASE ExecuteDiscoveryRaises(t) /\ Tail(acts[t]) # << >>
  BY <1>10, RaisesKeeps
<1>11. CASE ExecuteDiscoveryRaises(t) /\ Tail(acts[t]) = << >>
  <2>1. /\ acts' = [acts EXCEPT ![t] = rest] /\ retained' = retained
        /\ UNCHANGED <<smVars, phase, links>> /\ overlapped' = overlapped
        /\ cutShort' = (cutShort \/ FALSE) /\ Neutral(x)
    BY <1>11 DEF ExecuteDiscoveryRaises, Neutral, x, rest
  <2>2. cutShort' = cutShort
    BY <2>1 DEF BridgeInv, ShapeInv
  <2>3. retained' = IF Delivered THEN Retain(x) ELSE retained
    BY <1>3, <2>1
  <2> QED
    BY <1>0, <1>1, <1>2, <2>1, <2>2, <2>3, ExecuteKeeps DEF ghosts
<1> QED
  BY <1>5, <1>6, <1>7, <1>8, <1>9, <1>10, <1>11 DEF Execute

\* A thread enters another phase.
LEMMA EnterPhase ==
    ASSUME phase \in [Thread -> Phases], NEW p \in Phases
    PROVE  /\ Enter("mqtt", p) => /\ phase' \in [Thread -> Phases] /\ phase'["mqtt"] = p
                                  /\ phase'["mochad"] = phase["mochad"]
           /\ Enter("mochad", p) => /\ phase' \in [Thread -> Phases] /\ phase'["mochad"] = p
                                    /\ phase'["mqtt"] = phase["mqtt"]
  BY DEF Enter, Thread

\* The connections come and go while nothing is executed.
LEMMA LinkKeeps ==
    ASSUME BridgeInv,
           \/ MqttOnConnect \/ MqttOnConnectRefused \/ SessionLost \/ MqttOnDisconnect
           \/ MochadConnect \/ PeerGone \/ MochadDisconnect
    PROVE  BridgeInv'
<1> USE DEF BridgeInv
<1>0. /\ UNCHANGED <<known, dev, mqttConn, mochadConn, acts, overlapped, cutShort>>
      /\ Pending' = Pending /\ Available' = Available
      /\ retained' = retained \/ retained' = [retained EXCEPT !.online = FALSE]
  BY DEF MqttOnConnect, MqttOnConnectRefused, SessionLost, MqttOnDisconnect, MochadConnect,
         PeerGone, MochadDisconnect, smVars, ghosts, Pending, Available
<1>1. /\ retained' \in [online : BOOLEAN, mochad : BOOLEAN,
                        state : [Address -> RecordedState \cup {NONE}]]
      /\ retained'.state = retained.state /\ retained'.mochad = retained.mochad
  BY <1>0 DEF ShapeInv
<1>2. UnknownIsFresh' /\ OldInv' /\ ListInv'
  BY <1>0, <1>1 DEF UnknownIsFresh, OldInv, StatePending, ListInv, Idle
<1>3. phase \in [Thread -> Phases] /\ "mqtt" \in Thread /\ "mochad" \in Thread
  BY DEF ShapeInv, Thread
<1>4. CASE MqttOnConnect \/ MqttOnConnectRefused \/ MqttOnDisconnect
  <2>1. phase'["mochad"] = phase["mochad"] /\ sock' = sock /\ phase' \in [Thread -> Phases]
        /\ \/ phase["mqtt"] = "offline" /\ phase'["mqtt"] = "accepted" /\ mqttUp' = TRUE
           \/ phase["mqtt"] = "online" /\ phase'["mqtt"] = "dropped" /\ mqttUp' = FALSE
    <3>1. CASE MqttOnConnect \/ MqttOnConnectRefused
      <4>1. Enter("mqtt", "accepted") /\ phase["mqtt"] = "offline" /\ mqttUp' = TRUE /\ sock' = sock
        BY <3>1 DEF MqttOnConnect, MqttOnConnectRefused
      <4> QED
        BY ONLY <1>3, <4>1, EnterPhase DEF Phases
    <3>2. CASE MqttOnDisconnect
      <4>1. Enter("mqtt", "dropped") /\ phase["mqtt"] = "online" /\ mqttUp' = FALSE /\ sock' = sock
        BY <3>2 DEF MqttOnDisconnect
      <4> QED
        BY ONLY <1>3, <4>1, EnterPhase DEF Phases
    <3> QED
      BY <1>4, <3>1, <3>2
  <2>2. TypeOK' /\ FlagInv'
    <3>1. FlagInv /\ TypeOK /\ retained'.state \in [Address -> RecordedState \cup {NONE}]
      BY <1>1 DEF ShapeInv
    <3>2. mqttUp' = (phase'["mqtt"] \in {"accepted", "online"})
      <4>1. CASE phase'["mqtt"] = "accepted" /\ mqttUp' = TRUE
        BY ONLY <4>1
      <4>2. CASE phase'["mqtt"] = "dropped" /\ mqttUp' = FALSE
        <5>1. (phase'["mqtt"] \in {"accepted", "online"}) = FALSE
          BY ONLY <4>2
        <5> QED
          BY ONLY <4>2, <5>1
      <4> QED
        BY ONLY <2>1, <4>1, <4>2
    <3>3. mqttConn' = (phase'["mqtt"] \in {"online", "dropped"})
      <4>1. mqttConn' = mqttConn /\ mqttConn = (phase["mqtt"] \in {"online", "dropped"})
        BY <1>0, <3>1 DEF FlagInv
      <4> QED
        BY ONLY <2>1, <4>1
    <3>4. mochadConn' = mochadConn /\ phase'["mochad"] = phase["mochad"] /\ sock' = sock
          /\ phase'["mqtt"] \in {"accepted", "dropped"}
      BY <1>0, <2>1
    <3> QED
      BY ONLY <3>1, <3>2, <3>3, <3>4 DEF TypeOK, FlagInv
  <2>3. ShapeInv'
    BY <1>0, <1>1, <2>1, <2>2 DEF ShapeInv, ManagerTypeOK
  <2>4. LiveInv'
    BY <2>1 DEF LiveInv, Live
  <2> QED
    BY <1>2, <2>2, <2>3, <2>4
<1>5. CASE SessionLost
  <2>1. UNCHANGED <<phase, mqttUp, sock>> /\ session' = "lost"
    BY <1>5 DEF SessionLost
  <2>2. ShapeInv' /\ FlagInv'
    BY <1>0, <1>1, <2>1 DEF TypeOK, FlagInv, ShapeInv, ManagerTypeOK
  <2>3. LiveInv'
    BY <2>1 DEF LiveInv, Live
  <2> QED
    BY <1>2, <2>2, <2>3
<1>6. CASE MochadConnect \/ PeerGone \/ MochadDisconnect
  <2>1. /\ phase'["mqtt"] = phase["mqtt"] /\ phase' \in [Thread -> Phases]
        /\ UNCHANGED <<mqttUp, session, retained>>
        /\ \/ phase["mochad"] = "offline" /\ phase'["mochad"] = "installed" /\ sock' = "up"
           \/ phase["mochad"] = "online" /\ phase'["mochad"] = "closed" /\ sock' = "none"
           \/ phase' = phase /\ sock # "none" /\ sock' = "broken"
    <3>1. CASE MochadConnect
      <4>1. Enter("mochad", "installed") /\ phase["mochad"] = "offline" /\ sock' = "up"
            /\ UNCHANGED <<mqttUp, session, retained>>
        BY <3>1 DEF MochadConnect
      <4> QED
        BY ONLY <1>3, <4>1, EnterPhase DEF Phases
    <3>2. CASE MochadDisconnect
      <4>1. Enter("mochad", "closed") /\ phase["mochad"] = "online" /\ sock' = "none"
            /\ UNCHANGED <<mqttUp, session, retained>>
        BY <3>2 DEF MochadDisconnect
      <4> QED
        BY ONLY <1>3, <4>1, EnterPhase DEF Phases
    <3>3. CASE PeerGone
      BY <1>3, <3>3 DEF PeerGone
    <3> QED
      BY <1>6, <3>1, <3>2, <3>3
  <2>2. TypeOK' /\ FlagInv'
    <3>1. FlagInv /\ TypeOK /\ retained'.state \in [Address -> RecordedState \cup {NONE}]
      BY <1>1 DEF ShapeInv
    <3> QED
      BY ONLY <1>0, <2>1, <3>1 DEF TypeOK, FlagInv
  <2>3. ShapeInv'
    BY <1>0, <1>1, <2>1, <2>2 DEF ShapeInv, ManagerTypeOK
  <2>4. (Live' <=> Live) /\ (Settled' => Settled)
    BY <1>0, <2>1 DEF Live, Settled
  <2>5. LiveInv'
    BY <1>0, <2>1, <2>4 DEF LiveInv, StatePending, AvailabilityPending, StatusPending
  <2> QED
    BY <1>2, <2>2, <2>3, <2>5
<1> QED
  BY <1>4, <1>5, <1>6

-----------------------------------------------------------------------------
\* A handler has called the manager and got a faithful list l; the thread will
\* execute m, which is l and perhaps something neutral.  Either the bridge was
\* live and idle if it is live now, or this is the replay.
LEMMA HandlerKeeps ==
    ASSUME BridgeInv, (ManagerTypeOK /\ UnknownIsFresh /\ TypeOK /\ FlagInv)',
           phase' \in [Thread -> Phases],
           NEW t \in Thread, Idle(t), NEW l, Faithful(l), NEW m \in Seq(Item),
           \A x \in Holds(l) : x \in Holds(m),
           \A x \in Holds(m) : x \in Holds(l) \/ Neutral(x),
           acts' = [acts EXCEPT ![t] = m], UNCHANGED <<links, retained>>,
           overlapped' \in BOOLEAN, cutShort' \in BOOLEAN,
           ~overlapped' => Idle(Other(t)),
           Live' => Live \/ (mqttConn' /\ ~mqttConn),
           Settled' /\ ~Settled => mochadConn' # mochadConn
    PROVE  BridgeInv'
<1> USE DEF BridgeInv
<1>0. UNCHANGED <<mqttUp, session, sock, retained>>
  BY DEF links
<1>1. /\ acts' \in [Thread -> Seq(Item)]
      /\ acts'[t] = m /\ acts'[Other(t)] = acts[Other(t)]
      /\ Pending' = Holds(m) \cup Holds(acts[Other(t)])
      /\ Pending = Holds(acts[t]) \cup Holds(acts[Other(t)])
      /\ \A u \in Thread : u = t \/ u = Other(t)
  BY PendingAfter DEF ShapeInv
<1>2. Holds(<< >>) = {}
  BY DEF Holds
<1>3. \A x \in Pending' : x \in Pending \/ x \in Holds(l) \/ Neutral(x)
  BY <1>1
<1>4. \A x \in Holds(l) : x \in Pending'
  BY <1>1
<1>5. \A x \in Holds(l) : x.type = "state" => x.address \in Address /\ x.state \in RecordedState
  <2>1. \A x \in Holds(m) : x \in Item
    <3>1. \A i \in 1 .. Len(m) : m[i] \in Item
      OBVIOUS
    <3> QED
      BY ONLY <3>1 DEF Holds
  <2>2. \A x \in Holds(l) : x \in Item
    BY <2>1
  <2> QED
    BY <2>2, ItemFields
<1>6. ShapeInv'
  <2>1. (ManagerTypeOK /\ TypeOK)' /\ sock' \in {"none", "up", "broken"}
        /\ retained' \in [online : BOOLEAN, mochad : BOOLEAN,
                          state : [Address -> RecordedState \cup {NONE}]]
    BY <1>0 DEF ShapeInv
  <2> QED
    BY ONLY <1>1, <2>1, phase' \in [Thread -> Phases], overlapped' \in BOOLEAN,
            cutShort' \in BOOLEAN DEF ShapeInv
<1>7. ListInv'
  BY <1>1 DEF ListInv, Idle, Thread
<1>8. OldInv'
  <2> SUFFICES ASSUME NEW a \in Address, dev'[a].current = NONE
               PROVE  retained.state[a] = NONE /\ ~StatePending(a)'
    BY <1>0 DEF OldInv
  <2>1. dev[a].current = NONE
    BY DEF Faithful
  <2>2. retained.state[a] = NONE /\ \A y \in Pending : ~(y.type = "state" /\ y.address = a)
    BY <2>1 DEF OldInv, StatePending
  <2>3. \A y \in Holds(l) : ~(y.type = "state" /\ y.address = a)
    <3>1. NONE \notin RecordedState
      BY DEF RecordedState, NONE
    <3> QED
      BY <1>5, <3>1 DEF Faithful
  <2> QED
    BY <1>3, <2>2, <2>3 DEF StatePending, Neutral
<1>9. LiveInv'
  <2> SUFFICES ASSUME Live'
               PROVE  /\ \A x \in Pending' :
                           /\ x.type = "state" => x.state = dev'[x.address].current
                           /\ x.type = "availability" => x.online = Available'
                           /\ x.type = "status" => x.mochad = mochadConn'
                      /\ \A a \in Address : retained.state[a] = dev'[a].current
                                              \/ StatePending(a)'
                      /\ retained.online = Available' \/ AvailabilityPending'
                      /\ Settled' => retained.mochad = mochadConn' \/ StatusPending'
    BY <1>0 DEF LiveInv
  <2>1. Pending = {} /\ \A x \in Pending' : x \in Holds(l) \/ Neutral(x)
    <3>1. ~overlapped'
      BY DEF Live
    <3> QED
      BY <1>1, <1>2, <3>1 DEF Idle
  <2>2. \A x \in Pending' : /\ x.type = "state" => x.state = dev'[x.address].current
                            /\ x.type = "availability" => x.online = Available'
                            /\ x.type = "status" => x.mochad = mochadConn'
    BY <2>1 DEF Neutral, Faithful
  <2>3. /\ \A a : (\E x \in Holds(l) : x.type = "state" /\ x.address = a) => StatePending(a)'
        /\ (\E x \in Holds(l) : x.type = "availability") => AvailabilityPending'
        /\ (\E x \in Holds(l) : x.type = "status") => StatusPending'
    BY <1>4 DEF StatePending, AvailabilityPending, StatusPending
  <2>4. CASE Live
    <3>1. /\ \A a \in Address : retained.state[a] = dev[a].current
          /\ retained.online = Available
          /\ Settled => retained.mochad = mochadConn
      BY <2>1, <2>4 DEF LiveInv, StatePending, AvailabilityPending, StatusPending
    <3>2. \A a \in Address : dev'[a].current = dev[a].current \/ StatePending(a)'
      BY <2>3 DEF Faithful
    <3>3. Available' = Available \/ AvailabilityPending'
      BY <2>3 DEF Faithful
    <3>4. mochadConn' = mochadConn \/ StatusPending'
      BY <2>3 DEF Faithful
    <3> QED
      BY <2>2, <3>1, <3>2, <3>3, <3>4
  <2>5. CASE mqttConn' /\ ~mqttConn
    <3>1. AvailabilityPending' /\ StatusPending'
      BY <2>3, <2>5 DEF Faithful
    <3>2. \A a \in Address : dev'[a].current # NONE => StatePending(a)'
      BY <2>3, <2>5 DEF Faithful
    <3>3. \A a \in Address : dev'[a].current = NONE => retained.state[a] = NONE
      BY DEF Faithful, OldInv
    <3> QED
      BY <2>2, <3>1, <3>2, <3>3
  <2> QED
    BY <2>4, <2>5
<1> QED
  BY <1>6, <1>7, <1>8, <1>9

\* A faithful list is a list of items.
LEMMA ListIsItems ==
    ASSUME NEW l \in Seq(Action)
    PROVE  l \in Seq(Item)
<1>1. Action \subseteq Item
  BY DEF Item
<1> QED
  BY <1>1

\* A handler that leaves the connections as they are.
LEMMA SteadyKeeps ==
    ASSUME BridgeInv, Operation, UNCHANGED <<phase, mqttConn, mochadConn>>,
           NEW t \in Thread, NEW l, Faithful(l), NEW m \in Seq(Item), Begin(t, m),
           \A x \in Holds(l) : x \in Holds(m),
           \A x \in Holds(m) : x \in Holds(l) \/ Neutral(x)
    PROVE  BridgeInv'
<1>1. /\ ManagerTypeOK /\ UnknownIsFresh /\ TypeOK /\ FlagInv /\ phase \in [Thread -> Phases]
      /\ overlapped \in BOOLEAN /\ cutShort \in BOOLEAN
  BY DEF BridgeInv, ShapeInv
<1>2. ManagerTypeOK' /\ UnknownIsFresh'
  BY <1>1, OperationType, UnknownStep
<1>3. /\ UNCHANGED <<links, retained>> /\ UNCHANGED <<mqttUp, session, sock>>
      /\ cutShort' = cutShort /\ overlapped' = (overlapped \/ ~Idle(Other(t)))
      /\ acts' = [acts EXCEPT ![t] = m] /\ Idle(t)
  BY DEF Begin, links
<1>4. TypeOK' /\ FlagInv'
  BY <1>1, <1>3 DEF TypeOK, FlagInv
<1>5. (Live' => Live) /\ (Settled' <=> Settled)
  BY <1>3 DEF Live, Settled
<1>6. overlapped' \in BOOLEAN /\ cutShort' \in BOOLEAN /\ (~overlapped' => Idle(Other(t)))
      /\ phase' \in [Thread -> Phases]
  BY <1>1, <1>3
<1> QED
  BY <1>2, <1>3, <1>4, <1>5, <1>6, HandlerKeeps

\* Commands, events, snapshots and diagnostics.
LEMMA EventsKeep ==
    ASSUME BridgeInv,
           \/ OnMqttCommand \/ OnDeviceEvent \/ OnHouseEvent \/ OnStatusSnapshot
           \/ OnUnknownLine \/ OnDiagnosticLine
    PROVE  BridgeInv'
<1>0. ManagerTypeOK /\ "mqtt" \in Thread /\ "mochad" \in Thread
  BY DEF BridgeInv, ShapeInv, Thread
<1>1. ASSUME NEW l, Faithful(l), NEW t \in Thread, Begin(t, l), Operation,
             UNCHANGED <<phase, mqttConn, mochadConn>>
      PROVE  BridgeInv'
  <2>1. l \in Seq(Item)
    BY <1>1, ListIsItems DEF Faithful
  <2> QED
    BY <1>1, <2>1, SteadyKeeps
<1>2. CASE OnMqttCommand
  <2>1. PICK a \in Address, c \in DeviceCommand :
          OptimisticUpdate(a, c) /\ Begin("mqtt", OptimisticUpdateActions(a, c))
    BY <1>2 DEF OnMqttCommand
  <2>2. Operation /\ UNCHANGED <<phase, mqttConn, mochadConn>>
    BY <1>2, <2>1 DEF Operation, OnMqttCommand, OptimisticUpdate
  <2>3. Faithful(OptimisticUpdateActions(a, c))
    BY <1>0, <2>1, OptimisticFaithful, Zenon
  <2> QED
    BY <1>0, <1>1, <2>1, <2>2, <2>3, Zenon
<1>3. CASE OnDeviceEvent
  <2>1. PICK a \in Address, c \in EventCommand :
          ApplyDeviceEvent(a, c) /\ Begin("mochad", ApplyDeviceEventActions(a, c))
    BY <1>3 DEF OnDeviceEvent
  <2>2. Operation /\ UNCHANGED <<phase, mqttConn, mochadConn>>
    BY <1>3, <2>1 DEF Operation, OnDeviceEvent, Reading, ApplyDeviceEvent
  <2>3. Faithful(ApplyDeviceEventActions(a, c))
    BY <1>0, <2>1, EventFaithful, Zenon
  <2> QED
    BY <1>0, <1>1, <2>1, <2>2, <2>3, Zenon
<1>4. CASE OnHouseEvent
  <2>1. PICK h \in House, c \in HouseCommand :
          ApplyHouseEvent(h, c) /\ Begin("mochad", ApplyHouseEventActions(h, c))
    BY <1>4 DEF OnHouseEvent
  <2>2. c \in EventCommand
    BY DEF HouseCommand, EventCommand
  <2>3. Operation /\ UNCHANGED <<phase, mqttConn, mochadConn>>
    BY <1>4, <2>1, <2>2 DEF Operation, OnHouseEvent, Reading, ApplyHouseEvent
  <2>4. Faithful(ApplyHouseEventActions(h, c))
    BY <1>0, <2>1, <2>2, HouseFaithful, Zenon
  <2> QED
    BY <1>0, <1>1, <2>1, <2>3, <2>4, Zenon
<1>5. CASE OnStatusSnapshot
  <2>1. PICK S \in SUBSET Address : \E snap \in [S -> {"ON", "OFF"}] :
          ApplyStatusSnapshot(snap) /\ Begin("mochad", ApplyStatusSnapshotActions(snap))
    BY <1>5 DEF OnStatusSnapshot
  <2>2. PICK snap \in [S -> {"ON", "OFF"}] :
          ApplyStatusSnapshot(snap) /\ Begin("mochad", ApplyStatusSnapshotActions(snap))
    BY <2>1
  <2>3. Operation /\ UNCHANGED <<phase, mqttConn, mochadConn>>
    <3>1. Operation
      BY <2>2, Zenon DEF Operation
    <3>2. UNCHANGED <<mqttConn, mochadConn>>
      BY <2>2 DEF ApplyStatusSnapshot
    <3>3. UNCHANGED phase
      BY <1>5 DEF OnStatusSnapshot, Reading
    <3> QED
      BY <3>1, <3>2, <3>3
  <2>4. Faithful(ApplyStatusSnapshotActions(snap))
    BY <1>0, <2>2, SnapshotFaithful, Zenon
  <2> QED
    BY <1>0, <1>1, <2>2, <2>3, <2>4, Zenon
<1>6. CASE OnUnknownLine
  <2>1. Operation /\ UNCHANGED <<phase, mqttConn, mochadConn>> /\ ApplyUnknownEvent
        /\ Begin("mochad", ApplyUnknownEventActions)
    BY <1>6 DEF OnUnknownLine, Operation, Reading, ApplyUnknownEvent, smVars
  <2>2. Faithful(ApplyUnknownEventActions)
    BY <1>0, <2>1, FlagsFaithful, Zenon
  <2> QED
    BY <1>0, <1>1, <2>1, <2>2, Zenon
<1>7. CASE OnDiagnosticLine
  <2>1. Operation /\ UNCHANGED <<dev, phase, mqttConn, mochadConn>>
    BY <1>7 DEF OnDiagnosticLine, Operation, Reading, ApplyUnknownEvent, smVars
  <2>2. PICK m \in {<< StatusNow >>, << StatusNow, BridgeDiscovery >>,
                    << StatusNow, BridgeDiscovery, StatusNow >>} : Begin("mochad", m)
    BY <1>7 DEF OnDiagnosticLine
  <2>3. m \in Seq(Item) /\ \A x \in Holds(m) : Neutral(x)
    <3>1. /\ StatusNow \in Item /\ Neutral(StatusNow)
          /\ BridgeDiscovery \in Item /\ Neutral(BridgeDiscovery)
      BY ItemTypes
    <3>2. CASE m = << StatusNow >>
      BY ONLY <3>1, <3>2 DEF Holds
    <3>3. CASE m = << StatusNow, BridgeDiscovery >>
      BY ONLY <3>1, <3>3 DEF Holds
    <3>4. CASE m = << StatusNow, BridgeDiscovery, StatusNow >>
      BY ONLY <3>1, <3>4 DEF Holds
    <3> QED
      BY <2>2, <3>2, <3>3, <3>4
  <2> DEFINE l == << >>
  <2>4. l \in Seq(Action) /\ Holds(l) = {}
    BY Lists
  <2> HIDE DEF l
  <2>5. Faithful(l)
    BY <2>1, <2>4, NoDevice
  <2> QED
    BY <1>0, <2>1, <2>2, <2>3, <2>4, <2>5, SteadyKeeps
<1> QED
  BY <1>2, <1>3, <1>4, <1>5, <1>6, <1>7

\* A connection callback moves the phase of its own connection and the
\* manager's flag together, and settles nothing without changing that flag of mochad.
LEMMA PhaseKeeps ==
    ASSUME BridgeInv, UNCHANGED <<links, retained>>, phase' \in [Thread -> Phases],
           \/ /\ phase'["mochad"] = phase["mochad"] /\ mochadConn' = mochadConn
              /\ \/ phase["mqtt"] = "accepted" /\ phase'["mqtt"] = "online" /\ mqttConn' = TRUE
                 \/ phase["mqtt"] = "dropped" /\ phase'["mqtt"] = "offline" /\ mqttConn' = FALSE
           \/ /\ phase'["mqtt"] = phase["mqtt"] /\ mqttConn' = mqttConn
              /\ \/ phase["mochad"] = "installed" /\ phase'["mochad"] = "online"
                    /\ mochadConn' = TRUE
                 \/ phase["mochad"] \in {"closed", "offline"} /\ phase'["mochad"] = "offline"
                    /\ mochadConn' = FALSE
    PROVE  /\ TypeOK' /\ FlagInv'
           /\ Settled' /\ ~Settled => mochadConn' # mochadConn
<1>1. /\ TypeOK /\ FlagInv /\ retained' = retained
      /\ UNCHANGED <<mqttUp, session, sock>>
  BY DEF BridgeInv, ShapeInv, links
<1>2. mqttConn \in BOOLEAN /\ mochadConn \in BOOLEAN /\ mqttUp \in BOOLEAN
  BY <1>1 DEF FlagInv, TypeOK
<1>3. CASE /\ phase'["mochad"] = phase["mochad"] /\ mochadConn' = mochadConn
           /\ phase["mqtt"] = "accepted" /\ phase'["mqtt"] = "online" /\ mqttConn' = TRUE
  BY ONLY <1>1, <1>2, <1>3 DEF TypeOK, FlagInv, Settled
<1>4. CASE /\ phase'["mochad"] = phase["mochad"] /\ mochadConn' = mochadConn
           /\ phase["mqtt"] = "dropped" /\ phase'["mqtt"] = "offline" /\ mqttConn' = FALSE
  <2>1. /\ (phase'["mqtt"] \in {"online", "dropped"}) = FALSE
        /\ (phase["mqtt"] \in {"accepted", "online"}) = FALSE
        /\ (phase'["mqtt"] \in {"accepted", "online"}) = FALSE
    BY ONLY <1>4
  <2> QED
    BY ONLY <1>1, <1>2, <1>4, <2>1 DEF TypeOK, FlagInv, Settled
<1>5. CASE /\ phase'["mqtt"] = phase["mqtt"] /\ mqttConn' = mqttConn
           /\ phase["mochad"] = "installed" /\ phase'["mochad"] = "online" /\ mochadConn' = TRUE
  <2>1. /\ (phase["mochad"] \in {"offline", "closed"}) = FALSE
        /\ (phase'["mochad"] \in {"offline", "closed"}) = FALSE
        /\ (phase["mochad"] \in {"online", "closed"}) = FALSE
        /\ phase'["mochad"] \in {"online", "closed"}
    BY ONLY <1>5
  <2> QED
    BY ONLY <1>1, <1>2, <1>5, <2>1 DEF TypeOK, FlagInv, Settled
<1>6. CASE /\ phase'["mqtt"] = phase["mqtt"] /\ mqttConn' = mqttConn
           /\ phase["mochad"] \in {"closed", "offline"} /\ phase'["mochad"] = "offline"
           /\ mochadConn' = FALSE
  <2>1. (phase'["mochad"] \in {"online", "closed"}) = FALSE
    BY ONLY <1>6
  <2>2. (phase'["mochad"] \in {"offline", "closed"})
        /\ (phase["mochad"] \in {"offline", "closed"})
    BY ONLY <1>6
  <2>3. TypeOK' /\ FlagInv'
    BY ONLY <1>1, <1>2, <1>6, <2>1, <2>2 DEF TypeOK, FlagInv
  <2>4. phase["mochad"] = "closed" => mochadConn = TRUE
    BY ONLY <1>1, <1>2 DEF FlagInv
  <2> QED
    BY ONLY <1>6, <2>3, <2>4 DEF Settled
<1> QED
  BY <1>3, <1>4, <1>5, <1>6

\* The connect and disconnect callbacks.
LEMMA CallbacksKeep ==
    ASSUME BridgeInv,
           \/ OnMqttConnected \/ OnMqttDisconnected
           \/ OnMochadConnected \/ OnMochadDisconnected
    PROVE  BridgeInv'
<1>0. /\ ManagerTypeOK /\ UnknownIsFresh /\ FlagInv /\ phase \in [Thread -> Phases]
      /\ overlapped \in BOOLEAN /\ cutShort \in BOOLEAN
      /\ "mqtt" \in Thread /\ "mochad" \in Thread
      /\ Other("mqtt") = "mochad" /\ Other("mochad") = "mqtt"
      /\ "online" \in Phases /\ "offline" \in Phases
  BY DEF BridgeInv, ShapeInv, Thread, Other, Phases
<1>1. Operation /\ ManagerTypeOK' /\ UnknownIsFresh'
  <2>1. Operation
    BY DEF Operation, OnMqttConnected, OnMqttDisconnected, OnMochadConnected,
           OnMochadDisconnected
  <2> QED
    BY <1>0, <2>1, OperationType, UnknownStep
<1>2. ASSUME NEW t \in Thread, NEW l, Faithful(l), NEW m \in Seq(Item), Begin(t, m),
             \A x \in Holds(l) : x \in Holds(m),
             \A x \in Holds(m) : x \in Holds(l) \/ Neutral(x),
             TypeOK' /\ FlagInv', Settled' /\ ~Settled => mochadConn' # mochadConn,
             phase' \in [Thread -> Phases],
             phase'["mqtt"] = "online" => phase["mqtt"] = "online"
      PROVE  BridgeInv'
  <2>1. /\ UNCHANGED <<links, retained>> /\ UNCHANGED <<mqttUp, session, sock>>
        /\ cutShort' = cutShort /\ overlapped' = (overlapped \/ ~Idle(Other(t)))
        /\ acts' = [acts EXCEPT ![t] = m] /\ Idle(t)
    BY <1>2 DEF Begin, links
  <2>2. Live' => Live
    BY <1>2, <2>1 DEF Live
  <2>3. overlapped' \in BOOLEAN /\ cutShort' \in BOOLEAN /\ (~overlapped' => Idle(Other(t)))
    BY <1>0, <2>1
  <2>4. (ManagerTypeOK /\ UnknownIsFresh /\ TypeOK /\ FlagInv)'
    BY <1>1, <1>2
  <2> QED
    BY <1>2, <2>1, <2>2, <2>3, <2>4, HandlerKeeps
<1>3. \A t, m : Begin(t, m) => UNCHANGED <<links, retained>>
  BY DEF Begin, links
<1>4. CASE OnMqttDisconnected
  <2> DEFINE l == MqttDisconnectedActions
  <2>1. /\ phase["mqtt"] = "dropped" /\ MqttDisconnected /\ Begin("mqtt", l)
        /\ Enter("mqtt", "offline")
    BY <1>4 DEF OnMqttDisconnected
  <2>2. Faithful(l)
    BY <1>0, <2>1, FlagsFaithful, Zenon
  <2> HIDE DEF l
  <2>3. /\ phase' \in [Thread -> Phases] /\ phase'["mqtt"] = "offline"
        /\ phase'["mochad"] = phase["mochad"]
    BY ONLY <1>0, <2>1, EnterPhase
  <2>4. mqttConn' = FALSE /\ mochadConn' = mochadConn
    BY <2>1 DEF MqttDisconnected
  <2>5. /\ TypeOK' /\ FlagInv'
        /\ Settled' /\ ~Settled => mochadConn' # mochadConn
    BY <1>3, <2>1, <2>3, <2>4, PhaseKeeps
  <2>6. l \in Seq(Item)
    BY <2>2, ListIsItems DEF Faithful
  <2> QED
    BY <1>0, <1>2, <2>1, <2>2, <2>3, <2>5, <2>6
<1>5. CASE OnMochadDisconnected
  <2> DEFINE l == MochadDisconnectedActions
  <2>1. /\ phase["mochad"] \in {"closed", "offline"} /\ MochadDisconnected
        /\ Begin("mochad", l) /\ Enter("mochad", "offline")
    BY <1>5 DEF OnMochadDisconnected
  <2>2. Faithful(l)
    BY <1>0, <2>1, FlagsFaithful, Zenon
  <2> HIDE DEF l
  <2>3. /\ phase' \in [Thread -> Phases] /\ phase'["mochad"] = "offline"
        /\ phase'["mqtt"] = phase["mqtt"]
    BY ONLY <1>0, <2>1, EnterPhase
  <2>4. mochadConn' = FALSE /\ mqttConn' = mqttConn
    BY <2>1 DEF MochadDisconnected
  <2>5. /\ TypeOK' /\ FlagInv'
        /\ Settled' /\ ~Settled => mochadConn' # mochadConn
    BY <1>3, <2>1, <2>3, <2>4, PhaseKeeps
  <2>6. l \in Seq(Item)
    BY <2>2, ListIsItems DEF Faithful
  <2> QED
    BY <1>0, <1>2, <2>1, <2>2, <2>3, <2>5, <2>6
<1>6. CASE OnMochadConnected
  <2> DEFINE l == MochadConnectedActions
             m == l \o << RequestDiagnostics >>
  <2>1. /\ phase["mochad"] = "installed" /\ MochadConnected
        /\ Begin("mochad", m) /\ Enter("mochad", "online")
    BY <1>6 DEF OnMochadConnected
  <2>2. Faithful(l)
    BY <1>0, <2>1, FlagsFaithful, Zenon
  <2> HIDE DEF l
  <2>3. /\ phase' \in [Thread -> Phases] /\ phase'["mochad"] = "online"
        /\ phase'["mqtt"] = phase["mqtt"]
    BY ONLY <1>0, <2>1, EnterPhase
  <2>4. mochadConn' = TRUE /\ mqttConn' = mqttConn
    BY <2>1 DEF MochadConnected
  <2>5. /\ TypeOK' /\ FlagInv'
        /\ Settled' /\ ~Settled => mochadConn' # mochadConn
    BY <1>3, <2>1, <2>3, <2>4, PhaseKeeps
  <2>6. /\ m \in Seq(Item) /\ \A x \in Holds(l) : x \in Holds(m)
        /\ \A x \in Holds(m) : x \in Holds(l) \/ Neutral(x)
    <3> DEFINE r == << RequestDiagnostics >>
    <3>1. l \in Seq(Item)
      BY <2>2, ListIsItems DEF Faithful
    <3>2. r \in Seq(Item) /\ \A x \in Holds(r) : Neutral(x)
      BY ItemTypes DEF Holds
    <3> HIDE DEF r
    <3>3. l \o r \in Seq(Item) /\ Holds(l \o r) = Holds(l) \cup Holds(r)
      BY ONLY <3>1, <3>2, ConcatHolds
    <3> QED
      BY <3>2, <3>3 DEF r
  <2> HIDE DEF m
  <2> QED
    BY <1>0, <1>2, <2>1, <2>2, <2>3, <2>5, <2>6
<1>7. CASE OnMqttConnected
  <2> DEFINE l == MqttConnectedActions
             m == l \o << BridgeDiscovery >>
  <2>1. /\ phase["mqtt"] = "accepted" /\ Idle("mqtt") /\ MqttConnected
        /\ acts' = [acts EXCEPT !["mqtt"] = m] /\ Enter("mqtt", "online")
        /\ overlapped' = ~Idle("mochad") /\ cutShort' = FALSE /\ UNCHANGED <<links, retained>>
    BY <1>7 DEF OnMqttConnected
  <2>2. Faithful(l)
    BY <1>0, <2>1, ConnectFaithful, Zenon
  <2> HIDE DEF l
  <2>3. /\ phase' \in [Thread -> Phases] /\ phase'["mqtt"] = "online"
        /\ phase'["mochad"] = phase["mochad"]
    BY ONLY <1>0, <2>1, EnterPhase
  <2>4. mqttConn' = TRUE /\ mochadConn' = mochadConn
    BY <2>1 DEF MqttConnected
  <2>5. /\ TypeOK' /\ FlagInv'
        /\ Settled' /\ ~Settled => mochadConn' # mochadConn
    BY <2>1, <2>3, <2>4, PhaseKeeps
  <2>6. /\ m \in Seq(Item) /\ \A x \in Holds(l) : x \in Holds(m)
        /\ \A x \in Holds(m) : x \in Holds(l) \/ Neutral(x)
    <3> DEFINE r == << BridgeDiscovery >>
    <3>1. l \in Seq(Item)
      BY <2>2, ListIsItems DEF Faithful
    <3>2. r \in Seq(Item) /\ \A x \in Holds(r) : Neutral(x)
      BY ItemTypes DEF Holds
    <3> HIDE DEF r
    <3>3. l \o r \in Seq(Item) /\ Holds(l \o r) = Holds(l) \cup Holds(r)
      BY ONLY <3>1, <3>2, ConcatHolds
    <3> QED
      BY <3>2, <3>3 DEF r
  <2> HIDE DEF m
  <2>7. mqttConn' /\ ~mqttConn
    BY <1>0, <2>1, <2>4 DEF FlagInv
  <2>8. overlapped' \in BOOLEAN /\ cutShort' \in BOOLEAN
        /\ (~overlapped' => Idle(Other("mqtt")))
    BY <1>0, <2>1
  <2>9. (ManagerTypeOK /\ UnknownIsFresh /\ TypeOK /\ FlagInv)'
    BY <1>1, <2>5
  <2> QED
    BY <1>0, <2>1, <2>2, <2>3, <2>5, <2>6, <2>7, <2>8, <2>9, HandlerKeeps
<1> QED
  BY <1>4, <1>5, <1>6, <1>7

-----------------------------------------------------------------------------
\* The invariant holds in every reachable state of the bridge.
THEOREM BridgeInvCorrect == Spec => []BridgeInv
<1>1. Init => BridgeInv
  <2> SUFFICES ASSUME Init
               PROVE  BridgeInv
    OBVIOUS
  <2>1. /\ known = {a \in Configured : AddressAllowed(a)}
        /\ dev = [a \in Address |-> FreshDevice] /\ mqttConn = FALSE /\ mochadConn = FALSE
        /\ phase = [t \in Thread |-> "offline"] /\ acts = [t \in Thread |-> << >>]
        /\ mqttUp = FALSE /\ sock = "none" /\ overlapped = FALSE /\ cutShort = FALSE
        /\ retained = [online |-> FALSE, mochad |-> FALSE, state |-> [a \in Address |-> NONE]]
    BY DEF Init, SMInit
  <2>2. ManagerTypeOK /\ UnknownIsFresh
    <3>1. FreshDevice \in DeviceState
      BY DEF FreshDevice, DeviceState
    <3> QED
      BY <2>1, <3>1, ConfigAssumption DEF ManagerTypeOK, UnknownIsFresh, FreshDevice
  <2>3. acts["mqtt"] = << >> /\ acts["mochad"] = << >> /\ acts \in [Thread -> Seq(Item)]
    BY <2>1 DEF Thread
  <2>4. phase["mqtt"] = "offline" /\ phase["mochad"] = "offline" /\ phase \in [Thread -> Phases]
    BY <2>1 DEF Thread, Phases
  <2>5. /\ retained \in [online : BOOLEAN, mochad : BOOLEAN,
                         state : [Address -> RecordedState \cup {NONE}]]
        /\ \A a \in Address : retained.state[a] = NONE
    BY <2>1
  <2>6. /\ (phase["mqtt"] \in {"accepted", "online"}) = FALSE
        /\ (phase["mqtt"] \in {"online", "dropped"}) = FALSE
        /\ (phase["mochad"] \in {"online", "closed"}) = FALSE
        /\ phase["mochad"] \in {"offline", "closed"}
    BY <2>4
  <2>7. TypeOK
    BY ONLY <2>1, <2>4, <2>5, <2>6 DEF TypeOK
  <2>8. FlagInv
    BY ONLY <2>1, <2>6 DEF FlagInv
  <2>9. ShapeInv
    BY <2>1, <2>2, <2>3, <2>4, <2>5, <2>7 DEF ShapeInv
  <2>10. OldInv
    BY <2>3, <2>5 DEF OldInv, StatePending, Pending, Holds
  <2>11. ListInv /\ LiveInv
    BY <2>3, <2>4 DEF ListInv, Idle, LiveInv, Live
  <2> QED
    BY <2>2, <2>8, <2>9, <2>10, <2>11 DEF BridgeInv
<1>2. BridgeInv /\ [Next]_vars => BridgeInv'
  <2> SUFFICES ASSUME BridgeInv, [Next]_vars
               PROVE  BridgeInv'
    OBVIOUS
  <2>1. CASE Execute("mqtt") \/ Execute("mochad")
    BY <2>1, ThreadKeeps DEF Thread
  <2>2. CASE \/ MqttOnConnect \/ MqttOnConnectRefused \/ SessionLost \/ MqttOnDisconnect
             \/ MochadConnect \/ PeerGone \/ MochadDisconnect
    BY <2>2, LinkKeeps
  <2>3. CASE \/ OnMqttCommand \/ OnDeviceEvent \/ OnHouseEvent \/ OnStatusSnapshot
             \/ OnUnknownLine \/ OnDiagnosticLine
    BY <2>3, EventsKeep
  <2>4. CASE \/ OnMqttConnected \/ OnMqttDisconnected
             \/ OnMochadConnected \/ OnMochadDisconnected
    BY <2>4, CallbacksKeep
  <2>5. CASE UNCHANGED vars
    <3>1. /\ UNCHANGED <<known, dev, mqttConn, mochadConn, phase, acts, mqttUp, session, sock>>
          /\ UNCHANGED <<retained, overlapped, cutShort>>
      BY <2>5 DEF vars, smVars, links, ghosts
    <3>2. ShapeInv' /\ FlagInv' /\ UnknownIsFresh'
      BY <3>1 DEF BridgeInv, ShapeInv, ManagerTypeOK, TypeOK, FlagInv, UnknownIsFresh
    <3>3. OldInv' /\ ListInv'
      BY <3>1 DEF BridgeInv, OldInv, ListInv, StatePending, Pending, Idle
    <3>4. LiveInv'
      BY <3>1 DEF BridgeInv, LiveInv, Live, Settled, Available, StatePending,
                  AvailabilityPending, StatusPending, Pending
    <3> QED
      BY <3>2, <3>3, <3>4 DEF BridgeInv
  <2> QED
    BY <2>1, <2>2, <2>3, <2>4, <2>5 DEF Next, MqttThread, MochadThread, Environment
<1> QED
  BY <1>1, <1>2, PTL DEF Spec

\* The flags of the two clients follow the phases of their connections, and
\* only recorded states are ever retained.
THEOREM TypeCorrect == Spec => []TypeOK
<1>1. BridgeInv => TypeOK
  BY DEF BridgeInv, ShapeInv
<1> QED
  BY <1>1, BridgeInvCorrect, PTL

\* At rest and undisturbed, the broker shows the bridge's state: whatever the
\* order of connects, losses, refusals, commands and events that led there.
THEOREM SyncedCorrect == Spec => []SyncedUnlessDisturbed
<1>1. BridgeInv => SyncedUnlessDisturbed
  <2> SUFFICES ASSUME BridgeInv, Quiet, ~overlapped, ~cutShort
               PROVE  ShowsAvailability /\ ShowsStates
    BY DEF SyncedUnlessDisturbed
  <2>1. Pending = {}
    BY DEF Quiet, Idle, Pending, Holds, Thread
  <2>2. Live /\ Settled
    BY DEF Quiet, Live, Settled
  <2> QED
    BY <2>1, <2>2 DEF BridgeInv, LiveInv, StatePending, AvailabilityPending, StatusPending,
                      ShowsAvailability, ShowsStates
<1> QED
  BY <1>1, BridgeInvCorrect, PTL
=============================================================================
