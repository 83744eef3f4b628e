---------------------- MODULE DeviceCommandQueueProofs ----------------------
(***************************************************************************)
(* For every queue length, number of commands and repeat counts: the deque *)
(* keeps its order and its bound, no command is lost or settled twice, and *)
(* commands are delivered as CommandDelivery says.                         *)
(***************************************************************************)
EXTENDS DeviceCommandQueue, TLAPS

\* popleft: what is left of a non-empty deque, and what was taken.
LEMMA PopLeft ==
    ASSUME NEW q \in Seq(Cmd), q # << >>
    PROVE  /\ Head(q) = q[1] /\ Head(q) \in Cmd
           /\ Tail(q) \in Seq(Cmd)
           /\ Len(Tail(q)) = Len(q) - 1 /\ Len(q) >= 1
           /\ \A i \in 1..Len(Tail(q)) : Tail(q)[i] = q[i + 1]
<1>1. Len(q) \in Nat /\ Len(q) >= 1
  OBVIOUS
<1> QED
  BY <1>1

\* append at the right end.
LEMMA PushRight ==
    ASSUME NEW q \in Seq(Cmd), NEW c \in Cmd
    PROVE  /\ Append(q, c) \in Seq(Cmd)
           /\ Len(Append(q, c)) = Len(q) + 1
           /\ Append(q, c)[Len(q) + 1] = c
           /\ \A i \in 1..Len(q) : Append(q, c)[i] = q[i]
  OBVIOUS

\* appendleft: the put-back of a flush that failed.
LEMMA PushLeft ==
    ASSUME NEW q \in Seq(Cmd), NEW c \in Cmd
    PROVE  /\ << c >> \o q \in Seq(Cmd)
           /\ Len(<< c >> \o q) = Len(q) + 1
           /\ (<< c >> \o q)[1] = c
           /\ \A i \in 1..Len(q) : (<< c >> \o q)[i + 1] = q[i]
  OBVIOUS

\* The elements of a deque are its entries, 1 to its length.
LEMMA Entries ==
    ASSUME NEW q \in Seq(Cmd)
    PROVE  /\ \A i \in 1..Len(q) : q[i] \in ToSet(q)
           /\ \A c \in ToSet(q) : \E i \in 1..Len(q) : q[i] = c
           /\ ToSet(q) \subseteq Cmd
<1>1. DOMAIN q = 1..Len(q) /\ \A i \in 1..Len(q) : q[i] \in Cmd
  OBVIOUS
<1> QED
  BY <1>1 DEF ToSet

\* popleft takes one element out of the deque.
LEMMA PopLeftEntries ==
    ASSUME NEW q \in Seq(Cmd), q # << >>
    PROVE  ToSet(q) = ToSet(Tail(q)) \cup {Head(q)}
<1>1. ToSet(q) \subseteq ToSet(Tail(q)) \cup {Head(q)}
  <2> SUFFICES ASSUME NEW i \in 1..Len(q), i # 1
               PROVE  q[i] \in ToSet(Tail(q))
    BY Entries, PopLeft
  <2>1. i - 1 \in 1..Len(Tail(q)) /\ Tail(q)[i - 1] = q[i]
    BY PopLeft
  <2> QED
    BY <2>1, PopLeft, Entries
<1>2. ToSet(Tail(q)) \cup {Head(q)} \subseteq ToSet(q)
  <2>1. \A i \in 1..Len(Tail(q)) : Tail(q)[i] \in ToSet(q)
    BY PopLeft, Entries
  <2>2. Tail(q) \in Seq(Cmd) /\ Head(q) = q[1] /\ Len(q) >= 1 /\ Len(q) \in Nat
    BY PopLeft
  <2>3. Head(q) \in ToSet(q)
    BY <2>2, Entries
  <2> QED
    BY <2>1, <2>2, <2>3, Entries
<1> QED
  BY <1>1, <1>2

\* In a strictly increasing deque the head does not occur again.
LEMMA HeadIsGone ==
    ASSUME NEW q \in Seq(Cmd), q # << >>, Cmd \subseteq Nat,
           \A i, j \in 1..Len(q) : i < j => q[i] < q[j]
    PROVE  Head(q) \notin ToSet(Tail(q))
<1> SUFFICES ASSUME NEW i \in 1..Len(Tail(q)), Tail(q)[i] = Head(q)
             PROVE  FALSE
  <2>1. Tail(q) \in Seq(Cmd)
    BY PopLeft
  <2> QED
    BY <2>1, Entries
<1>1. i + 1 \in 1..Len(q) /\ 1 \in 1..Len(q) /\ 1 < i + 1 /\ q[i + 1] = q[1]
  BY PopLeft
<1>2. q[1] \in Nat
  <2>1. q[1] \in Cmd
    BY <1>1
  <2> QED
    BY <2>1
<1>3. q[1] < q[i + 1]
  BY <1>1
<1> QED
  BY <1>1, <1>2, <1>3

\* append adds one element to the deque.
LEMMA PushRightEntries ==
    ASSUME NEW q \in Seq(Cmd), NEW c \in Cmd
    PROVE  ToSet(Append(q, c)) = ToSet(q) \cup {c}
<1> DEFINE r == Append(q, c)
<1>1. r \in Seq(Cmd) /\ Len(r) = Len(q) + 1 /\ Len(q) \in Nat /\ r[Len(q) + 1] = c
  BY PushRight
<1>2. \A i \in 1..Len(q) : r[i] = q[i]
  BY PushRight
<1> HIDE DEF r
<1>3. \A i \in 1..Len(r) : i \in 1..Len(q) \/ i = Len(q) + 1
  BY <1>1
<1>4. \A i \in 1..Len(q) : i \in 1..Len(r)
  BY <1>1
<1>5. Len(q) + 1 \in 1..Len(r)
  BY <1>1
<1>6. ToSet(r) \subseteq ToSet(q) \cup {c}
  BY <1>1, <1>2, <1>3, Entries
<1>7. ToSet(q) \cup {c} \subseteq ToSet(r)
  BY <1>1, <1>2, <1>4, <1>5, Entries
<1> QED
  BY <1>6, <1>7 DEF r

\* appendleft adds one element to the deque.
LEMMA PushLeftEntries ==
    ASSUME NEW q \in Seq(Cmd), NEW c \in Cmd
    PROVE  ToSet(<< c >> \o q) = {c} \cup ToSet(q)
<1> DEFINE r == << c >> \o q
<1>1. r \in Seq(Cmd) /\ Len(r) = Len(q) + 1 /\ Len(q) \in Nat /\ r[1] = c
  BY PushLeft
<1>2. \A i \in 1..Len(q) : r[i + 1] = q[i]
  BY PushLeft
<1> HIDE DEF r
<1>3. \A i \in 1..Len(r) : i = 1 \/ (i - 1 \in 1..Len(q) /\ r[i] = q[i - 1])
  BY <1>1, <1>2
<1>4. \A i \in 1..Len(q) : i + 1 \in 1..Len(r)
  BY <1>1
<1>5. 1 \in 1..Len(r)
  BY <1>1
<1>6. ToSet(r) \subseteq {c} \cup ToSet(q)
  BY <1>1, <1>3, Entries
<1>7. c \in ToSet(r)
  BY <1>1, <1>5, Entries
<1>8. \A i \in 1..Len(q) : q[i] \in ToSet(r)
  BY <1>1, <1>2, <1>4, Entries
<1>9. ToSet(q) \subseteq ToSet(r)
  BY <1>8, Entries
<1> QED
  BY <1>6, <1>7, <1>9 DEF r

-----------------------------------------------------------------------------
\* The deque holds commands, a thread holds one exactly while its handler has
\* one in hand, and the attempt counters start at one.
THEOREM TypeCorrect == Spec => []TypeOK
<1>1. Init => TypeOK
  <2>1. << >> \in Seq(Cmd)
    OBVIOUS
  <2> QED
    BY <2>1, QueueAssumption DEF Init, TypeOK, Forgotten, Unknown, NoCmd
<1>2. TypeOK /\ [Next]_vars => TypeOK'
  <2> SUFFICES ASSUME TypeOK, [Next]_vars
               PROVE  TypeOK'
    OBVIOUS
  <2> USE QueueAssumption DEF TypeOK, mqttSide, mochadSide, fate, NoCmd
  <2>1. CASE ReceiveCommand
    BY <2>1 DEF ReceiveCommand, Cmd
  <2>2. CASE CheckConnected
    BY <2>2 DEF CheckConnected
  <2>3. CASE CheckDiagnostics
    BY <2>3 DEF CheckDiagnostics
  <2>4. CASE DirectSend
    BY <2>4 DEF DirectSend, MqttDone
  <2>5. CASE DirectSendFails
    BY <2>5 DEF DirectSendFails, MqttDone
  <2>6. CASE CheckLength
    BY <2>6 DEF CheckLength
  <2>7. CASE DropOldest
    <3>1. Head(queue) \in Cmd /\ Tail(queue) \in Seq(Cmd)
      BY <2>7, PopLeft DEF DropOldest
    <3> QED
      BY <2>7, <3>1 DEF DropOldest
  <2>8. CASE DropOldestFails
    BY <2>8 DEF DropOldestFails, MqttDone
  <2>9. CASE AppendCommand
    <3>1. Append(queue, mcmd) \in Seq(Cmd)
      BY <2>9, PushRight DEF AppendCommand
    <3> QED
      BY <2>9, <3>1 DEF AppendCommand, MqttDone
  <2>10. CASE MochadConnects
    BY <2>10 DEF MochadConnects
  <2>11. CASE MochadDisconnects
    BY <2>11 DEF MochadDisconnects
  <2>12. CASE ForgetDiagnostics
    BY <2>12 DEF ForgetDiagnostics, Forgotten, Unknown
  <2>13. CASE HealthLine
    <3>1. diag' \in [HealthField -> {Unknown, "true", "false"}]
      BY <2>13 DEF HealthLine
    <3> QED
      BY <2>13, <3>1 DEF HealthLine
  <2>14. CASE FlushStart
    BY <2>14 DEF FlushStart
  <2>15. CASE FlushLoop
    BY <2>15 DEF FlushLoop
  <2>16. CASE FlushPop
    <3>1. Head(queue) \in Cmd /\ Tail(queue) \in Seq(Cmd)
      BY <2>16, PopLeft DEF FlushPop
    <3> QED
      BY <2>16, <3>1 DEF FlushPop
  <2>17. CASE FlushPopFails
    BY <2>17 DEF FlushPopFails
  <2>18. CASE FlushSend
    BY <2>18 DEF FlushSend
  <2>19. CASE FlushSendFails
    BY <2>19 DEF FlushSendFails
  <2>20. CASE FlushPutBack
    <3>1. << fcmd >> \o queue \in Seq(Cmd)
      BY <2>20, PushLeft DEF FlushPutBack
    <3> QED
      BY <2>20, <3>1 DEF FlushPutBack
  <2>21. CASE PeerGone
    BY <2>21 DEF PeerGone
  <2>22. CASE AnnounceDiscovery \/ AnnounceFails
    BY <2>22 DEF AnnounceDiscovery, AnnounceFails
  <2>23. CASE Surroundings
    BY <2>23 DEF Surroundings
  <2>24. CASE UNCHANGED vars
    BY <2>24 DEF vars
  <2> QED
    BY <2>1, <2>2, <2>3, <2>4, <2>5, <2>6, <2>7, <2>8, <2>9, <2>10, <2>11, <2>12,
       <2>13, <2>14, <2>15, <2>16, <2>17, <2>18, <2>19, <2>20, <2>21, <2>22, <2>23, <2>24
       DEF Next, MqttThread, FlushThread
<1> QED
  BY <1>1, <1>2, PTL DEF Spec

\* QueueBound alone is not inductive: an append happens after its length test
\* and a put-back after its popleft.  What is bounded is the deque together
\* with the command the flush holds, by one less when an append is due.
FlushHolds == IF fpc \in {"send", "putBack"} THEN 1 ELSE 0

BoundInv ==
    /\ Len(queue) + FlushHolds <= MAX_QUEUED_DEVICE_COMMANDS + 1
    /\ mpc = "append" => Len(queue) + FlushHolds <= MAX_QUEUED_DEVICE_COMMANDS

\* The deque never holds more than MAX_QUEUED_DEVICE_COMMANDS + 1 commands,
\* however the MQTT thread's test, drop and append interleave with a flush.
THEOREM BoundCorrect == Spec => []QueueBound
<1>1. Init => BoundInv
  <2>1. Len(<< >>) = 0
    OBVIOUS
  <2> QED
    BY <2>1, QueueAssumption DEF Init, BoundInv, FlushHolds
<1>2. TypeOK /\ BoundInv /\ [Next]_vars => BoundInv'
  <2> SUFFICES ASSUME TypeOK, BoundInv, [Next]_vars
               PROVE  BoundInv'
    OBVIOUS
  <2>0. Len(queue) \in Nat /\ MAX_QUEUED_DEVICE_COMMANDS \in Nat
    BY QueueAssumption DEF TypeOK
  <2> USE <2>0 DEF BoundInv, FlushHolds, mqttSide, mochadSide, fate
  <2>1. CASE ReceiveCommand \/ CheckConnected \/ CheckDiagnostics
    BY <2>1 DEF ReceiveCommand, CheckConnected, CheckDiagnostics
  <2>2. CASE DirectSend \/ DirectSendFails \/ DropOldestFails
    BY <2>2 DEF DirectSend, DirectSendFails, DropOldestFails, MqttDone
  <2>3. CASE CheckLength
    BY <2>3 DEF CheckLength
  <2>4. CASE DropOldest
    <3>1. Len(Tail(queue)) = Len(queue) - 1
      BY <2>4, PopLeft DEF DropOldest, TypeOK
    <3> QED
      BY <2>4, <3>1 DEF DropOldest
  <2>5. CASE AppendCommand
    <3>1. Len(Append(queue, mcmd)) = Len(queue) + 1
      BY <2>5, PushRight DEF AppendCommand, TypeOK
    <3> QED
      BY <2>5, <3>1 DEF AppendCommand, MqttDone
  <2>6. CASE MochadConnects \/ MochadDisconnects \/ ForgetDiagnostics \/ HealthLine
             \/ AnnounceDiscovery \/ AnnounceFails \/ PeerGone \/ Surroundings
    BY <2>6 DEF MochadConnects, MochadDisconnects, ForgetDiagnostics, HealthLine,
                AnnounceDiscovery, AnnounceFails, PeerGone, Surroundings
  <2>7. CASE FlushStart \/ FlushLoop \/ FlushPopFails \/ FlushSend \/ FlushSendFails
    BY <2>7 DEF FlushStart, FlushLoop, FlushPopFails, FlushSend, FlushSendFails
  <2>8. CASE FlushPop
    <3>1. Len(Tail(queue)) = Len(queue) - 1
      BY <2>8, PopLeft DEF FlushPop, TypeOK
    <3> QED
      BY <2>8, <3>1 DEF FlushPop
  <2>9. CASE FlushPutBack
    <3>1. Len(<< fcmd >> \o queue) = Len(queue) + 1
      BY <2>9, PushLeft DEF FlushPutBack, TypeOK
    <3> QED
      BY <2>9, <3>1 DEF FlushPutBack
  <2>10. CASE UNCHANGED vars
    BY <2>10 DEF vars
  <2> QED
    BY <2>1, <2>2, <2>3, <2>4, <2>5, <2>6, <2>7, <2>8, <2>9, <2>10
       DEF Next, MqttThread, FlushThread
<1>3. TypeOK /\ BoundInv => QueueBound
  <2> SUFFICES ASSUME TypeOK, BoundInv
               PROVE  QueueBound
    OBVIOUS
  <2>1. Len(queue) \in Nat /\ MAX_QUEUED_DEVICE_COMMANDS \in Nat
    BY QueueAssumption DEF TypeOK
  <2> QED
    BY <2>1 DEF BoundInv, FlushHolds, QueueBound
<1> QED
  BY <1>1, <1>2, <1>3, TypeCorrect, PTL DEF Spec

\* QueueInOrder rests on the numbering: what the MQTT thread holds is the
\* last command taken, and all others are older than the next number.
OrderInv ==
    /\ QueueInOrder
    /\ \A c \in InQueue \cup InFlush : c < next
    /\ mpc # "idle" => mcmd = next - 1

\* The strengthened order holds in every state the two threads reach.
THEOREM OrderInvariant == Spec => []OrderInv
<1>1. Init => OrderInv
  <2>1. ToSet(<< >>) = {} /\ Len(<< >>) = 0
    BY DEF ToSet
  <2> QED
    BY <2>1 DEF Init, OrderInv, QueueInOrder, InQueue, InFlush, InMqtt, Held
<1>2. TypeOK /\ OrderInv /\ [Next]_vars => OrderInv'
  <2> SUFFICES ASSUME TypeOK, OrderInv, [Next]_vars
               PROVE  OrderInv'
    OBVIOUS
  <2>0. /\ Len(queue) \in Nat /\ queue \in Seq(Cmd) /\ next \in Nat
        /\ InQueue \subseteq Nat /\ InFlush \subseteq Nat /\ InMqtt \subseteq Nat
        /\ \A i \in 1..Len(queue) : queue[i] \in InQueue /\ queue[i] \in Nat
    <3>1. InQueue \subseteq Cmd /\ InFlush \subseteq Cmd /\ InMqtt \subseteq Cmd
      BY Entries DEF TypeOK, InQueue, InFlush, InMqtt, Held
    <3> QED
      BY <3>1, Entries, QueueAssumption DEF TypeOK, InQueue, Cmd
  <2> USE <2>0 DEF OrderInv, mqttSide, mochadSide, fate
  <2>1. CASE ReceiveCommand
    BY <2>1 DEF ReceiveCommand, QueueInOrder, InQueue, InFlush, InMqtt, Held
  <2>2. CASE CheckConnected \/ CheckDiagnostics \/ CheckLength
    BY <2>2 DEF CheckConnected, CheckDiagnostics, CheckLength,
                QueueInOrder, InQueue, InFlush, InMqtt, Held
  <2>3. CASE DirectSend \/ DirectSendFails \/ DropOldestFails
    BY <2>3 DEF DirectSend, DirectSendFails, DropOldestFails, MqttDone,
                QueueInOrder, InQueue, InFlush, InMqtt, Held
  <2>4. CASE DropOldest
    <3>1. InQueue' \subseteq InQueue /\ InFlush' = InFlush /\ InMqtt' = InMqtt
      BY <2>4, PopLeftEntries DEF DropOldest, TypeOK, InQueue, InFlush, InMqtt, Held
    <3>2. \A i, j \in 1..Len(queue') : i < j => queue'[i] < queue'[j]
      BY <2>4, PopLeft DEF DropOldest, QueueInOrder
    <3> QED
      BY <2>4, <3>1, <3>2 DEF DropOldest, QueueInOrder
  <2>5. CASE AppendCommand
    <3>1. InQueue' = InQueue \cup {mcmd} /\ InFlush' = InFlush /\ InMqtt' = {}
      BY <2>5, PushRightEntries
         DEF AppendCommand, MqttDone, TypeOK, InQueue, InFlush, InMqtt, Held
    <3>2. InMqtt = {mcmd} /\ mcmd = next - 1
      BY <2>5 DEF AppendCommand, InMqtt, Held
    <3>3. \A i, j \in 1..Len(queue') : i < j => queue'[i] < queue'[j]
      <4>1. mcmd \in Cmd
        BY <2>5 DEF AppendCommand, TypeOK
      <4>2. /\ Len(queue') = Len(queue) + 1
            /\ queue'[Len(queue) + 1] = mcmd
            /\ \A i \in 1..Len(queue) : queue'[i] = queue[i]
        BY <2>5, <4>1, PushRight DEF AppendCommand
      <4>3. \A i \in 1..Len(queue) : queue[i] < mcmd
        BY <3>2 DEF QueueInOrder
      <4>4. \A i, j \in 1..Len(queue) : i < j => queue[i] < queue[j]
        BY DEF QueueInOrder
      <4> SUFFICES ASSUME NEW i \in 1..Len(queue'), NEW j \in 1..Len(queue'), i < j
                   PROVE  queue'[i] < queue'[j]
        OBVIOUS
      <4>5. i \in 1..Len(queue) /\ queue'[i] = queue[i]
        BY <4>2
      <4>6. CASE j = Len(queue) + 1
        BY <4>2, <4>3, <4>5, <4>6
      <4>7. CASE j \in 1..Len(queue)
        BY <4>2, <4>4, <4>5, <4>7
      <4> QED
        BY <4>2, <4>6, <4>7
    <3>4. mpc' = "idle" /\ next' = next
      BY <2>5 DEF AppendCommand, MqttDone
    <3> QED
      BY <3>1, <3>2, <3>3, <3>4 DEF QueueInOrder
  <2>6. CASE MochadConnects \/ MochadDisconnects \/ ForgetDiagnostics \/ HealthLine
             \/ AnnounceDiscovery \/ AnnounceFails \/ PeerGone \/ Surroundings
    BY <2>6 DEF MochadConnects, MochadDisconnects, ForgetDiagnostics, HealthLine,
                AnnounceDiscovery, AnnounceFails, PeerGone, Surroundings,
                QueueInOrder, InQueue, InFlush, InMqtt, Held
  <2>7. CASE FlushStart \/ FlushLoop \/ FlushPopFails \/ FlushSend \/ FlushSendFails
    BY <2>7 DEF FlushStart, FlushLoop, FlushPopFails, FlushSend, FlushSendFails,
                QueueInOrder, InQueue, InFlush, InMqtt, Held
  <2>8. CASE FlushPop
    <3>1. InQueue = InQueue' \cup {Head(queue)} /\ InFlush' = {Head(queue)}
          /\ InMqtt' = InMqtt
      BY <2>8, PopLeftEntries DEF FlushPop, TypeOK, InQueue, InFlush, InMqtt, Held
    <3>2. \A i, j \in 1..Len(queue') : i < j => queue'[i] < queue'[j]
      BY <2>8, PopLeft DEF FlushPop, QueueInOrder
    <3>3. \A c \in InQueue' : Head(queue) < c
      <4>1. \A i \in 1..Len(queue') : Head(queue) < queue'[i]
        BY <2>8, PopLeft DEF FlushPop, QueueInOrder
      <4>2. queue' \in Seq(Cmd)
        BY <2>8, PopLeft DEF FlushPop
      <4> QED
        BY <4>1, <4>2, Entries DEF InQueue
    <3>4. next' = next /\ mpc' = mpc /\ mcmd' = mcmd
      BY <2>8 DEF FlushPop
    <3> QED
      BY <3>1, <3>2, <3>3, <3>4 DEF QueueInOrder
  <2>9. CASE FlushPutBack
    <3>1. InQueue' = InQueue \cup {fcmd} /\ InFlush' = {} /\ InFlush = {fcmd}
          /\ InMqtt' = InMqtt
      BY <2>9, PushLeftEntries DEF FlushPutBack, TypeOK, InQueue, InFlush, InMqtt, Held
    <3>2. \A i, j \in 1..Len(queue') : i < j => queue'[i] < queue'[j]
      <4>1. fcmd \in Cmd /\ \A i \in 1..Len(queue) : fcmd < queue[i]
        BY <2>9, <3>1 DEF FlushPutBack, TypeOK, QueueInOrder
      <4>2. /\ Len(queue') = Len(queue) + 1
            /\ queue'[1] = fcmd
            /\ \A i \in 1..Len(queue) : queue'[i + 1] = queue[i]
        BY <2>9, <4>1, PushLeft DEF FlushPutBack
      <4>3. \A i \in 1..Len(queue') :
              i = 1 \/ (i - 1 \in 1..Len(queue) /\ queue'[i] = queue[i - 1])
        BY <4>2
      <4>4. \A i, j \in 1..Len(queue) : i < j => queue[i] < queue[j]
        BY DEF QueueInOrder
      <4> SUFFICES ASSUME NEW i \in 1..Len(queue'), NEW j \in 1..Len(queue'), i < j
                   PROVE  queue'[i] < queue'[j]
        OBVIOUS
      <4>5. j - 1 \in 1..Len(queue) /\ queue'[j] = queue[j - 1]
        BY <4>3
      <4>6. CASE i = 1
        BY <4>1, <4>2, <4>5, <4>6
      <4>7. CASE i # 1
        <5>1. i - 1 \in 1..Len(queue) /\ queue'[i] = queue[i - 1] /\ i - 1 < j - 1
          BY <4>3, <4>7
        <5> QED
          BY <4>4, <4>5, <5>1
      <4> QED
        BY <4>6, <4>7
    <3>3. next' = next /\ mpc' = mpc /\ mcmd' = mcmd
      BY <2>9 DEF FlushPutBack
    <3> QED
      BY <3>1, <3>2, <3>3 DEF QueueInOrder
  <2>10. CASE UNCHANGED vars
    BY <2>10 DEF vars, QueueInOrder, InQueue, InFlush, InMqtt, Held
  <2> QED
    BY <2>1, <2>2, <2>3, <2>4, <2>5, <2>6, <2>7, <2>8, <2>9, <2>10
       DEF Next, MqttThread, FlushThread
<1> QED
  BY <1>1, <1>2, TypeCorrect, PTL DEF Spec

\* Queued commands leave the deque in the order they were received: neither
\* a drop, an append nor a put-back by the other thread reorders them.
THEOREM OrderCorrect == Spec => []QueueInOrder
<1>1. OrderInv => QueueInOrder
  BY DEF OrderInv
<1> QED
  BY <1>1, OrderInvariant, PTL

\* No command is lost silently or settled twice: each one taken is held by a
\* thread or by the deque, or it was sent, dropped or failed, once and for all.
THEOREM ConservationCorrect == Spec => []Conservation
<1>1. Init => Conservation
  <2>1. ToSet(<< >>) = {} /\ 1 .. (1 - 1) = {}
    BY DEF ToSet
  <2> QED
    BY <2>1 DEF Init, Conservation, Open, Settled, InQueue, InFlush, InMqtt, Held
<1>2. TypeOK /\ QueueInOrder /\ QueueInOrder' /\ Conservation /\ [Next]_vars => Conservation'
  <2> SUFFICES ASSUME TypeOK, QueueInOrder, QueueInOrder', Conservation, [Next]_vars
               PROVE  Conservation'
    OBVIOUS
  <2>0. /\ queue \in Seq(Cmd) /\ next \in Nat
        /\ InQueue \subseteq Nat /\ InFlush \subseteq Nat /\ InMqtt \subseteq Nat
    <3>1. InQueue \subseteq Cmd /\ InFlush \subseteq Cmd /\ InMqtt \subseteq Cmd
      BY Entries DEF TypeOK, InQueue, InFlush, InMqtt, Held
    <3> QED
      BY <3>1, QueueAssumption DEF TypeOK, Cmd
  <2>00. InQueue \cap InFlush = {} /\ InQueue \cap InMqtt = {} /\ InFlush \cap InMqtt = {}
    BY <2>0 DEF QueueInOrder
  <2> USE DEF mqttSide, mochadSide, fate
  <2>1. CASE ReceiveCommand
    <3>1. InQueue' = InQueue /\ InFlush' = InFlush /\ InMqtt' = {next} /\ InMqtt = {}
      BY <2>1 DEF ReceiveCommand, InQueue, InFlush, InMqtt, Held
    <3>2. 1 .. next' - 1 = (1 .. next - 1) \cup {next} /\ next \notin 1 .. next - 1
      BY <2>0, <2>1 DEF ReceiveCommand, Cmd
    <3>3. UNCHANGED <<sent, dropped, failed>>
      BY <2>1 DEF ReceiveCommand
    <3> QED
      BY <3>1, <3>2, <3>3 DEF Conservation, Open, Settled
  <2>2. CASE CheckConnected \/ CheckDiagnostics \/ CheckLength
    BY <2>2 DEF CheckConnected, CheckDiagnostics, CheckLength,
                Conservation, Open, Settled, InQueue, InFlush, InMqtt, Held
  <2>3. CASE DirectSend
    BY <2>00, <2>3 DEF DirectSend, MqttDone,
                Conservation, Open, Settled, InQueue, InFlush, InMqtt, Held
  <2>4. CASE DirectSendFails \/ DropOldestFails
    BY <2>00, <2>4 DEF DirectSendFails, DropOldestFails, MqttDone,
                Conservation, Open, Settled, InQueue, InFlush, InMqtt, Held
  <2>5. CASE DropOldest
    <3>1. /\ InQueue = InQueue' \cup {Head(queue)}
          /\ InFlush' = InFlush /\ InMqtt' = InMqtt
      BY <2>0, <2>5, PopLeftEntries DEF DropOldest, InQueue, InFlush, InMqtt, Held
    <3>2. Head(queue) \notin InQueue'
      BY <2>0, <2>5, HeadIsGone DEF DropOldest, InQueue, QueueInOrder, Cmd
    <3>3. /\ dropped' = dropped \cup {Head(queue)}
          /\ UNCHANGED <<next, sent, failed>>
      BY <2>5 DEF DropOldest
    <3> QED
      BY <2>00, <3>1, <3>2, <3>3 DEF Conservation, Open, Settled
  <2>6. CASE AppendCommand
    <3>1. /\ InQueue' = InQueue \cup {mcmd} /\ InFlush' = InFlush
          /\ InMqtt' = {} /\ InMqtt = {mcmd}
      BY <2>0, <2>6, PushRightEntries
         DEF AppendCommand, MqttDone, TypeOK, InQueue, InFlush, InMqtt, Held
    <3>2. UNCHANGED <<next, sent, dropped, failed>>
      BY <2>6 DEF AppendCommand
    <3> QED
      BY <3>1, <3>2 DEF Conservation, Open, Settled
  <2>7. CASE MochadConnects \/ MochadDisconnects \/ ForgetDiagnostics \/ HealthLine
             \/ AnnounceDiscovery \/ AnnounceFails \/ PeerGone \/ Surroundings
    BY <2>7 DEF MochadConnects, MochadDisconnects, ForgetDiagnostics, HealthLine,
                AnnounceDiscovery, AnnounceFails, PeerGone, Surroundings,
                Conservation, Open, Settled, InQueue, InFlush, InMqtt, Held
  <2>8. CASE FlushStart \/ FlushLoop \/ FlushPopFails \/ FlushSendFails
    BY <2>8 DEF FlushStart, FlushLoop, FlushPopFails, FlushSendFails,
                Conservation, Open, Settled, InQueue, InFlush, InMqtt, Held
  <2>9. CASE FlushPop
    <3>1. /\ InQueue = InQueue' \cup {Head(queue)} /\ InFlush' = {Head(queue)}
          /\ InFlush = {} /\ InMqtt' = InMqtt
      BY <2>0, <2>9, PopLeftEntries DEF FlushPop, InQueue, InFlush, InMqtt, Held
    <3>2. UNCHANGED <<next, sent, dropped, failed>>
      BY <2>9 DEF FlushPop
    <3> QED
      BY <3>1, <3>2 DEF Conservation, Open, Settled
  <2>10. CASE FlushSend
    BY <2>00, <2>10 DEF FlushSend,
                Conservation, Open, Settled, InQueue, InFlush, InMqtt, Held
  <2>11. CASE FlushPutBack
    <3>1. /\ InQueue' = InQueue \cup {fcmd} /\ InFlush' = {} /\ InFlush = {fcmd}
          /\ InMqtt' = InMqtt
      BY <2>0, <2>11, PushLeftEntries DEF FlushPutBack, TypeOK, InQueue, InFlush, InMqtt, Held
    <3>2. UNCHANGED <<next, sent, dropped, failed>>
      BY <2>11 DEF FlushPutBack
    <3> QED
      BY <3>1, <3>2 DEF Conservation, Open, Settled
  <2>12. CASE UNCHANGED vars
    BY <2>12 DEF vars, Conservation, Open, Settled, InQueue, InFlush, InMqtt, Held
  <2> QED
    BY <2>1, <2>2, <2>3, <2>4, <2>5, <2>6, <2>7, <2>8, <2>9, <2>10, <2>11, <2>12
       DEF Next, MqttThread, FlushThread
<1> QED
  BY <1>1, <1>2, TypeCorrect, OrderCorrect, PTL DEF Spec

-----------------------------------------------------------------------------
(***************************************************************************)
(* The two threads of DeviceCommandQueue implement CommandDelivery: each   *)
(* of their steps is one of its steps, or changes nothing it can see.      *)
(***************************************************************************)
\* Two deques of the same length and the same entries are equal.
LEMMA SameEntries ==
    ASSUME NEW p \in Seq(Cmd), NEW q \in Seq(Cmd), Len(p) = Len(q),
           \A i \in 1..Len(p) : p[i] = q[i]
    PROVE  p = q
  OBVIOUS

\* popleft followed by appendleft of what was taken: nothing has changed.
LEMMA PopThenPush ==
    ASSUME NEW q \in Seq(Cmd), q # << >>
    PROVE  << Head(q) >> \o Tail(q) = q
<1>1. Head(q) \in Cmd /\ Tail(q) \in Seq(Cmd)
  BY PopLeft
<1> DEFINE r == << Head(q) >> \o Tail(q)
<1>2. r \in Seq(Cmd) /\ Len(r) = Len(q) /\ r[1] = q[1] /\ Len(q) \in Nat
  BY <1>1, PopLeft, PushLeft
<1>3. \A i \in 1..Len(Tail(q)) : r[i + 1] = q[i + 1]
  BY <1>1, PopLeft, PushLeft
<1>4. \A i \in 1..Len(r) : i = 1 \/ i - 1 \in 1..Len(Tail(q))
  BY <1>2, PopLeft
<1> HIDE DEF r
<1>5. \A i \in 1..Len(r) : r[i] = q[i]
  <2> SUFFICES ASSUME NEW i \in 1..Len(r)
               PROVE  r[i] = q[i]
    OBVIOUS
  <2>1. CASE i = 1
    BY <1>2, <2>1
  <2>2. CASE i - 1 \in 1..Len(Tail(q))
    <3>1. r[(i - 1) + 1] = q[(i - 1) + 1]
      BY <1>3, <2>2
    <3>2. (i - 1) + 1 = i
      BY <1>2
    <3> QED
      BY <3>1, <3>2
  <2> QED
    BY <1>4, <2>1, <2>2
<1>6. r = q
  BY <1>2, <1>5, SameEntries
<1> QED
  BY <1>6 DEF r

\* The oldest waiting command is the one the flush holds.
LEMMA PushThenPop ==
    ASSUME NEW q \in Seq(Cmd), NEW c \in Cmd
    PROVE  /\ << c >> \o q # << >>
           /\ Head(<< c >> \o q) = c
           /\ Tail(<< c >> \o q) = q
<1> DEFINE r == << c >> \o q
<1>1. r \in Seq(Cmd) /\ Len(r) = Len(q) + 1 /\ r[1] = c /\ Len(q) \in Nat
      /\ \A i \in 1..Len(q) : r[i + 1] = q[i]
  BY PushLeft
<1> HIDE DEF r
<1>2. r # << >>
  BY <1>1
<1>3. Head(r) = c /\ Tail(r) \in Seq(Cmd) /\ Len(Tail(r)) = Len(q)
      /\ \A i \in 1..Len(q) : Tail(r)[i] = q[i]
  BY <1>1, <1>2, PopLeft
<1>4. Tail(r) = q
  BY <1>3, SameEntries
<1> QED
  BY <1>2, <1>3, <1>4 DEF r

\* appendleft and append do not interfere.
LEMMA PushBothEnds ==
    ASSUME NEW q \in Seq(Cmd), NEW b \in Cmd, NEW c \in Cmd
    PROVE  << b >> \o Append(q, c) = Append(<< b >> \o q, c)
  OBVIOUS

\* Dropping the oldest of the deque discards the first command that waits, or
\* the second while the flush holds the first.
LEMMA DropFirst ==
    ASSUME NEW q \in Seq(Cmd), q # << >>
    PROVE  Tail(q) = [j \in 1 .. Len(q) - 1 |-> q[IF j < 1 THEN j ELSE j + 1]]
<1> DEFINE r == [j \in 1 .. Len(q) - 1 |-> q[IF j < 1 THEN j ELSE j + 1]]
<1>1. Len(q) \in Nat /\ Len(q) >= 1 /\ \A i \in 1..Len(q) : q[i] \in Cmd
  BY PopLeft
<1>2. \A j \in 1 .. Len(q) - 1 : r[j] = q[j + 1] /\ q[j + 1] \in Cmd
  BY <1>1
<1>3. r \in Seq(Cmd) /\ Len(r) = Len(q) - 1
  BY <1>1
<1> HIDE DEF r
<1>4. \A j \in 1 .. Len(r) : Tail(q)[j] = r[j]
  BY <1>2, <1>3, PopLeft
<1>5. Tail(q) = r
  BY <1>3, <1>4, PopLeft, SameEntries
<1> QED
  BY <1>5 DEF r

\* Dropping the head of the deque while a flush holds c removes the second of
\* the commands that wait.
LEMMA DropSecond ==
    ASSUME NEW q \in Seq(Cmd), q # << >>, NEW c \in Cmd
    PROVE  LET w == << c >> \o q
           IN  /\ w[2] = Head(q) /\ 2 <= Len(w)
               /\ << c >> \o Tail(q)
                    = [j \in 1 .. Len(w) - 1 |-> w[IF j < 2 THEN j ELSE j + 1]]
<1> DEFINE w == << c >> \o q
           r == [j \in 1 .. Len(w) - 1 |-> w[IF j < 2 THEN j ELSE j + 1]]
           s == << c >> \o Tail(q)
<1>1. /\ w \in Seq(Cmd) /\ Len(w) = Len(q) + 1 /\ Len(q) \in Nat /\ Len(q) >= 1
      /\ w[1] = c /\ \A i \in 1..Len(q) : w[i + 1] = q[i]
  BY PopLeft, PushLeft
<1>2. /\ s \in Seq(Cmd) /\ Len(s) = Len(q) /\ s[1] = c
      /\ \A i \in 1 .. Len(q) - 1 : s[i + 1] = q[i + 1]
  BY PopLeft, PushLeft
<1> HIDE DEF w, s
<1>3. r \in Seq(Cmd) /\ Len(r) = Len(q)
  <2>1. \A i \in 1..Len(w) : w[i] \in Cmd
    BY <1>1
  <2> QED
    BY <1>1, <2>1
<1>4. r[1] = c /\ \A i \in 1 .. Len(q) - 1 : r[i + 1] = q[i + 1]
  <2>1. r[1] = w[1]
    BY <1>1
  <2>2. \A i \in 1 .. Len(q) - 1 : r[i + 1] = w[(i + 1) + 1] /\ i + 1 \in 1..Len(q)
    BY <1>1
  <2> QED
    BY <1>1, <2>1, <2>2
<1> HIDE DEF r
<1>5. \A i \in 1..Len(r) : s[i] = r[i]
  <2> SUFFICES ASSUME NEW i \in 1..Len(r), i # 1
               PROVE  s[i] = r[i]
    BY <1>2, <1>4
  <2>1. i - 1 \in 1 .. Len(q) - 1 /\ (i - 1) + 1 = i
    BY <1>1, <1>3
  <2> QED
    BY <1>2, <1>4, <2>1
<1>6. s = r
  BY <1>2, <1>3, <1>5, SameEntries
<1>7. w[2] = Head(q)
  <2>1. w[1 + 1] = q[1]
    BY <1>1
  <2> QED
    BY <2>1, PopLeft
<1> QED
  BY <1>1, <1>6, <1>7 DEF w, r, s

-----------------------------------------------------------------------------
\* What a step needs to know of the state it starts from.
DeliveryInv == TypeOK /\ OrderInv /\ Conservation

\* The command in the hands of the MQTT thread is the last one taken; nothing
\* has become of it yet and it does not wait.
LEMMA InHandIsNew ==
    ASSUME DeliveryInv, mpc # "idle"
    PROVE  mcmd \in Cmd /\ Delivery!New(mcmd)
<1>1. /\ mcmd \in Cmd /\ mcmd = next - 1 /\ InMqtt = {mcmd}
      /\ queue \in Seq(Cmd) /\ Len(queue) \in Nat
  BY DEF DeliveryInv, TypeOK, OrderInv, InMqtt, Held
<1>2. mcmd \notin sent \cup dropped \cup failed
  BY <1>1 DEF DeliveryInv, Conservation, Open, Settled
<1>3. Cmd \subseteq Nat
  BY DEF Cmd
<1>4. \A i \in 1..Len(queue) : queue[i] # mcmd
  <2>1. \A i \in 1..Len(queue) : queue[i] \in Nat /\ queue[i] < mcmd
    BY <1>1, <1>3, Entries DEF DeliveryInv, OrderInv, QueueInOrder, InQueue
  <2> QED
    BY <1>1, <1>3, <2>1
<1>5. \A i \in 1..Len(Waiting) : Waiting[i] # mcmd
  <2>1. CASE Trying
    <3>1. /\ fcmd \in Cmd /\ InFlush = {fcmd} /\ Waiting = << fcmd >> \o queue
      BY <2>1 DEF Trying, Waiting, InFlush, Held, DeliveryInv, TypeOK
    <3>2. fcmd # mcmd
      BY <1>1, <1>3, <3>1 DEF DeliveryInv, OrderInv, QueueInOrder
    <3>3. /\ Len(Waiting) = Len(queue) + 1 /\ Waiting[1] = fcmd
          /\ \A i \in 1..Len(queue) : Waiting[i + 1] = queue[i]
      BY <1>1, <3>1, PushLeft
    <3> SUFFICES ASSUME NEW i \in 1..Len(Waiting), i # 1
                 PROVE  Waiting[i] # mcmd
      BY <3>2, <3>3
    <3>4. i - 1 \in 1..Len(queue) /\ (i - 1) + 1 = i
      BY <1>1, <3>3
    <3> QED
      BY <1>4, <3>3, <3>4
  <2>2. CASE ~Trying
    BY <1>4, <2>2 DEF Waiting
  <2> QED
    BY <2>1, <2>2
<1> QED
  BY <1>1, <1>2, <1>5 DEF Delivery!New

\* Every step of either thread is a step of CommandDelivery or a stutter.
LEMMA StepDelivers ==
    ASSUME DeliveryInv, [Next]_vars
    PROVE  [Delivery!Next]_(Delivery!vars)
<1>0. queue \in Seq(Cmd) /\ next \in Nat /\ next >= 1
  BY DEF DeliveryInv, TypeOK
<1> USE DEF mqttSide, mochadSide, fate
<1>1. CASE ReceiveCommand
  <2>1. (next - 1) + 1 \in Cmd /\ next' - 1 = (next - 1) + 1
    BY <1>0, <1>1 DEF ReceiveCommand
  <2>2. Waiting' = Waiting /\ Trying' = Trying /\ UNCHANGED <<sent, dropped, failed>>
    BY <1>1 DEF ReceiveCommand, Waiting, Trying
  <2> QED
    BY <2>1, <2>2 DEF Delivery!Next, Delivery!Take
<1>2. CASE CheckConnected \/ CheckDiagnostics \/ CheckLength
  BY <1>2 DEF CheckConnected, CheckDiagnostics, CheckLength, Waiting, Trying, Delivery!vars
<1>3. CASE DirectSend
  <2>1. mcmd \in Cmd /\ Delivery!New(mcmd)
    BY <1>3, InHandIsNew DEF DirectSend
  <2>2. Waiting' = Waiting /\ Trying' = Trying /\ UNCHANGED <<next, dropped, failed>>
    BY <1>3 DEF DirectSend, Waiting, Trying
  <2>3. sent' = sent \/ sent' = sent \cup {mcmd}
    BY <1>3 DEF DirectSend
  <2> QED
    BY <2>1, <2>2, <2>3 DEF Delivery!Next, Delivery!PassOn, Delivery!vars
<1>4. CASE DirectSendFails \/ DropOldestFails
  <2>1. mcmd \in Cmd /\ Delivery!New(mcmd)
    BY <1>4, InHandIsNew DEF DirectSendFails, DropOldestFails
  <2>2. /\ Waiting' = Waiting /\ Trying' = Trying /\ UNCHANGED <<next, sent, dropped>>
        /\ failed' = failed \cup {mcmd}
    BY <1>4 DEF DirectSendFails, DropOldestFails, Waiting, Trying
  <2> QED
    BY <2>1, <2>2 DEF Delivery!Next, Delivery!Refuse
<1>5. CASE DropOldest
  <2>1. /\ queue # << >> /\ queue' = Tail(queue) /\ dropped' = dropped \cup {Head(queue)}
        /\ Trying' = Trying /\ fcmd' = fcmd /\ UNCHANGED <<next, sent, failed>>
    BY <1>5 DEF DropOldest, Trying
  <2>2. CASE Trying
    <3>1. fcmd \in Cmd /\ Waiting = << fcmd >> \o queue /\ Waiting' = << fcmd >> \o Tail(queue)
      BY <2>1, <2>2 DEF Trying, Waiting, DeliveryInv, TypeOK
    <3>2. /\ Waiting[2] = Head(queue) /\ 2 <= Len(Waiting)
          /\ Waiting' = [j \in 1 .. Len(Waiting) - 1 |-> Waiting[IF j < 2 THEN j ELSE j + 1]]
      BY <1>0, <2>1, <3>1, DropSecond
    <3> QED
      BY <2>1, <2>2, <3>2 DEF Delivery!Next, Delivery!Discard
  <2>3. CASE ~Trying
    <3>1. Waiting = queue /\ Waiting' = Tail(queue)
      BY <2>1, <2>3 DEF Waiting
    <3>2. /\ Waiting[1] = Head(queue) /\ 1 <= Len(Waiting)
          /\ Waiting' = [j \in 1 .. Len(Waiting) - 1 |-> Waiting[IF j < 1 THEN j ELSE j + 1]]
      BY <1>0, <2>1, <3>1, DropFirst, PopLeft
    <3> QED
      BY <2>1, <2>3, <3>2 DEF Delivery!Next, Delivery!Discard
  <2> QED
    BY <2>2, <2>3
<1>6. CASE AppendCommand
  <2>1. mcmd \in Cmd /\ Delivery!New(mcmd)
    BY <1>6, InHandIsNew DEF AppendCommand
  <2>2. Trying' = Trying /\ fcmd' = fcmd /\ UNCHANGED <<next, sent, dropped, failed>>
    BY <1>6 DEF AppendCommand, Trying
  <2>3. Waiting' = Append(Waiting, mcmd)
    <3>1. CASE Trying
      <4>1. fcmd \in Cmd
        BY <3>1 DEF Trying, DeliveryInv, TypeOK
      <4> QED
        BY <1>0, <1>6, <2>1, <2>2, <3>1, <4>1, PushBothEnds DEF AppendCommand, Waiting
    <3>2. CASE ~Trying
      BY <1>6, <2>2, <3>2 DEF AppendCommand, Waiting
    <3> QED
      BY <3>1, <3>2
  <2> QED
    BY <2>1, <2>2, <2>3 DEF Delivery!Next, Delivery!Wait
<1>7. CASE MochadConnects \/ MochadDisconnects \/ ForgetDiagnostics \/ HealthLine
           \/ AnnounceDiscovery \/ AnnounceFails \/ PeerGone \/ Surroundings
  BY <1>7 DEF MochadConnects, MochadDisconnects, ForgetDiagnostics, HealthLine,
                AnnounceDiscovery, AnnounceFails, PeerGone, Surroundings,
              Waiting, Trying, Delivery!vars
<1>8. CASE FlushStart \/ FlushLoop \/ FlushPopFails \/ FlushSendFails
  BY <1>8 DEF FlushStart, FlushLoop, FlushPopFails, FlushSendFails,
              Waiting, Trying, Delivery!vars
<1>9. CASE FlushPop
  <2>1. /\ ~Trying /\ Trying' /\ queue # << >>
        /\ Waiting = queue /\ Waiting' = << Head(queue) >> \o Tail(queue)
        /\ UNCHANGED <<next, sent, dropped, failed>>
    BY <1>9 DEF FlushPop, Trying, Waiting
  <2>2. Waiting' = Waiting
    BY <1>0, <2>1, PopThenPush
  <2> QED
    BY <2>1, <2>2 DEF Delivery!Next, Delivery!Try
<1>10. CASE FlushSend
  <2>1. fcmd \in Cmd /\ Trying /\ Waiting = << fcmd >> \o queue
    BY <1>10 DEF FlushSend, Trying, Waiting, DeliveryInv, TypeOK
  <2>2. UNCHANGED <<next, queue, dropped, failed>>
    BY <1>10 DEF FlushSend
  <2>3. CASE fatt < Repeats[fcmd]
    BY <1>10, <2>2, <2>3 DEF FlushSend, Waiting, Trying, Delivery!vars
  <2>4. CASE ~(fatt < Repeats[fcmd])
    <3>1. ~Trying' /\ Waiting' = queue /\ sent' = sent \cup {fcmd}
      BY <1>10, <2>2, <2>4 DEF FlushSend, Trying, Waiting
    <3>2. Waiting # << >> /\ Head(Waiting) = fcmd /\ Tail(Waiting) = queue
      BY <1>0, <2>1, PushThenPop
    <3> QED
      BY <2>1, <2>2, <3>1, <3>2 DEF Delivery!Next, Delivery!Deliver
  <2> QED
    BY <2>3, <2>4
<1>11. CASE FlushPutBack
  <2>1. /\ Trying /\ ~Trying' /\ Waiting' = Waiting
        /\ UNCHANGED <<next, sent, dropped, failed>>
    BY <1>11 DEF FlushPutBack, Trying, Waiting
  <2> QED
    BY <2>1 DEF Delivery!Next, Delivery!GiveUp
<1>12. CASE UNCHANGED vars
  BY <1>12 DEF vars, Waiting, Trying, Delivery!vars
<1> QED
  BY <1>1, <1>2, <1>3, <1>4, <1>5, <1>6, <1>7, <1>8, <1>9, <1>10, <1>11, <1>12
     DEF Next, MqttThread, FlushThread

\* The bridge keeps the promise of CommandDelivery for every queue length,
\* every number of commands and all repeat counts.
THEOREM DeliveryCorrect == Spec => DeliversInOrder
<1>1. Init => Delivery!Init
  BY DEF Init, Delivery!Init, Waiting, Trying
<1>2. DeliveryInv /\ [Next]_vars => [Delivery!Next]_(Delivery!vars)
  BY StepDelivers
<1>3. Spec => []DeliveryInv
  BY TypeCorrect, OrderInvariant, ConservationCorrect, PTL DEF DeliveryInv
<1> QED
  BY <1>1, <1>2, <1>3, PTL DEF Spec, DeliversInOrder, Delivery!Spec
=============================================================================
