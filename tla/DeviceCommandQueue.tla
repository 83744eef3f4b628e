------------------------- MODULE DeviceCommandQueue -------------------------
(***************************************************************************)
(* bridge.py: the path of a device command from the MQTT thread to mochad, *)
(* and the deque that holds it while mochad is not ready.  No lock guards  *)
(* the deque: the MQTT thread checks, drops the oldest and appends; the    *)
(* mochad thread flushes it when a "health" line arrives.  Each deque      *)
(* operation is atomic (CPython), each check is a step of its own.         *)
(*                                                                         *)
(* Commands are numbered in the order the MQTT thread takes them; payloads *)
(* do not matter here.  The three fields of the diagnostics that are read  *)
(* by the check are replaced, and read, in one step.                       *)
(***************************************************************************)
EXTENDS Naturals, SequencesExt

CONSTANTS
    MAX_QUEUED_DEVICE_COMMANDS,
    MaxCommands,    \* bound: commands received in a behaviour
    Repeats,        \* [Cmd -> Nat \ {0}], command_repeats, 1 for DIM and BRIGHT
    HealthField     \* usb_connected, endpoints_ready, transfers_ready

Cmd == 1 .. MaxCommands
NoCmd == 0

ASSUME QueueAssumption ==
    /\ MAX_QUEUED_DEVICE_COMMANDS \in Nat \ {0}
    /\ MaxCommands \in Nat
    /\ Repeats \in [Cmd -> Nat \ {0}]

VARIABLES
    sock,       \* MochadClient._socket: "none", "up", or "broken" (the peer is gone)
    announces,  \* a health line publishes what it has to: MQTT is down, or the
                \* discovery message of every device can be built
    diag,       \* the readiness fields of _mochad_diagnostics
    queue,      \* _queued_device_commands
    next,       \* the number of the next command
    mpc, mcmd, matt,    \* MQTT thread: step, command in hand, attempt
    fpc, fcmd, fatt,    \* mochad thread: step, command being flushed, attempt
    sent,       \* commands whose last attempt was handed to a socket
    dropped,    \* commands dropped as the oldest of a full queue
    failed      \* commands whose direct send, or queueing, raised an exception

mqttSide   == <<mpc, mcmd, matt>>
mochadSide == <<fpc, fcmd, fatt>>
fate       == <<sent, dropped, failed>>
vars == <<sock, announces, diag, queue, next, mqttSide, mochadSide, fate>>

Unknown == "none"
Forgotten == [f \in HealthField |-> Unknown]

Init ==
    /\ sock = "none"
    /\ announces \in BOOLEAN
    /\ diag = Forgotten
    /\ queue = << >>
    /\ next = 1
    /\ mpc = "idle" /\ mcmd = NoCmd /\ matt = 1
    /\ fpc = "idle" /\ fcmd = NoCmd /\ fatt = 1
    /\ sent = {} /\ dropped = {} /\ failed = {}

\* _device_command_queue_reason, for the two values it reads.
NotReady == \E f \in HealthField : diag[f] = "false"
QueueReason == sock = "none" \/ NotReady

\* One send_line: it raises when there is no socket, or when the peer is
\* gone; in the second case the write may also be accepted and lost.
SendSucceeds == sock \in {"up", "broken"}
SendRaises   == sock \in {"none", "broken"}

(***************************************************************************)
(* The MQTT thread.                                                        *)
(***************************************************************************)
MqttDone == mpc' = "idle" /\ mcmd' = NoCmd /\ matt' = 1

ReceiveCommand ==
    /\ mpc = "idle"
    /\ next \in Cmd
    /\ mpc' = "checkConnected" /\ mcmd' = next
    /\ next' = next + 1
    /\ UNCHANGED <<sock, announces, diag, queue, matt, mochadSide, fate>>

CheckConnected ==
    /\ mpc = "checkConnected"
    /\ mpc' = IF sock = "none" THEN "checkLength" ELSE "checkDiagnostics"
    /\ UNCHANGED <<sock, announces, diag, queue, next, mcmd, matt, mochadSide, fate>>

CheckDiagnostics ==
    /\ mpc = "checkDiagnostics"
    /\ mpc' = IF NotReady THEN "checkLength" ELSE "send"
    /\ UNCHANGED <<sock, announces, diag, queue, next, mcmd, matt, mochadSide, fate>>

\* _send_device_command: the attempts, one send_line each.
DirectSend ==
    /\ mpc = "send"
    /\ SendSucceeds
    /\ IF matt < Repeats[mcmd]
       THEN matt' = matt + 1 /\ UNCHANGED <<mpc, mcmd, sent>>
       ELSE MqttDone /\ sent' = sent \cup {mcmd}
    /\ UNCHANGED <<sock, announces, diag, queue, next, mochadSide, dropped, failed>>

\* execute_actions catches the error and gives the command up.
DirectSendFails ==
    /\ mpc = "send"
    /\ SendRaises
    /\ MqttDone
    /\ failed' = failed \cup {mcmd}
    /\ UNCHANGED <<sock, announces, diag, queue, next, mochadSide, sent, dropped>>

\* Mutant: off by one.
MutCheckLength ==
    /\ mpc = "checkLength"
    /\ mpc' = IF Len(queue) > MAX_QUEUED_DEVICE_COMMANDS THEN "dropOldest" ELSE "append"
    /\ UNCHANGED <<sock, announces, diag, queue, next, mcmd, matt, mochadSide, fate>>

\* _queue_device_command: test the length, drop the oldest, append.
CheckLength ==
    /\ mpc = "checkLength"
    /\ mpc' = IF Len(queue) >= MAX_QUEUED_DEVICE_COMMANDS THEN "dropOldest" ELSE "append"
    /\ UNCHANGED <<sock, announces, diag, queue, next, mcmd, matt, mochadSide, fate>>

\* Mutant: the newest is dropped.
MutDropOldest ==
    /\ mpc = "dropOldest"
    /\ queue # << >>
    /\ dropped' = dropped \cup {Last(queue)}
    /\ queue' = Front(queue)
    /\ mpc' = "append"
    /\ UNCHANGED <<sock, announces, diag, next, mcmd, matt, mochadSide, sent, failed>>

DropOldest ==
    /\ mpc = "dropOldest"
    /\ queue # << >>
    /\ dropped' = dropped \cup {Head(queue)}
    /\ queue' = Tail(queue)
    /\ mpc' = "append"
    /\ UNCHANGED <<sock, announces, diag, next, mcmd, matt, mochadSide, sent, failed>>

\* popleft on a deque that a flush has emptied since the test: IndexError.
DropOldestFails ==
    /\ mpc = "dropOldest"
    /\ queue = << >>
    /\ MqttDone
    /\ failed' = failed \cup {mcmd}
    /\ UNCHANGED <<sock, announces, diag, queue, next, mochadSide, sent, dropped>>

AppendCommand ==
    /\ mpc = "append"
    /\ queue' = Append(queue, mcmd)
    /\ MqttDone
    /\ UNCHANGED <<sock, announces, diag, next, mochadSide, fate>>

(***************************************************************************)
(* The mochad thread: connection, diagnostics, flush.                      *)
(***************************************************************************)
MochadConnects ==
    /\ fpc = "idle" /\ sock = "none"
    /\ sock' = "up"
    /\ UNCHANGED <<announces, diag, queue, next, mqttSide, mochadSide, fate>>

\* The read loop ends and disconnect() clears the socket ...
MochadDisconnects ==
    /\ fpc = "idle" /\ sock = "broken"
    /\ sock' = "none" /\ fpc' = "disconnected"
    /\ UNCHANGED <<announces, diag, queue, next, mqttSide, fcmd, fatt, fate>>

\* ... then _on_mochad_disconnected forgets the readiness.
ForgetDiagnostics ==
    /\ fpc = "disconnected"
    /\ diag' = Forgotten
    /\ fpc' = "idle"
    /\ UNCHANGED <<sock, announces, queue, next, mqttSide, fcmd, fatt, fate>>

\* A "health" line, with any of the fields, is merged; lines that were
\* received before the peer went away are still read.  The status document
\* and discovery are published next, and only then is the queue flushed.
HealthLine ==
    /\ fpc = "idle" /\ sock # "none"
    /\ \E S \in SUBSET HealthField : \E report \in [S -> {"true", "false"}] :
         diag' = [f \in HealthField |-> IF f \in S THEN report[f] ELSE diag[f]]
    /\ fpc' = "announce"
    /\ UNCHANGED <<sock, announces, queue, next, mqttSide, fcmd, fatt, fate>>

AnnounceDiscovery ==
    /\ fpc = "announce"
    /\ announces
    /\ fpc' = "flush"
    /\ UNCHANGED <<sock, announces, diag, queue, next, mqttSide, fcmd, fatt, fate>>

\* _publish_current_discovery raises: the read loop logs the error and takes
\* the next line, so that this one flushes nothing.
AnnounceFails ==
    /\ fpc = "announce"
    /\ ~announces
    /\ fpc' = "idle"
    /\ UNCHANGED <<sock, announces, diag, queue, next, mqttSide, fcmd, fatt, fate>>

\* Mutant: a field that was never reported counts as not ready.
MutFlushStart ==
    /\ fpc = "flush"
    /\ fpc' = IF queue = << >> \/ sock = "none" \/ \E f \in HealthField : diag[f] # "true"
              THEN "idle" ELSE "loop"
    /\ UNCHANGED <<sock, announces, diag, queue, next, mqttSide, fcmd, fatt, fate>>

\* _flush_queued_device_commands: nothing queued, or still not ready.  Both
\* values of the reason are written by this thread alone: one step.
FlushStart ==
    /\ fpc = "flush"
    /\ fpc' = IF queue = << >> \/ QueueReason THEN "idle" ELSE "loop"
    /\ UNCHANGED <<sock, announces, diag, queue, next, mqttSide, fcmd, fatt, fate>>

FlushLoop ==
    /\ fpc = "loop"
    /\ fpc' = IF queue = << >> THEN "idle" ELSE "popleft"
    /\ UNCHANGED <<sock, announces, diag, queue, next, mqttSide, fcmd, fatt, fate>>

FlushPop ==
    /\ fpc = "popleft"
    /\ queue # << >>
    /\ fcmd' = Head(queue) /\ fatt' = 1
    /\ queue' = Tail(queue)
    /\ fpc' = "send"
    /\ UNCHANGED <<sock, announces, diag, next, mqttSide, fate>>

\* The MQTT thread dropped the last entry since the test: IndexError, caught
\* by the read loop, which ends the flush.
FlushPopFails ==
    /\ fpc = "popleft"
    /\ queue = << >>
    /\ fpc' = "idle"
    /\ UNCHANGED <<sock, announces, diag, queue, next, mqttSide, fcmd, fatt, fate>>

FlushSend ==
    /\ fpc = "send"
    /\ SendSucceeds
    /\ IF fatt < Repeats[fcmd]
       THEN fatt' = fatt + 1 /\ UNCHANGED <<fpc, fcmd, sent>>
       ELSE /\ fpc' = "loop" /\ fcmd' = NoCmd /\ fatt' = 1
            /\ sent' = sent \cup {fcmd}
    /\ UNCHANGED <<sock, announces, diag, queue, next, mqttSide, dropped, failed>>

FlushSendFails ==
    /\ fpc = "send"
    /\ SendRaises
    /\ fpc' = "putBack"
    /\ UNCHANGED <<sock, announces, diag, queue, next, mqttSide, fcmd, fatt, fate>>

\* Mutants: the command is cleared before it is put back, is not put back; the
\* flush goes on instead of returning.
PutBack(q, step) ==
    /\ fpc = "putBack"
    /\ queue' = q
    /\ fpc' = step /\ fcmd' = NoCmd /\ fatt' = 1
    /\ UNCHANGED <<sock, announces, diag, next, mqttSide, fate>>
MutPutBackCleared == PutBack(<< NoCmd >> \o queue, "idle")
MutPutBackLost    == PutBack(queue, "idle")
MutPutBackRetry   == PutBack(<< fcmd >> \o queue, "loop")

\* appendleft and return: the flush is paused until the next health line.
FlushPutBack ==
    /\ fpc = "putBack"
    /\ queue' = << fcmd >> \o queue
    /\ fpc' = "idle" /\ fcmd' = NoCmd /\ fatt' = 1
    /\ UNCHANGED <<sock, announces, diag, next, mqttSide, fate>>

(***************************************************************************)
(* The peer: mochad, its host or the network goes away.                    *)
(***************************************************************************)
PeerGone ==
    /\ sock = "up"
    /\ sock' = "broken"
    /\ UNCHANGED <<announces, diag, queue, next, mqttSide, mochadSide, fate>>

\* MQTT comes or goes, or a reload changes the devices.
Surroundings ==
    /\ announces' = ~announces
    /\ UNCHANGED <<sock, diag, queue, next, mqttSide, mochadSide, fate>>

MqttThread ==
    \/ CheckConnected \/ CheckDiagnostics
    \/ DirectSend \/ DirectSendFails
    \/ CheckLength \/ DropOldest \/ DropOldestFails \/ AppendCommand

FlushThread ==
    \/ AnnounceDiscovery \/ AnnounceFails
    \/ FlushStart \/ FlushLoop \/ FlushPop \/ FlushPopFails
    \/ FlushSend \/ FlushSendFails \/ FlushPutBack
    \/ ForgetDiagnostics \/ MochadDisconnects \/ MochadConnects

Next == ReceiveCommand \/ MqttThread \/ FlushThread \/ HealthLine \/ PeerGone \/ Surroundings

\* Both threads run: a handler that has started takes its next step, and the
\* mochad thread sees a dead peer and connects again.  Nothing makes users
\* send commands, mochad report its health, the peer disappear or MQTT return.
Spec == Init /\ [][Next]_vars /\ WF_vars(MqttThread) /\ WF_vars(FlushThread)

-----------------------------------------------------------------------------
Held(pcs, pc, c) == IF pc \in pcs THEN {c} ELSE {}
InQueue  == ToSet(queue)
InFlush  == Held({"send", "putBack"}, fpc, fcmd)
InMqtt   == Held({"checkConnected", "checkDiagnostics", "send", "checkLength",
                  "dropOldest", "append"}, mpc, mcmd)

\* The shape of the deque, of the two threads and of the ghost sets.
TypeOK ==
    /\ sock \in {"none", "up", "broken"}
    /\ announces \in BOOLEAN
    /\ diag \in [HealthField -> {Unknown, "true", "false"}]
    /\ queue \in Seq(Cmd)
    /\ next \in 1 .. MaxCommands + 1
    /\ mpc \in {"idle", "checkConnected", "checkDiagnostics", "send",
                "checkLength", "dropOldest", "append"}
    /\ mcmd \in (IF mpc = "idle" THEN {NoCmd} ELSE Cmd)
    /\ matt \in Nat \ {0}
    /\ fpc \in {"idle", "disconnected", "announce", "flush", "loop", "popleft", "send", "putBack"}
    /\ fcmd \in (IF fpc \in {"send", "putBack"} THEN Cmd ELSE {NoCmd})
    /\ fatt \in Nat \ {0}
    /\ sent \subseteq Cmd /\ dropped \subseteq Cmd /\ failed \subseteq Cmd

Open    == InMqtt \cup InQueue \cup InFlush
Settled == sent \cup dropped \cup failed

\* No command is lost silently, none is settled twice and none is sent after
\* it was dropped: every command taken is either still held by a thread or
\* the deque, or it has exactly one fate.  (QueueInOrder adds that the three
\* holders are disjoint.)
Conservation ==
    /\ Open \cup Settled = 1 .. next - 1
    /\ Open \cap Settled = {}
    /\ sent \cap dropped = {} /\ sent \cap failed = {} /\ dropped \cap failed = {}

\* Queued commands leave in the order they came: the deque is sorted, what
\* the flush holds is older than all of it, what the MQTT thread holds is
\* newer, also after a failed flush has put its command back.
QueueInOrder ==
    /\ \A i, j \in 1..Len(queue) : i < j => queue[i] < queue[j]
    /\ \A c \in InFlush, d \in InQueue : c < d
    /\ \A c \in InQueue, d \in InMqtt : c < d
    /\ \A c \in InFlush, d \in InMqtt : c < d

\* The deque is bounded: an append that races a put-back may exceed
\* MAX_QUEUED_DEVICE_COMMANDS, by one command and never by more.
QueueBound ==
    Len(queue) <= MAX_QUEUED_DEVICE_COMMANDS + 1

\* What waits, seen from outside: the command a flush has taken out of the
\* deque still waits until its last attempt succeeds.
Trying  == fpc \in {"send", "putBack"}
Waiting == IF Trying THEN << fcmd >> \o queue ELSE queue

Delivery == INSTANCE CommandDelivery
                WITH taken <- next - 1, waiting <- Waiting, trying <- Trying

\* The two threads implement CommandDelivery: queued commands are sent in the
\* order they came, none overtakes another or is sent twice, a put-back
\* changes nothing, and an overflow discards the oldest that is not being
\* sent, whatever the other thread does between the steps.
DeliversInOrder == Delivery!Spec

\* A flush that has started ends: sent out, paused or broken off, it gives
\* the mochad thread back to its read loop.
FlushEnds == (fpc = "flush") ~> (fpc = "idle")

\* If mochad stays connected and ready and keeps reporting its health, and
\* what a report publishes can be built, every queued command is eventually
\* out of the deque, whatever failed or raced before.
DrainedByHealth ==
    (<>[](sock = "up" /\ ~NotReady /\ announces) /\ []<>(fpc = "announce"))
        => <>[](queue = << >>)

\* bridge.py:600 logs "Queued device command until mochad USB is ready": once
\* mochad is connected and ready for good, nothing stays queued, not even a
\* command that was appended after the flush had found the deque empty.
QueuedUntilReady ==
    ([]announces /\ <>[](sock = "up" /\ ~NotReady)) => <>[](queue = << >>)
=============================================================================
