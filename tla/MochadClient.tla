---------------------------- MODULE MochadClient ----------------------------
(***************************************************************************)
(* mochad_client.MochadClient: the client thread that connects, reads and  *)
(* reconnects, and the main thread that starts and stops it.  stop() runs  *)
(* in a signal handler, that is inside the main thread, at any point of    *)
(* what that thread was doing.                                             *)
(*                                                                         *)
(* _socket_lock is a plain lock held for a few lines and never across a    *)
(* blocking call: a critical section is one step that needs the lock free. *)
(* Only the main thread's own one is split, because the signal handler may *)
(* run inside it.  Sockets are numbered; 0 is None.                        *)
(***************************************************************************)
EXTENDS Naturals

CONSTANTS
    MaxSockets,     \* bound: sockets created in a behaviour
    ConfigReload    \* a config file is set: the main loop also asks `connected`

ASSUME ClientAssumption == MaxSockets \in Nat /\ ConfigReload \in BOOLEAN

VARIABLES
    cpc,        \* the client thread's step; "unborn" before start()
    held,       \* connect(): the local sock, not yet installed
    socket,     \* _socket
    open,       \* the sockets that are open in the operating system
    made,       \* sockets created so far
    peer,       \* the peer of _socket is there
    running,    \* _running
    stopEvent,  \* _stop_event
    lock,       \* _socket_lock: "free", or "main" (see above)
    told,       \* what the callbacks last told the bridge: connected or not
    mpc         \* the main thread's step

None == 0
client == <<cpc, held, made, told>>
vars   == <<client, socket, open, peer, running, stopEvent, lock, mpc>>

Init ==
    /\ cpc = "unborn" /\ held = None /\ made = 0 /\ told = FALSE
    /\ socket = None /\ open = {} /\ peer = FALSE
    /\ running = FALSE /\ stopEvent = FALSE
    /\ lock = "free"
    /\ mpc = "new"

Go == running /\ ~stopEvent

(***************************************************************************)
(* The client thread: _run, connect, _read_loop, disconnect.               *)
(***************************************************************************)
\* Mutant: while True.
MutRunLoop ==
    /\ cpc = "run"
    /\ cpc' = "create"
    /\ UNCHANGED <<held, made, told, socket, open, peer, running, stopEvent, lock, mpc>>

RunLoop ==
    /\ cpc = "run"
    /\ cpc' = IF Go THEN "create" ELSE "exit"
    /\ UNCHANGED <<held, made, told, socket, open, peer, running, stopEvent, lock, mpc>>

CreateSocket ==
    /\ cpc = "create"
    /\ made < MaxSockets
    /\ made' = made + 1 /\ held' = made + 1
    /\ open' = open \cup {made + 1}
    /\ cpc' = "install"
    /\ UNCHANGED <<told, socket, peer, running, stopEvent, lock, mpc>>

\* Mutant: the exception ends the thread.
MutCreateFails ==
    /\ cpc = "create"
    /\ cpc' = "exit"
    /\ UNCHANGED <<held, made, told, socket, open, peer, running, stopEvent, lock, mpc>>

\* socket.create_connection raises: refused, unreachable or timed out.
CreateFails ==
    /\ cpc = "create"
    /\ cpc' = "disconnect"
    /\ UNCHANGED <<held, made, told, socket, open, peer, running, stopEvent, lock, mpc>>

\* Mutants: the event is not tested; connect() returns without closing, and
\* without letting go of, the socket.
Install(stopped, heldAfter, openAfter) ==
    /\ cpc = "install"
    /\ lock = "free"
    /\ IF stopped
       THEN /\ open' = openAfter /\ held' = heldAfter
            /\ cpc' = "testConnected"
            /\ UNCHANGED <<socket, peer>>
       ELSE /\ socket' = held /\ peer' = TRUE /\ held' = None
            /\ cpc' = "connectCallback"
            /\ UNCHANGED open
    /\ UNCHANGED <<made, told, running, stopEvent, lock, mpc>>
MutInstallAlways == Install(FALSE, None, open)
MutInstallLeaks  == Install(stopEvent, None, open)
MutInstallKeeps  == Install(stopEvent, held, open)

\* Under the lock: a stop that came meanwhile wins, the socket is closed.
InstallSocket ==
    /\ cpc = "install"
    /\ lock = "free"
    /\ held' = None
    /\ IF stopEvent
       THEN /\ open' = open \ {held}
            /\ cpc' = "testConnected"
            /\ UNCHANGED <<socket, peer>>
       ELSE /\ socket' = held /\ peer' = TRUE
            /\ cpc' = "connectCallback"
            /\ UNCHANGED open
    /\ UNCHANGED <<made, told, running, stopEvent, lock, mpc>>

ConnectCallback ==
    /\ cpc = "connectCallback"
    /\ told' = TRUE
    /\ cpc' = "testConnected"
    /\ UNCHANGED <<held, made, socket, open, peer, running, stopEvent, lock, mpc>>

TestConnected ==
    /\ cpc = "testConnected"
    /\ lock = "free"
    /\ cpc' = IF socket = None THEN "disconnect" ELSE "read"
    /\ UNCHANGED <<held, made, told, socket, open, peer, running, stopEvent, lock, mpc>>

\* The read loop ends: stopped, no socket, end of file, or an error.  A turn
\* that goes on (the receive timed out, or lines went to the line callback)
\* changes nothing here.
ReadEnds ==
    /\ cpc = "read"
    /\ lock = "free"
    /\ ~Go \/ socket = None \/ ~peer
    /\ cpc' = "disconnect"
    /\ UNCHANGED <<held, made, told, socket, open, peer, running, stopEvent, lock, mpc>>

CloseSocket ==
    /\ open' = open \ {socket}
    /\ socket' = None
    /\ peer' = FALSE

Disconnect ==
    /\ cpc = "disconnect"
    /\ lock = "free"
    /\ CloseSocket
    /\ cpc' = "disconnectCallback"
    /\ UNCHANGED <<held, made, told, running, stopEvent, lock, mpc>>

\* Mutant: the bridge is not told while the client is being stopped.
MutDisconnectCallback ==
    /\ cpc = "disconnectCallback"
    /\ told' = IF Go THEN FALSE ELSE told
    /\ cpc' = "wait"
    /\ UNCHANGED <<held, made, socket, open, peer, running, stopEvent, lock, mpc>>

\* Called after every turn of _run, also when the connect failed.
DisconnectCallback ==
    /\ cpc = "disconnectCallback"
    /\ told' = FALSE
    /\ cpc' = "wait"
    /\ UNCHANGED <<held, made, socket, open, peer, running, stopEvent, lock, mpc>>

\* The reconnect delay, cut short or skipped by a stop.
ReconnectDelay ==
    /\ cpc = "wait"
    /\ cpc' = "run"
    /\ UNCHANGED <<held, made, told, socket, open, peer, running, stopEvent, lock, mpc>>

ClientThread ==
    \/ RunLoop \/ CreateSocket \/ CreateFails \/ InstallSocket
    \/ ConnectCallback \/ TestConnected \/ ReadEnds
    \/ Disconnect \/ DisconnectCallback \/ ReconnectDelay

PeerGone ==
    /\ peer
    /\ peer' = FALSE
    /\ UNCHANGED <<client, socket, open, running, stopEvent, lock, mpc>>

(***************************************************************************)
(* The main thread: start(), `connected` from its loop, and stop().        *)
(***************************************************************************)
Start ==
    /\ mpc = "new"
    /\ running' = TRUE /\ stopEvent' = FALSE
    /\ cpc' = "run"
    /\ mpc' = "loop"
    /\ UNCHANGED <<held, made, told, socket, open, peer, lock>>

\* `connected`, asked for the status document of a config reload.
EnterConnected ==
    /\ ConfigReload
    /\ mpc = "loop" /\ lock = "free"
    /\ lock' = "main" /\ mpc' = "connected"
    /\ UNCHANGED <<client, socket, open, peer, running, stopEvent>>

LeaveConnected ==
    /\ mpc = "connected"
    /\ lock' = "free" /\ mpc' = "loop"
    /\ UNCHANGED <<client, socket, open, peer, running, stopEvent>>

\* The signal: whatever the main thread does, the handler runs now.
Signal ==
    /\ mpc \in {"loop", "connected"}
    /\ running' = FALSE
    /\ mpc' = "setEvent"
    /\ UNCHANGED <<client, socket, open, peer, stopEvent, lock>>

StopSetEvent ==
    /\ mpc = "setEvent"
    /\ stopEvent' = TRUE
    /\ mpc' = "stopDisconnect"
    /\ UNCHANGED <<client, socket, open, peer, running, lock>>

StopDisconnect ==
    /\ mpc = "stopDisconnect"
    /\ lock = "free"
    /\ CloseSocket
    /\ mpc' = "join"
    /\ UNCHANGED <<client, running, stopEvent, lock>>

\* join(timeout=2.0): the thread has ended, or the main thread gives up.
StopJoin ==
    /\ mpc = "join"
    /\ mpc' = IF cpc = "exit" THEN "stopped" ELSE "abandoned"
    /\ UNCHANGED <<client, socket, open, peer, running, stopEvent, lock>>

MainThread ==
    \/ Start \/ LeaveConnected \/ StopSetEvent \/ StopDisconnect \/ StopJoin

Next == ClientThread \/ MainThread \/ EnterConnected \/ Signal \/ PeerGone

\* Both threads run, and the client thread gets a lock that is free time and
\* again: between two questions the main loop sleeps.  Nothing makes the signal
\* come, the reload happen or the peer disappear; the client thread may fail to
\* connect for ever.
Fairness == SF_vars(ClientThread) /\ WF_vars(MainThread)
Spec == Init /\ [][Next]_vars /\ Fairness

-----------------------------------------------------------------------------
ClientStep == {"unborn", "run", "create", "install", "connectCallback", "testConnected",
               "read", "disconnect", "disconnectCallback", "wait", "exit"}
MainStep   == {"new", "loop", "connected", "setEvent", "stopDisconnect", "join",
               "stopped", "abandoned"}
AfterStop  == {"join", "stopped", "abandoned"}

\* The steps of the two threads and the values of their shared state.
TypeOK ==
    /\ cpc \in ClientStep
    /\ made \in 0 .. MaxSockets
    /\ held \in IF cpc = "install" THEN 1 .. made ELSE {None}
    /\ socket \in 0 .. made
    /\ open \subseteq 1 .. made
    /\ peer \in BOOLEAN /\ running \in BOOLEAN /\ stopEvent \in BOOLEAN
    /\ told \in BOOLEAN
    /\ lock \in {"free", "main"}
    /\ mpc \in MainStep
    /\ mpc = "new" <=> cpc = "unborn"

\* Once stop() has closed the socket none is ever installed again, although
\* the client thread may be anywhere in connect(): the check of the event
\* under the lock decides the race.
StoppedStaysDown ==
    mpc \in AfterStop => socket = None

\* No socket is leaked or closed under its owner: the open ones are the
\* installed one and the one connect() still holds.
NoSocketLeak ==
    open = {s \in {socket, held} : s # None}

\* The callbacks are paired: before the client tries to connect again, waits
\* or ends, the bridge has been told that mochad is disconnected.
CallbacksPaired ==
    told => cpc \in {"testConnected", "read", "disconnect", "disconnectCallback"}

\* stop() ends the client thread, whatever that was doing, unless the main
\* thread was caught inside `connected`.
StopEndsThread ==
    (mpc = "setEvent" /\ lock = "free") ~> (cpc = "exit" /\ mpc \in {"stopped", "abandoned"})

\* Until it is stopped the client never gives up: time and again it has a
\* socket or tries to create one.
KeepsRetrying == <>stopEvent \/ []<>(cpc = "create" \/ socket # None)

\* tests/test_lifecycle.py:135, test_mochad_stop_is_bounded_while_connect_is
\* _pending: stop() returns.
StopReturns == (mpc = "setEvent") ~> (mpc \in {"stopped", "abandoned"})
=============================================================================
