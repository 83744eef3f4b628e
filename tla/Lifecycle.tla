------------------------------ MODULE Lifecycle ------------------------------
(***************************************************************************)
(* bridge.run, start, run_forever and stop, the signal handler that runs   *)
(* stop() inside the main thread, and the health file, which three threads *)
(* write.  Devices play no part: the state manager is used with an empty   *)
(* set of addresses, for its two connection flags and the lists it returns *)
(* about them.  The MQTT and mochad threads are those of Bridge, with      *)
(* their connection steps joined and their health writes added; of what    *)
(* they publish only the two bridge topics are kept.                       *)
(***************************************************************************)
EXTENDS StateManager

VARIABLES
    mpc,        \* the main thread's step
    resume,     \* the step the signal handler returns to
    running,    \* Bridge._running
    stopping,   \* Bridge._stopping
    beat,       \* the status the main loop is about to write
    health,     \* the health file
    mqttAlive,  \* paho's network thread runs
    mqttUp,     \* MqttClient._connected, and a session
    stopEvent,  \* MochadClient._stop_event
    mphase,     \* the mochad thread: "unborn", "offline", "attempt",
                \* "installed" (a socket), "online", "exit"
    acts,       \* [Thread -> what its present handler has still to do]
    retained,   \* the broker: [online, status]
    abandoned,  \* ghost: stop() gave up waiting for the mochad thread
    raced,      \* ghost: an MQTT connect handler ran during the shutdown
    told        \* ghost: the shutdown document was published

Thread == {"mqtt", "mochad"}
mainVars == <<mpc, resume, running, stopping, beat>>
ghosts == <<abandoned, raced, told>>
linkVars == <<mqttAlive, mqttUp, stopEvent, mphase>>
vars == <<smVars, mainVars, health, linkVars, acts, retained, ghosts>>

LoopStep  == {"test", "connected", "beat", "write"}
StartStep == {"new", "connectMqtt", "startMochad", "firstHealth"}

Init ==
    /\ SMInit
    /\ mpc = "new" /\ resume = "new"
    /\ running = FALSE /\ stopping = FALSE
    /\ beat = NONE /\ health = NONE
    /\ mqttAlive = FALSE /\ mqttUp = FALSE
    /\ stopEvent = FALSE /\ mphase = "unborn"
    /\ acts = [t \in Thread |-> << >>]
    /\ retained = [online |-> FALSE, status |-> NONE]
    /\ abandoned = FALSE /\ raced = FALSE /\ told = FALSE

Idle(t) == acts[t] = << >>

\* MochadClient._socket_lock is with the main thread: it is inside `connected`,
\* or in a handler that interrupted it there.
LockHeld == mpc = "connected" \/ resume = "connected"

Alive == mpc # "ended"      \* daemon threads end with the process

Begin(t, actions) == Idle(t) /\ acts' = [acts EXCEPT ![t] = actions]

HealthNow == IF Available THEN "running" ELSE "starting"

\* _write_health: the status is computed first and written later.
WriteHealthNow == [type |-> "health_now"]
WriteHealth(s) == [type |-> "health", status |-> s]

(***************************************************************************)
(* One step of a handler of either thread.                                 *)
(***************************************************************************)
Retain(act) ==
    CASE act.type = "availability" -> [retained EXCEPT !.online = act.online]
      [] act.type = "status"       -> [retained EXCEPT !.status =
                                         IF act.mqtt /\ act.mochad THEN "online"
                                                                   ELSE "offline"]
      [] OTHER                     -> retained

Execute(t) ==
    LET act == Head(acts[t])
    IN  /\ Alive /\ ~Idle(t)
        /\ acts' = [acts EXCEPT ![t] =
                      IF act = WriteHealthNow
                      THEN << WriteHealth(HealthNow) >> \o Tail(@)
                      ELSE Tail(@)]
        /\ health' = IF act.type = "health" THEN act.status ELSE health
        /\ retained' = IF mqttUp THEN Retain(act) ELSE retained
        /\ UNCHANGED <<smVars, mainVars, linkVars, ghosts>>

(***************************************************************************)
(* The MQTT thread.                                                        *)
(***************************************************************************)
OnMqttConnected ==
    /\ Alive /\ mqttAlive /\ ~mqttUp
    /\ mqttUp' = TRUE
    /\ MqttConnected
    /\ Begin("mqtt", MqttConnectedActions \o << WriteHealthNow >>)
    /\ raced' = (raced \/ stopping)
    /\ UNCHANGED <<mainVars, health, mqttAlive, stopEvent, mphase, retained, abandoned, told>>

\* The session is lost: the broker publishes the will.
OnMqttDisconnected ==
    /\ Alive /\ mqttAlive /\ mqttUp /\ Idle("mqtt")
    /\ mqttUp' = FALSE
    /\ retained' = [retained EXCEPT !.online = FALSE]
    /\ IF stopping
       THEN UNCHANGED <<smVars, acts>>
       ELSE /\ MqttDisconnected
            /\ Begin("mqtt", MqttDisconnectedActions \o << WriteHealth("starting") >>)
    /\ UNCHANGED <<mainVars, health, mqttAlive, stopEvent, mphase, ghosts>>

(***************************************************************************)
(* The mochad thread; what happens under the lock is in MochadClient.      *)
(***************************************************************************)
MochadStep(from, to) ==
    /\ Alive /\ mphase = from /\ Idle("mochad") /\ ~stopEvent
    /\ mphase' = to
    /\ UNCHANGED <<smVars, mainVars, health, mqttAlive, mqttUp, stopEvent, acts, retained, ghosts>>

\* The loop's test passes, and an attempt starts; the socket is kept unless
\* stop() came first.
MochadAttempts == MochadStep("offline", "attempt")
MochadInstalls == ~LockHeld /\ MochadStep("attempt", "installed")

\* The callback follows, also when stop() has come since.
OnMochadConnected ==
    /\ Alive /\ mphase = "installed"
    /\ mphase' = "online"
    /\ MochadConnected
    /\ Begin("mochad", MochadConnectedActions \o << WriteHealthNow >>)
    /\ UNCHANGED <<mainVars, health, mqttAlive, mqttUp, stopEvent, retained, ghosts>>

\* After a connection, and after each attempt that failed or was called off;
\* disconnect() has taken the lock before.
OnMochadDisconnected ==
    /\ Alive /\ mphase \in {"online", "attempt"} /\ ~LockHeld
    /\ mphase' = "offline"
    /\ MochadDisconnected
    /\ Begin("mochad", MochadDisconnectedActions \o << WriteHealth("starting") >>)
    /\ UNCHANGED <<mainVars, health, mqttAlive, mqttUp, stopEvent, retained, ghosts>>

MochadExits ==
    /\ Alive /\ mphase = "offline" /\ Idle("mochad") /\ stopEvent
    /\ mphase' = "exit"
    /\ UNCHANGED <<smVars, mainVars, health, mqttAlive, mqttUp, stopEvent, acts, retained, ghosts>>

(***************************************************************************)
(* The main thread: start() and run_forever().                             *)
(***************************************************************************)
StartRunning ==
    /\ mpc = "new"
    /\ running' = TRUE
    /\ mpc' = "connectMqtt"
    /\ UNCHANGED <<smVars, resume, stopping, beat, health, linkVars, acts, retained, ghosts>>

StartMqtt ==
    /\ mpc = "connectMqtt"
    /\ mqttAlive' = TRUE
    /\ mpc' = "startMochad"
    /\ UNCHANGED <<smVars, resume, running, stopping, beat, health, mqttUp, stopEvent, mphase,
                   acts, retained, ghosts>>

StartMochad ==
    /\ mpc = "startMochad"
    /\ stopEvent' = FALSE
    /\ mphase' = "offline"
    /\ mpc' = "firstHealth"
    /\ UNCHANGED <<smVars, resume, running, stopping, beat, health, mqttAlive, mqttUp,
                   acts, retained, ghosts>>

StartHealth ==
    /\ mpc = "firstHealth"
    /\ health' = "starting"
    /\ mpc' = "test"
    /\ UNCHANGED <<smVars, resume, running, stopping, beat, linkVars, acts, retained, ghosts>>

\* The process ends with the loop; if it leaves a session behind, the broker
\* publishes the will.
RunForever ==
    /\ mpc = "test"
    /\ mpc' = IF running THEN "beat" ELSE "ended"
    /\ retained' = IF running \/ ~mqttUp THEN retained ELSE [retained EXCEPT !.online = FALSE]
    /\ UNCHANGED <<smVars, resume, running, stopping, beat, health, linkVars, acts, ghosts>>

\* A config reload publishes the status document, for which it asks whether
\* mochad is connected ...
ReloadStatus ==
    /\ mpc = "test" /\ running /\ mqttUp
    /\ mpc' = "connected"
    /\ UNCHANGED <<smVars, resume, running, stopping, beat, health, linkVars, acts, retained, ghosts>>

\* ... releases the lock and publishes.
LeaveConnected ==
    /\ mpc = "connected"
    /\ mpc' = "beat"
    /\ retained' = IF mqttUp THEN Retain(PublishStatus(mqttConn, mochadConn)) ELSE retained
    /\ UNCHANGED <<smVars, resume, running, stopping, beat, health, linkVars, acts, ghosts>>

\* Mutant: the heartbeat always says "running".
MutReadAvailability ==
    /\ mpc = "beat"
    /\ beat' = "running"
    /\ mpc' = "write"
    /\ UNCHANGED <<smVars, resume, running, stopping, health, linkVars, acts, retained, ghosts>>

ReadAvailability ==
    /\ mpc = "beat"
    /\ beat' = HealthNow
    /\ mpc' = "write"
    /\ UNCHANGED <<smVars, resume, running, stopping, health, linkVars, acts, retained, ghosts>>

WriteHeartbeat ==
    /\ mpc = "write"
    /\ health' = beat /\ beat' = NONE
    /\ mpc' = "test"
    /\ UNCHANGED <<smVars, resume, running, stopping, linkVars, acts, retained, ghosts>>

(***************************************************************************)
(* The signal (one in a behaviour), and stop() in its handler.             *)
(***************************************************************************)
\* Mutant: stop() does not end the loop.
MutSignal ==
    /\ mpc \in LoopStep \cup StartStep
    /\ ~stopping
    /\ resume' = mpc
    /\ stopping' = TRUE
    /\ mpc' = "stopMochad"
    /\ UNCHANGED <<smVars, running, beat, health, linkVars, acts, retained, ghosts>>

Signal ==
    /\ mpc \in LoopStep \cup StartStep
    /\ ~stopping
    /\ resume' = mpc
    /\ running' = FALSE /\ stopping' = TRUE
    /\ mpc' = "stopMochad"
    /\ UNCHANGED <<smVars, beat, health, linkVars, acts, retained, ghosts>>

StopMochad ==
    /\ mpc = "stopMochad"
    /\ stopEvent' = TRUE
    /\ mpc' = "stopDisconnect"
    /\ UNCHANGED <<smVars, resume, running, stopping, beat, health, mqttAlive, mqttUp, mphase,
                   acts, retained, ghosts>>

\* disconnect() waits for the lock, for ever if its own thread holds it.
StopDisconnect ==
    /\ mpc = "stopDisconnect"
    /\ ~LockHeld
    /\ mpc' = "join"
    /\ UNCHANGED <<smVars, resume, running, stopping, beat, health, linkVars, acts, retained, ghosts>>

\* Mutant: the thread is not waited for.
MutJoinMochad ==
    /\ mpc = "join"
    /\ mpc' = "shutdownStatus"
    /\ UNCHANGED <<smVars, resume, running, stopping, beat, health, linkVars, acts, retained,
                   ghosts>>

\* join(timeout=2.0), if there is a thread.
JoinMochad ==
    /\ mpc = "join"
    /\ abandoned' = (mphase \notin {"unborn", "exit"})
    /\ mpc' = "shutdownStatus"
    /\ UNCHANGED <<smVars, resume, running, stopping, beat, health, linkVars, acts, retained,
                   raced, told>>

\* _publish_shutdown_status: two retained publishes that are waited for.
ShutdownStatus ==
    /\ mpc = "shutdownStatus"
    /\ retained' = IF mqttUp THEN [retained EXCEPT !.status = "shutdown"] ELSE retained
    /\ mpc' = IF mqttUp THEN "shutdownAvailability" ELSE "disconnectMqtt"
    /\ told' = mqttUp
    /\ raced' = (raced \/ ~Idle("mqtt"))
    /\ UNCHANGED <<smVars, resume, running, stopping, beat, health, linkVars, acts, abandoned>>

ShutdownAvailability ==
    /\ mpc = "shutdownAvailability"
    /\ retained' = IF mqttUp THEN [retained EXCEPT !.online = FALSE] ELSE retained
    /\ mpc' = "disconnectMqtt"
    /\ UNCHANGED <<smVars, resume, running, stopping, beat, health, linkVars, acts, ghosts>>

\* Mutant: the session is left open when the network loop is stopped.
MutDisconnectMqtt ==
    /\ mpc = "disconnectMqtt"
    /\ mqttAlive' = FALSE
    /\ mpc' = "loopStop"
    /\ UNCHANGED <<smVars, resume, running, stopping, beat, health, mqttUp, stopEvent, mphase,
                   acts, retained, ghosts>>

\* disconnect() ends the session cleanly: no will, and nothing after it.
DisconnectMqtt ==
    /\ mpc = "disconnectMqtt"
    /\ mqttUp' = FALSE /\ mqttAlive' = FALSE
    /\ mpc' = "loopStop"
    /\ UNCHANGED <<smVars, resume, running, stopping, beat, health, stopEvent, mphase, acts,
                   retained, ghosts>>

\* Mutant: the network thread is not waited for.
MutLoopStop ==
    /\ mpc = "loopStop"
    /\ mpc' = "stopHealth"
    /\ UNCHANGED <<smVars, resume, running, stopping, beat, health, linkVars, acts, retained, ghosts>>

\* loop_stop() waits for the network thread, which finishes its handler.
LoopStop ==
    /\ mpc = "loopStop"
    /\ Idle("mqtt")
    /\ mpc' = "stopHealth"
    /\ UNCHANGED <<smVars, resume, running, stopping, beat, health, linkVars, acts, retained, ghosts>>

\* The last line of stop(); then the main thread goes on where it was.
StopHealth ==
    /\ mpc = "stopHealth"
    /\ health' = "stopped"
    /\ mpc' = resume
    /\ UNCHANGED <<smVars, resume, running, stopping, beat, linkVars, acts, retained, ghosts>>

Main ==
    \/ StartRunning \/ StartMqtt \/ StartMochad \/ StartHealth
    \/ RunForever \/ LeaveConnected \/ ReadAvailability \/ WriteHeartbeat
    \/ StopMochad \/ StopDisconnect \/ JoinMochad \/ ShutdownStatus \/ ShutdownAvailability
    \/ DisconnectMqtt \/ LoopStop \/ StopHealth

Mqtt   == Execute("mqtt")
Mochad == Execute("mochad") \/ OnMochadConnected \/ MochadExits

Environment ==
    \/ Signal \/ ReloadStatus \/ OnMqttConnected \/ OnMqttDisconnected
    \/ MochadAttempts \/ MochadInstalls \/ OnMochadDisconnected

Ended == mpc = "ended" /\ UNCHANGED vars

Next == Main \/ Mqtt \/ Mochad \/ Environment \/ Ended

\* The three threads run; connections come and go, and reloads happen, as they
\* please.
Spec == Init /\ [][Next]_vars /\ WF_vars(Main) /\ WF_vars(Mqtt) /\ WF_vars(Mochad)

-----------------------------------------------------------------------------
\* healthcheck.main, for a fresh file.
Healthy == health \in {"starting", "running"}

\* The steps, the health file and what the broker retains.
TypeOK ==
    /\ mpc \in LoopStep \cup StartStep \cup
               {"stopMochad", "stopDisconnect", "join", "shutdownStatus", "shutdownAvailability",
                "disconnectMqtt", "loopStop", "stopHealth", "ended"}
    /\ health \in {NONE, "starting", "running", "stopped"}
    /\ retained \in [online : BOOLEAN, status : {NONE, "online", "offline", "shutdown"}]
    /\ mqttUp => mqttAlive
    /\ mphase \in {"unborn", "offline", "attempt", "installed", "online", "exit"}

\* A stop of the running bridge leaves "offline" retained, by its own publish
\* or by the will, and the "shutdown" document if it was published: the mochad
\* thread is joined before, so its own "offline" document cannot come last.
\* Excepted are a mochad thread that outlives the join and a connection to the
\* broker that is made while stop() runs.
CleanShutdown ==
    mpc = "ended" /\ resume \in LoopStep /\ ~abandoned /\ ~raced
        => ~retained.online /\ (told => retained.status = "shutdown")

\* A signal ends the process, during start() as well as in the loop: stop()
\* gets through although both other threads are at work, and a start() that
\* goes on after it runs into a loop that has nothing to do.  Excepted are the
\* signal that comes before start() sets _running, which undoes it, and the
\* one that comes inside `connected`, whose lock stop() then waits for on the
\* thread that holds it (the run MochadClient_signal shows that one).
StopEndsRun ==
    (mpc = "stopMochad" /\ resume \notin {"new", "connected"}) ~> (mpc = "ended")

\* Without a signal the health file follows the availability: handlers that
\* write late are corrected by the heartbeat.
HealthFollows ==
    /\ (<>[](Available /\ ~stopping)) => <>[](health = "running")
    /\ (<>[](~Available /\ ~stopping)) => <>[](health = "starting")

\* tests/test_healthcheck.py:22, test_stopped_bridge_heartbeat_is_unhealthy:
\* the file of a bridge that was stopped is not healthy: no callback writes
\* after stop() did, because both threads have been waited for.  Excepted are
\* a mochad thread that outlives the join and a signal that comes between the
\* loop's test and its write, which then overwrites "stopped".
StoppedIsUnhealthy == mpc = "ended" /\ resume = "test" /\ ~abandoned => ~Healthy
=============================================================================
