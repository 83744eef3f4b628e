---------------------------- MODULE DeviceSetup ----------------------------
(***************************************************************************)
(* From the configuration to the entities a user works with: the start of  *)
(* the process, the generated configuration file, the reload of an edited  *)
(* one, and the discovery, states and commands that follow from it.        *)
(*                                                                         *)
(* Three threads work on Bridge.devices: the main thread, which reloads,   *)
(* and the callbacks of the two transports.  Each builds its discovery     *)
(* messages in one step and publishes them one by one; the user edits the  *)
(* file, and the session is lost, between any two steps.  Of StateManager  *)
(* the parts that concern discovery and recorded states are kept: it has   *)
(* its own copy of the devices, made at the start.  Discovery cleanup is   *)
(* off, as by default.                                                     *)
(***************************************************************************)
EXTENDS Topics, FiniteSets, TLC

CONSTANTS
    Env,                \* X10_USE_FRIENDLY_NAMES and X10_DEVICES
    Document,           \* what the user may write into the file
    HouseFiltered,      \* the addresses that X10_HOUSECODES shuts out
    OptimisticUpdates,  \* config.optimistic_updates
    Command,            \* bound: the commands that mochad reports and users send
    MaxEdits,           \* bound: edits and restarts
    MaxBusy             \* bound: callbacks in progress at the same time

ASSUME SetupAssumption ==
    /\ OptimisticUpdates \in BOOLEAN
    /\ Env.friendly \in BOOLEAN
    /\ HouseFiltered \subseteq Address
    /\ Command \subseteq STATE_COMMANDS
    /\ MaxBusy \in Nat \ {0}

VARIABLES
    file, version,  \* the file and its signature; version 0: there is none
    clock,          \* the last signature given, and restarts
    pc,             \* the main thread's step
    loaded,         \* what load_config returned, until it is applied
    seen,           \* the signature that was read before
    friendly,       \* config.use_friendly_names
    devices,        \* Bridge.devices
    signature,      \* _config_file_signature
    smDevices,      \* StateManager._device_configs
    known,          \* the keys of StateManager._devices
    discovered,     \* those with the discovered flag
    current,        \* [Address -> recorded state or NONE]
    session,        \* "none", "alive", or "lost" and not yet noticed
    jobs,           \* [Handler -> the actions left of its list]
    out,            \* [Thread -> discovery messages built, not yet published]
    retained,       \* the discovery messages the broker retains
    states,         \* [Address -> the retained state or NONE]
    generated,      \* ghost: the file is the one the bridge wrote
    missed,         \* ghost: an edit came between load_config and the signature
    overtaken,      \* ghost: threads whose messages were built before the reload
    behind          \* ghost: addresses whose last announcement was lost or overtaken

disk    == <<file, version, clock>>
main    == <<pc, loaded, seen>>
runtime == <<friendly, devices, signature>>
manager == <<smDevices, known, discovered, current>>
work    == <<jobs, out>>
broker  == <<retained, states>>
ghosts  == <<generated, missed, overtaken, behind>>
vars    == <<disk, main, runtime, manager, session, work, broker, ghosts>>

Handler == {"mqtt", "mochad"}       \* the threads of the callbacks
Thread  == Handler \cup {"main"}

NoConfig == [use_friendly_names |-> FALSE, devices |-> << >>]
Allowed(a) == a \notin HouseFiltered
\* Mutant: the filter is left to StateManager.
MutAllowedDevices(config) == config.devices

AllowedDevices(config) == [a \in {x \in DOMAIN config.devices : Allowed(x)} |-> config.devices[a]]

Init ==
    /\ pc = "load" /\ loaded = NoConfig /\ seen = 0
    /\ friendly = FALSE /\ devices = << >> /\ signature = 0
    /\ smDevices = << >> /\ known = {} /\ discovered = {}
    /\ current = [a \in Address |-> NONE]
    /\ session = "none"
    /\ jobs = [t \in Handler |-> {}] /\ out = [t \in Thread |-> {}]
    /\ missed = FALSE /\ overtaken = {} /\ behind = {}
    /\ \/ file = EmptyDocument /\ version = 0 /\ clock = 0
       \/ file \in Document /\ version = 1 /\ clock = 1
    /\ retained = {} /\ states = [a \in Address |-> NONE]
    /\ generated = FALSE

up      == session # "none"       \* MqttClient.connected
Started == pc \in {"check", "reload", "apply", "build", "announce"}
Idle(t) == jobs[t] = {} /\ out[t] = {}

\* A callback of thread t may begin: its thread does one at a time.
MayBegin(t) == Started /\ Idle(t) /\ Cardinality({u \in Handler : ~Idle(u)}) < MaxBusy

(***************************************************************************)
(* Discovery, as every thread publishes it.                                *)
(***************************************************************************)
\* Bridge._device_config makes up a device for an address that has none.
WithDevices(devs, S) ==
    [a \in DOMAIN devs \cup S |-> IF a \in DOMAIN devs THEN devs[a] ELSE UnconfiguredDevice(a)]

\* Mutant: the copy of the state manager is announced.
MutMessages(devs, S) ==
    {DiscoveryMessage(a, IF a \in DOMAIN smDevices THEN smDevices[a] ELSE devs[a]) : a \in S}

Messages(devs, S) == {DiscoveryMessage(a, devs[a]) : a \in S}
AllDiscoverable(devs) == \A a \in DOMAIN devs : Discoverable(a, devs[a])

\* The broker keeps the last message of a topic.
Retain(m) == {x \in retained : x.topic # m.topic} \cup {m}

\* Thread t has built its messages.
Build(t, M) ==
    /\ out' = [out EXCEPT ![t] = M]
    /\ overtaken' = overtaken \ {t}

\* publish_discovery of one message, in the order of a dictionary, which is
\* left open.  With QoS 0 a message in a lost session is gone.
PublishDiscovery(t, m) ==
    /\ m \in out[t]
    /\ out' = [out EXCEPT ![t] = @ \ {m}]
    /\ retained' = IF session = "alive" THEN Retain(m) ELSE retained
    /\ behind' = IF session = "alive" /\ t \notin overtaken THEN behind \ {m.address}
                                                            ELSE behind \cup {m.address}
    /\ overtaken' = IF out'[t] = {} THEN overtaken \ {t} ELSE overtaken
    /\ UNCHANGED <<disk, main, runtime, manager, session, jobs, states, generated, missed>>

\* StateManager._device_config.
ManagerConfig(a) == IF a \in DOMAIN smDevices THEN smDevices[a].config
                                              ELSE DefaultConfig("SWITCH")

(***************************************************************************)
(* The main thread: main(), Bridge.__init__, run_forever.                  *)
(***************************************************************************)
Load ==
    /\ pc = "load"
    /\ IF Loads(file, Env)
       THEN pc' = "create" /\ loaded' = LoadConfig(file, Env)
       ELSE pc' = "dead" /\ UNCHANGED loaded
    /\ seen' = version
    /\ UNCHANGED <<disk, runtime, manager, session, work, broker, ghosts>>

\* Bridge.__init__ reads the signature after the file was loaded.
CreateBridge ==
    /\ pc = "create"
    /\ signature' = version
    /\ missed' = (version # seen)
    /\ friendly' = loaded.use_friendly_names
    /\ devices' = AllowedDevices(loaded)
    /\ smDevices' = devices' /\ known' = DOMAIN devices'
    /\ pc' = IF version = 0 THEN "write" ELSE "check"
    /\ UNCHANGED <<disk, loaded, seen, discovered, current, session, work, broker, generated,
                   overtaken, behind>>

\* create_config_file_if_missing, after its test that there is no file: what
\* the user may have written since is replaced.
WriteConfigFile ==
    /\ pc = "write"
    /\ file' = ConfigFilePayload(loaded)
    /\ version' = clock + 1 /\ clock' = clock + 1
    /\ generated' = TRUE
    /\ pc' = "check"
    /\ UNCHANGED <<loaded, seen, runtime, manager, session, work, broker, missed, overtaken,
                   behind>>

\* The error is logged and the bridge goes on without a file.
WriteFails ==
    /\ pc = "write"
    /\ pc' = "check"
    /\ UNCHANGED <<disk, loaded, seen, runtime, manager, session, work, broker, ghosts>>

\* _check_config_file_reload.
CheckSignature ==
    /\ pc = "check"
    /\ version # signature
    /\ seen' = version
    /\ pc' = "reload"
    /\ UNCHANGED <<disk, loaded, runtime, manager, session, work, broker, ghosts>>

\* Mutant: the signature is read again after the file was loaded.
MutNewSignature == version

\* The signature that a reload leaves is the one it looked at first.
NewSignature == seen

\* _check_config_file_reload returns, with or without the new signature.
EndReload(newSignature) ==
    /\ pc' = "check" /\ loaded' = NoConfig /\ seen' = 0
    /\ signature' = newSignature
    /\ missed' = (missed /\ newSignature = signature)

\* Mutant: no error is caught.
MutReload ==
    /\ pc = "reload"
    /\ IF Loads(file, Env)
       THEN pc' = "apply" /\ loaded' = LoadConfig(file, Env)
       ELSE pc' = "dead" /\ UNCHANGED loaded
    /\ UNCHANGED <<disk, seen, runtime, manager, session, work, broker, ghosts>>

\* After a ConfigError the old signature stays, and the file is tried again.
\* A UnicodeDecodeError is not caught and ends the process.
Reload ==
    /\ pc = "reload"
    /\ \/ /\ Loads(file, Env)
          /\ pc' = "apply" /\ loaded' = LoadConfig(file, Env)
          /\ UNCHANGED <<seen, signature, missed>>
       \/ /\ ~Loads(file, Env) /\ file.utf8
          /\ EndReload(signature)
       \/ /\ ~file.utf8
          /\ pc' = "dead"
          /\ UNCHANGED <<loaded, seen, signature, missed>>
    /\ UNCHANGED <<disk, friendly, devices, manager, session, work, broker, generated, overtaken,
                   behind>>

\* _apply_runtime_config, up to the assignment of self.devices.  The messages
\* that other threads have built from the old devices are still on their way.
ApplyRuntimeConfig ==
    /\ pc = "apply"
    /\ LET new == AllowedDevices(loaded)
       IN  IF new # devices \/ loaded.use_friendly_names # friendly
           THEN /\ devices' = new
                /\ friendly' = loaded.use_friendly_names
                /\ overtaken' = {t \in Handler : out[t] # {}}
                /\ behind' = behind \cap DOMAIN new
                /\ pc' = "build"
                /\ UNCHANGED <<loaded, seen, signature, missed>>
           ELSE /\ EndReload(NewSignature)
                /\ UNCHANGED <<devices, friendly, overtaken, behind>>
    /\ UNCHANGED <<disk, manager, session, work, broker, generated>>

\* _publish_current_discovery of a reload.  A DiscoveryError ends the process:
\* nobody catches it between here and main().
BuildDiscovery ==
    /\ pc = "build" /\ up
    /\ IF AllDiscoverable(devices)
       THEN pc' = "announce" /\ Build("main", Messages(devices, DOMAIN devices))
       ELSE pc' = "dead" /\ UNCHANGED <<out, overtaken>>
    /\ UNCHANGED <<disk, loaded, seen, runtime, manager, session, jobs, broker, generated, missed,
                   behind>>

\* While MQTT is down nothing is published.
SkipDiscovery ==
    /\ pc = "build" /\ ~up
    /\ behind' = behind \cup DOMAIN devices
    /\ EndReload(NewSignature)
    /\ UNCHANGED <<disk, friendly, devices, manager, session, work, broker, generated, overtaken>>

\* The same for the RuntimeError of a dictionary that grows while the reload
\* iterates over it, to build the messages or the topics of the registry.
ReloadRaises ==
    /\ (pc = "build" /\ up) \/ (pc = "announce" /\ out["main"] = {})
    /\ devices # AllowedDevices(loaded)
    /\ pc' = "dead"
    /\ UNCHANGED <<disk, loaded, seen, runtime, manager, session, work, broker, ghosts>>

FinishReload ==
    /\ pc = "announce" /\ out["main"] = {}
    /\ EndReload(NewSignature)
    /\ UNCHANGED <<disk, friendly, devices, manager, session, work, broker, generated, overtaken,
                   behind>>

MainThread ==
    \/ Load \/ CreateBridge \/ WriteConfigFile \/ WriteFails
    \/ CheckSignature \/ Reload \/ ApplyRuntimeConfig
    \/ BuildDiscovery \/ SkipDiscovery
    \/ \E m \in out["main"] : PublishDiscovery("main", m)
    \/ ReloadRaises \/ FinishReload

(***************************************************************************)
(* The callbacks.  The list of actions that StateManager returns is, for   *)
(* every address in it, an announcement or none and then a state or none;  *)
(* what goes to mochad is the subject of DeviceCommandQueue.               *)
(***************************************************************************)
Job(a, announce, state) == [address |-> a, announce |-> announce, state |-> state]

\* Every device of the manager is announced, and its state if there is one.
OnMqttConnected ==
    /\ session = "none" /\ MayBegin("mqtt")
    /\ session' = "alive"
    /\ discovered' = known
    /\ jobs' = [jobs EXCEPT !["mqtt"] = {Job(a, TRUE, current[a]) : a \in known}]
    /\ UNCHANGED <<disk, main, runtime, smDevices, known, current, out, broker, ghosts>>

OnMqttDisconnected ==
    /\ Started /\ session = "lost" /\ Idle("mqtt")
    /\ session' = "none"
    /\ UNCHANGED <<disk, main, runtime, manager, work, broker, ghosts>>

\* A report or message for address a on thread t: announce what was never
\* announced, record the new state, and publish it if it changed.
Record(t, a, newState) ==
    LET first   == up /\ a \notin discovered
        publish == IF newState # current[a] THEN newState ELSE NONE
    IN  /\ known' = known \cup {a}
        /\ discovered' = IF up THEN discovered \cup {a} ELSE discovered
        /\ current' = IF newState = NONE THEN current ELSE [current EXCEPT ![a] = newState]
        /\ jobs' = IF first \/ publish # NONE
                   THEN [jobs EXCEPT ![t] = {Job(a, first, publish)}] ELSE jobs
        /\ UNCHANGED <<disk, main, friendly, signature, smDevices, session, out, broker, ghosts>>

\* Mutant: a command is a state whatever the device.
MutStateOf(a, c) == AuthoritativeState(c)

StateOf(a, c) == IF ManagerConfig(a).stateful THEN AuthoritativeState(c) ELSE NONE

\* mochad saw a command on the wire.
OnDeviceEvent(a, c) ==
    /\ Allowed(a) /\ MayBegin("mochad")
    /\ Record("mochad", a, StateOf(a, c))
    /\ UNCHANGED devices

\* A message on a device topic (bridge commands: DiscoveryRegistry and
\* MochadReader).  The bridge looks the device up, and adds it, before the
\* manager applies the housecode filter and its own configuration.
OnMqttMessage(topic, c) ==
    /\ up /\ MayBegin("mqtt")
    /\ Subscribed(topic)
    /\ ~ParsesAsBridge(topic) /\ ParsesAsDevice(topic)
    /\ LET a         == topic[2]
           supported == c \in WithDevices(devices, {a})[a].config.supported_commands /\ Allowed(a)
       IN  /\ devices' = WithDevices(devices, {a})
           /\ IF supported /\ c \in ManagerConfig(a).supported_commands
              THEN Record("mqtt", a, IF OptimisticUpdates THEN StateOf(a, c) ELSE NONE)
              ELSE /\ known' = IF supported THEN known \cup {a} ELSE known
                   /\ UNCHANGED <<disk, main, friendly, signature, smDevices, discovered,
                                  current, session, work, broker, ghosts>>

\* execute_action, PublishDiscoveryAction: dropped while MQTT is down; else the
\* message is built, from the devices of now.  If that raises, the callback is
\* given up.  A job that was begun is finished first.
ExecuteAnnounce(t, j) ==
    /\ out[t] = {} /\ j \in jobs[t] /\ j.announce
    /\ \A k \in jobs[t] : k.announce
    /\ LET all  == IF up THEN WithDevices(devices, {j.address}) ELSE devices
           left == (jobs[t] \ {j}) \cup {[j EXCEPT !.announce = FALSE]}
       IN  /\ devices' = all
           /\ IF up /\ Discoverable(j.address, all[j.address])
              THEN Build(t, Messages(all, {j.address}))
              ELSE UNCHANGED <<out, overtaken>>
           /\ jobs' = [jobs EXCEPT ![t] = IF up /\ ~Discoverable(j.address, all[j.address])
                                          THEN {} ELSE left]
    /\ UNCHANGED <<disk, main, friendly, signature, manager, session, broker, generated, missed,
                   behind>>

\* execute_action, PublishStateAction, and the end of the job.
ExecuteState(t, j) ==
    /\ out[t] = {} /\ j \in jobs[t] /\ ~j.announce
    /\ jobs' = [jobs EXCEPT ![t] = @ \ {j}]
    /\ states' = IF session = "alive" /\ j.state # NONE
                 THEN [states EXCEPT ![j.address] = j.state] ELSE states
    /\ UNCHANGED <<disk, main, runtime, manager, session, out, retained, ghosts>>

\* hello or health: everything is announced again.  If a device cannot be
\* announced, or the table grows meanwhile, the line does nothing.
OnDiagnosticLine ==
    /\ up /\ MayBegin("mochad")
    /\ AllDiscoverable(devices)
    /\ Build("mochad", Messages(devices, DOMAIN devices))
    /\ UNCHANGED <<disk, main, runtime, manager, session, jobs, broker, generated, missed, behind>>

\* The steps in which a callback goes on.
HandlerStep(t) ==
    /\ Started
    /\ \/ \E m \in out[t] : PublishDiscovery(t, m)
       \/ \E j \in jobs[t] : ExecuteAnnounce(t, j) \/ ExecuteState(t, j)

(***************************************************************************)
(* The network, the user, and the supervisor of the process.               *)
(***************************************************************************)
SessionLost ==
    /\ Started /\ session = "alive"
    /\ session' = "lost"
    /\ UNCHANGED <<disk, main, runtime, manager, work, broker, ghosts>>

EditFile ==
    /\ clock < MaxEdits /\ clock' = clock + 1
    /\ \/ file' \in Document \ {file} /\ version' = clock + 1
       \/ version # 0 /\ file' = EmptyDocument /\ version' = 0
    /\ generated' = FALSE
    /\ UNCHANGED <<main, runtime, manager, session, work, broker, missed, overtaken, behind>>

Restart ==
    /\ clock < MaxEdits /\ clock' = clock + 1
    /\ pc # "load"
    /\ pc' = "load" /\ loaded' = NoConfig /\ seen' = 0
    /\ friendly' = FALSE /\ devices' = << >> /\ signature' = 0
    /\ smDevices' = << >> /\ known' = {} /\ discovered' = {}
    /\ current' = [a \in Address |-> NONE]
    /\ session' = "none"
    /\ jobs' = [t \in Handler |-> {}] /\ out' = [t \in Thread |-> {}]
    /\ missed' = FALSE /\ overtaken' = {} /\ behind' = {}
    /\ UNCHANGED <<file, version, broker, generated>>

Next ==
    \/ MainThread
    \/ OnMqttConnected \/ OnMqttDisconnected \/ OnDiagnosticLine
    \/ \E a \in Address, c \in Command : OnDeviceEvent(a, c)
    \/ \E a \in Address, c \in Command \cap DeviceCommand : OnMqttMessage(CommandTopic(a), c)
    \/ \E t \in Handler : HandlerStep(t)
    \/ SessionLost \/ EditFile \/ Restart

\* The main loop goes on; nothing else is bound to happen.
Spec == Init /\ [][Next]_vars /\ WF_vars(MainThread)

-----------------------------------------------------------------------------
Reconfigured(a) == a \notin DOMAIN smDevices \/ a \notin DOMAIN devices
                     \/ smDevices[a].config # devices[a].config

\* The tables, and a manager that has announced only what it knows.
TypeOK ==
    /\ version \in 0 .. clock /\ signature \in 0 .. clock /\ seen \in 0 .. clock
    /\ pc \in {"load", "create", "write", "check", "reload", "apply", "build", "announce", "dead"}
    /\ DOMAIN devices \subseteq Address
    /\ \A a \in DOMAIN devices : devices[a].config \in DeviceConfig /\ devices[a].name # ""
    /\ known \subseteq Address \ HouseFiltered /\ discovered \subseteq known
    /\ current \in [Address -> {"ON", "OFF", "DIM", NONE}]
    /\ session \in {"none", "alive", "lost"}
    /\ jobs \in [Handler -> SUBSET [address : Address \ HouseFiltered, announce : BOOLEAN,
                                    state : {"ON", "OFF", "DIM", NONE}]]
    /\ DOMAIN out = Thread
    /\ states \in [Address -> {"ON", "OFF", "DIM", NONE}]

\* docs/capability-device-registry.md:91: a file that the bridge wrote loads,
\* and gives the devices the bridge runs with, profiles included, so that
\* neither the next check of the file nor a restart changes anything.
GeneratedFileKeepsDevices ==
    generated /\ Started =>
      /\ Loads(file, Env)
      /\ AllowedDevices(LoadConfig(file, Env)) = smDevices

\* Some thread is about to announce the device.
Announcing(a) ==
    \/ pc = "build"
    \/ \E t \in Thread : DiscoveryMessage(a, devices[a]) \in out[t]
    \/ \E j \in jobs["mqtt"] : j.address = a /\ j.announce

\* README.md:198: while connected the broker retains, for every device that is
\* configured, the entity and the name of the present configuration, or a
\* thread is about to publish it: whatever edits, reloads and reconnects came
\* before, and although three threads publish what they built earlier.  Not so
\* for a device whose last announcement was lost with the session or came from
\* a list older than the reload, for one that a reload brought in while MQTT
\* was down, and if a device of the table cannot be announced at all.  A device
\* just like the ones the bridge makes up itself is not told apart.
AnnouncedAsConfigured ==
    Started /\ up /\ AllDiscoverable(devices) =>
      \A a \in DOMAIN devices \ behind :
        devices[a] # UnconfiguredDevice(a) =>
          DiscoveryMessage(a, devices[a]) \in retained \/ Announcing(a)

\* What Home Assistant is offered works: every command that the retained entity
\* of a device sends is routed to that device and supported by both copies of
\* its configuration, if a reload has not made these different.
EntityCommandsAccepted ==
    \A a \in DOMAIN devices :
      ~Reconfigured(a) /\ DiscoveryMessage(a, devices[a]) \in retained =>
        LET m == DiscoveryMessage(a, devices[a])
        IN  /\ Subscribed(m.command_topic)
            /\ ParsesAsDevice(m.command_topic) /\ m.command_topic[2] = a
            /\ (IF m.press THEN {"ON"} ELSE {"ON", "OFF"})
                 \subseteq smDevices[a].config.supported_commands

\* No state is published for an action-only device, on no path and on no
\* reconnect, if a reload has not made the configurations different.
StatesFollowConfig ==
    [][\A a \in DOMAIN devices :
         ~Reconfigured(a) /\ ~devices[a].config.stateful => states'[a] = states[a]]_vars

\* bridge.py:1012: what ends the running bridge is never a file with an error
\* in it, however the user edits it between the steps of a reload; only a file
\* that is not UTF-8, a device that cannot be announced, and a table that a
\* callback extends while the reload goes through it.
BadFileIsSurvived ==
    [][Started /\ pc' = "dead" =>
         \/ pc = "reload" /\ ~file.utf8
         \/ pc # "reload" /\ (~AllDiscoverable(devices) \/ devices # AllowedDevices(loaded))]_vars

\* README.md:196: an edit takes effect in the running bridge, whenever it comes
\* relative to the steps of a reload; unless it came in the moment between the
\* first load and the first look at the signature.
InEffect ==
    /\ friendly = LoadConfig(file, Env).use_friendly_names
    /\ \A a \in DOMAIN AllowedDevices(LoadConfig(file, Env)) :
         a \in DOMAIN devices /\ devices[a] = LoadConfig(file, Env).devices[a]
EditsTakeEffect ==
    <>[](~Loads(file, Env) \/ pc = "dead" \/ (missed /\ version = signature) \/ InEffect)

-----------------------------------------------------------------------------
\* README.md:239, "Filtered house codes do not create device state or Home
\* Assistant discovery."  Violated: a message on the command topic of such an
\* address adds the device, and the next hello or health line announces it.
FilteredNotDiscovered == \A m \in retained : Allowed(m.address)
=============================================================================
