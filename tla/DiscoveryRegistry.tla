------------------------- MODULE DiscoveryRegistry -------------------------
(***************************************************************************)
(* Which Home Assistant discovery topics the bridge retains on the broker, *)
(* and the registry file in which it remembers them so that stale ones can *)
(* be cleared later: discovery_registry.DiscoveryRegistry and the handlers *)
(* of bridge.Bridge that publish, clean up, reset and save, on the three   *)
(* threads that run them.                                                  *)
(*                                                                         *)
(* A device stands for its discovery topic.  A device keeps its entity     *)
(* type: another type changes the topic and not the address, and is not    *)
(* modelled.  The bridge's own diagnostic topics are always desired and    *)
(* are left out, and so are status snapshots, which make a device known    *)
(* without announcing it.  The maintenance commands are enabled.  The file *)
(* is modelled down to its inodes: three threads share one temporary path  *)
(* and no lock.                                                            *)
(***************************************************************************)
EXTENDS Naturals, Sequences, FiniteSets, SequencesExt

CONSTANTS
    Device,     \* devices, and their discovery topics
    MaxBusy     \* bound: handlers in progress at the same time

VARIABLES
    cleanup,    \* config.discovery_cleanup, chosen at every start
    file,       \* the devices the configuration file names
    devices,    \* Bridge.devices
    known,      \* the addresses StateManager knows
    session,    \* to the broker: "none", "alive", "lost" (and not noticed)
    broker,     \* the discovery topics the broker retains
    path, tmp,  \* the inodes of the registry and of its temporary file
    content,    \* [Inode -> Torn or the topics written to it]
    todo,       \* [Thread -> the steps its handler has still to take]
    disturbed,  \* ghost: handlers overlapped, the process ended during one, a
                \* publish was lost, a read or a write failed, Unsaved was dropped
    overwritten,\* ghost: the topics that hello, health or REDISCOVER dropped from
                \* the registry, until it names them again
    uncleaned,  \* ghost: the last connect, reload or command broke off before
                \* its cleanup: a device could not be announced
    collided    \* ghost: two saves overlapped

Thread == {"main", "mqtt", "mochad"}
Inode  == 1 .. Cardinality(Thread) + 2
NoFile == 0
Torn   == {NoFile}      \* not a set of topics

ASSUME RegistryAssumption ==
    /\ MaxBusy \in Nat \ {0}
    /\ IsFiniteSet(Device) /\ NoFile \notin Device

disk   == <<path, tmp, content>>
ghosts == <<disturbed, overwritten, uncleaned, collided>>
vars   == <<cleanup, file, devices, known, session, broker, disk, todo, ghosts>>

Init ==
    /\ cleanup \in BOOLEAN
    /\ file \in SUBSET Device
    /\ devices = file /\ known = file
    /\ session = "none"
    /\ broker = {}
    /\ path = 1 /\ tmp = NoFile
    /\ content = [i \in Inode |-> IF i = 1 THEN {} ELSE Torn]
    /\ todo = [t \in Thread |-> << >>]
    /\ disturbed = FALSE /\ overwritten = {} /\ uncleaned = FALSE /\ collided = FALSE

Up      == session # "none"     \* MqttClient.connected
Idle(t) == todo[t] = << >>
Busy    == {t \in Thread : ~Idle(t)}
Desired == devices              \* _desired_discovery_topics

Contents == IF path = NoFile \/ content[path] = Torn THEN {} ELSE content[path]

\* Published and not in the file: a device first seen on the wire, until the
\* next handler that saves.
Unsaved == broker \ Contents

Step(type, x)  == [type |-> type, arg |-> x]
Each(type, S)  == [i \in 1..Cardinality(S) |-> Step(type, SetToSeq(S)[i])]

Cleans(steps) == \E i \in DOMAIN steps : steps[i].type = "desired"

\* A handler starts on its thread; excuse is another reason for disturbed.  A
\* list that ends in a cleanup makes up for one that was broken off.
BeginUnless(t, steps, excuse) ==
    /\ Idle(t)
    /\ Cardinality(Busy) < MaxBusy
    /\ todo' = [todo EXCEPT ![t] = steps]
    /\ disturbed' = (disturbed \/ excuse \/ Busy # {})
    /\ uncleaned' = (uncleaned /\ ~Cleans(steps))
    /\ UNCHANGED <<overwritten, collided>>

Begin(t, steps) == BeginUnless(t, steps, FALSE)

At(t, type) == ~Idle(t) /\ Head(todo[t]).type = type
Arg(t)      == Head(todo[t]).arg
Then(t, steps) == todo' = [todo EXCEPT ![t] = steps \o Tail(@)]

(***************************************************************************)
(* The steps of a handler.                                                 *)
(***************************************************************************)
\* A QoS 0 publish is lost if the session is.
Deliver(t, after) ==
    /\ broker' = IF session = "alive" THEN after ELSE broker
    /\ disturbed' = (disturbed \/ session # "alive")
    /\ Then(t, << >>)
    /\ UNCHANGED <<cleanup, file, known, session, disk, overwritten, uncleaned, collided>>

\* PublishDiscoveryAction: dropped while disconnected; else _device_config
\* adds the device to Bridge.devices, also one the configuration has removed.
Announce(t) ==
    /\ At(t, "announce")
    /\ devices' = IF Up THEN devices \cup {Arg(t)} ELSE devices
    /\ Deliver(t, broker \cup {Arg(t)})

PublishMessage(t) ==
    /\ At(t, "message")
    /\ Deliver(t, broker \cup {Arg(t)})
    /\ UNCHANGED devices

ClearTopic(t) ==
    /\ At(t, "clear")
    /\ Deliver(t, broker \ {Arg(t)})
    /\ UNCHANGED devices

\* Mutant: a cleanup that is switched off forgets what it does not clear.
MutAfterLoad(how, desired, previous) ==
    CASE how = "reset" -> Each("clear", desired \cup previous) \o << Step("open", {}) >>
      [] how = "merge" -> << Step("open", desired) >>
      [] how = "prune" -> Each("clear", previous \ desired) \o << Step("open", desired) >>

\* What a cleanup (forced or not) or a reset does with the loaded topics.
AfterLoad(how, desired, previous) ==
    CASE how = "reset" -> Each("clear", desired \cup previous) \o << Step("open", {}) >>
      [] how = "merge" -> << Step("open", previous \cup desired) >>
      [] how = "prune" -> Each("clear", previous \ desired) \o << Step("open", desired) >>

\* What a profile cannot be announced as raises (discovery.py:540): the error is
\* logged and the rest of the handler does not happen.  On the main thread the
\* process ends (Restart).  A list of messages is built before the first is
\* published: if that raises, nothing happens at all.
BuildFails(t) ==
    /\ t # "main"
    /\ At(t, "announce") \/ At(t, "desired") \/ At(t, "save")
    /\ uncleaned' = (uncleaned \/ Cleans(todo[t]))
    /\ todo' = [todo EXCEPT ![t] = << >>]
    /\ UNCHANGED <<cleanup, file, devices, known, session, broker, disk,
                   disturbed, overwritten, collided>>

\* _run_discovery_cleanup and _reset_discovery first compute what is desired.
ComputeDesired(t) ==
    /\ At(t, "desired")
    /\ Then(t, << Step("load", <<Arg(t), Desired>>) >>)
    /\ UNCHANGED <<cleanup, file, devices, known, session, broker, disk, ghosts>>

\* DiscoveryRegistry.load: an invalid file is moved away.
Load(t) ==
    /\ At(t, "load")
    /\ Then(t, AfterLoad(Arg(t)[1], Arg(t)[2], Contents))
    /\ path' = IF path # NoFile /\ content[path] = Torn THEN NoFile ELSE path
    /\ UNCHANGED <<cleanup, file, devices, known, session, broker, tmp, content, ghosts>>

\* The file cannot be read: a prune is skipped, the others assume it empty.
LoadFails(t) ==
    /\ At(t, "load")
    /\ Then(t, IF Arg(t)[1] = "prune" THEN << >> ELSE AfterLoad(Arg(t)[1], Arg(t)[2], {}))
    /\ disturbed' = TRUE
    /\ UNCHANGED <<cleanup, file, devices, known, session, broker, disk, overwritten, uncleaned, collided>>

\* hello, health and REDISCOVER save what is desired, whatever was there.
SaveDesired(t) ==
    /\ At(t, "save")
    /\ Then(t, << Step("open", Desired) >>)
    /\ overwritten' = overwritten \cup (Contents \ Desired)
    /\ UNCHANGED <<cleanup, file, devices, known, session, broker, disk,
                   disturbed, uncleaned, collided>>

(***************************************************************************)
(* DiscoveryRegistry.save: open (truncate) the temporary file, write it,   *)
(* rename it.  A thread that has opened it keeps the inode.                *)
(***************************************************************************)
Saving == {t \in Thread : At(t, "write") \/ At(t, "replace")}
InUse  == {path, tmp} \cup {Arg(t)[1] : t \in {u \in Saving : At(u, "write")}}
FreeInode == CHOOSE i \in Inode : i \notin InUse

\* Mutant: the registry is written in place.
MutOpenTemporary(t) ==
    LET i == IF path = NoFile THEN FreeInode ELSE path
    IN  /\ At(t, "open")
        /\ path' = i
        /\ content' = [content EXCEPT ![i] = Torn]
        /\ Then(t, << Step("write", <<i, Arg(t)>>) >>)
        /\ collided' = (collided \/ Saving # {})
        /\ UNCHANGED <<cleanup, file, devices, known, session, broker, tmp,
                       disturbed, overwritten, uncleaned>>

OpenTemporary(t) ==
    LET i == IF tmp = NoFile THEN FreeInode ELSE tmp
    IN  /\ At(t, "open")
        /\ tmp' = i
        /\ content' = [content EXCEPT ![i] = Torn]
        /\ Then(t, << Step("write", <<i, Arg(t)>>), Step("replace", NoFile) >>)
        /\ collided' = (collided \/ Saving # {})
        /\ UNCHANGED <<cleanup, file, devices, known, session, broker, path,
                       disturbed, overwritten, uncleaned>>

SaveFails(t) ==
    /\ At(t, "open")
    /\ Then(t, << >>)
    /\ disturbed' = TRUE
    /\ UNCHANGED <<cleanup, file, devices, known, session, broker, disk, overwritten, uncleaned, collided>>

\* Over what another thread wrote meanwhile, a shorter text leaves its tail.
WriteTemporary(t) ==
    LET i == Arg(t)[1]
        data == Arg(t)[2]
    IN  /\ At(t, "write")
        /\ \/ content' = [content EXCEPT ![i] = data]
           \/ content[i] # Torn /\ content' = [content EXCEPT ![i] = Torn]
        /\ Then(t, << >>)
        /\ UNCHANGED <<cleanup, file, devices, known, session, broker, path, tmp, ghosts>>

\* Mutant: the file is linked, not renamed.
MutReplaceFile(t) ==
    /\ At(t, "replace")
    /\ path' = IF tmp = NoFile THEN path ELSE tmp
    /\ Then(t, << >>)
    /\ UNCHANGED <<cleanup, file, devices, known, session, broker, tmp, content, ghosts>>

\* os.replace; another thread may have renamed the temporary file already,
\* then it fails and the error is logged.
ReplaceFile(t) ==
    /\ At(t, "replace")
    /\ path' = IF tmp = NoFile THEN path ELSE tmp
    /\ tmp' = NoFile
    /\ Then(t, << >>)
    /\ UNCHANGED <<cleanup, file, devices, known, session, broker, content,
                   disturbed, uncleaned, collided>>
    /\ overwritten' = overwritten \ Contents'

Work(t) ==
    \/ Announce(t) \/ PublishMessage(t) \/ ClearTopic(t) \/ BuildFails(t)
    \/ ComputeDesired(t) \/ Load(t) \/ LoadFails(t) \/ SaveDesired(t)
    \/ OpenTemporary(t) \/ SaveFails(t) \/ WriteTemporary(t) \/ ReplaceFile(t)

(***************************************************************************)
(* The handlers.                                                           *)
(***************************************************************************)
\* Mutant: only the command prunes.
MutCleanup(force) == Step("desired", IF force THEN "prune" ELSE "merge")

Cleanup(force) ==
    Step("desired", IF force \/ cleanup THEN "prune" ELSE "merge")

\* _on_mqtt_connected: every known device is announced, then the cleanup.
OnMqttConnected ==
    /\ session = "none"
    /\ session' = "alive"
    /\ Begin("mqtt", Each("announce", known) \o << Cleanup(FALSE) >>)
    /\ UNCHANGED <<cleanup, file, devices, known, broker, disk>>

SessionLost ==
    /\ session = "alive"
    /\ session' = "lost"
    /\ UNCHANGED <<cleanup, file, devices, known, broker, disk, todo, ghosts>>

OnMqttDisconnected ==
    /\ session = "lost" /\ Idle("mqtt")
    /\ session' = "none"
    /\ UNCHANGED <<cleanup, file, devices, known, broker, disk, todo, ghosts>>

\* A device is first seen: an event on the wire, or a command from MQTT,
\* which adds it to Bridge.devices even if it then refuses the command.
Discovery(d) == IF Up /\ d \notin known THEN << Step("announce", d) >> ELSE << >>

OnDeviceEvent(d) ==
    /\ Begin("mochad", Discovery(d))
    /\ known' = known \cup {d}
    /\ UNCHANGED <<cleanup, file, devices, session, broker, disk>>

OnMqttCommand(d, accepted) ==
    /\ session = "alive"
    /\ devices' = devices \cup {d}
    /\ known' = IF accepted THEN known \cup {d} ELSE known
    /\ Begin("mqtt", IF accepted THEN Discovery(d) ELSE << >>)
    /\ UNCHANGED <<cleanup, file, session, broker, disk>>

\* The answer of mochad to hello or health.
OnDiagnosticLine ==
    /\ Begin("mochad", IF Up THEN Each("message", Desired) \o << Step("save", NoFile) >>
                             ELSE << >>)
    /\ UNCHANGED <<cleanup, file, devices, known, session, broker, disk>>

\* The bridge commands that concern discovery.
OnBridgeCommand(steps) ==
    /\ session = "alive"
    /\ Begin("mqtt", steps)
    /\ UNCHANGED <<cleanup, file, devices, known, session, broker, disk>>

Rediscover == OnBridgeCommand(Each("message", Desired) \o << Step("save", NoFile) >>)
Prune      == OnBridgeCommand(<< Cleanup(TRUE) >>)
Reset      == OnBridgeCommand(<< Step("desired", "reset") >>)

EditFile ==
    /\ file' \in (SUBSET Device) \ {file}
    /\ UNCHANGED <<cleanup, devices, known, session, broker, disk, todo, ghosts>>

\* _apply_runtime_config; StateManager is not told of it.  The file's time has
\* changed, its devices perhaps not.
ReloadConfig ==
    /\ file # devices
    /\ devices' = file
    /\ BeginUnless("main",
                   IF Up THEN Each("message", file) \o << Cleanup(FALSE) >> ELSE << >>,
                   ~(Unsaved \subseteq file))
    /\ UNCHANGED <<cleanup, file, known, session, broker, disk>>

\* The process ends, anywhere, and is started again, with DISCOVERY_CLEANUP as
\* it is set by then; create_if_missing.
Restart ==
    /\ cleanup' \in BOOLEAN
    /\ devices' = file /\ known' = file
    /\ session' = "none"
    /\ todo' = [t \in Thread |-> << >>]
    /\ IF path = NoFile
       THEN LET i == IF tmp = NoFile THEN 1 ELSE tmp
            IN  path' = i /\ tmp' = NoFile /\ content' = [content EXCEPT ![i] = {}]
       ELSE UNCHANGED disk
    /\ disturbed' = (disturbed \/ Busy # {} \/ ~(Unsaved \subseteq file))
    /\ UNCHANGED <<file, broker, overwritten, uncleaned, collided>>

Next ==
    \/ \E t \in Thread : Work(t)
    \/ OnMqttConnected \/ SessionLost \/ OnMqttDisconnected
    \/ \E d \in Device : OnDeviceEvent(d)
    \/ \E d \in Device, accepted \in BOOLEAN : OnMqttCommand(d, accepted)
    \/ OnDiagnosticLine \/ Rediscover \/ Prune \/ Reset
    \/ EditFile \/ ReloadConfig \/ Restart

Spec == Init /\ [][Next]_vars

-----------------------------------------------------------------------------
AtRest == Busy = {} /\ ~disturbed

\* The tables, and a registry that is a set of topics once it is whole.
TypeOK ==
    /\ cleanup \in BOOLEAN
    /\ file \subseteq Device /\ devices \subseteq Device /\ known \subseteq Device
    /\ broker \subseteq Device
    /\ path \in Inode \cup {NoFile} /\ tmp \in Inode \cup {NoFile}
    /\ path = tmp => path = NoFile
    /\ content \in [Inode -> (SUBSET Device) \cup {Torn}]

\* The registry is never half written, wherever in a save the process ends
\* and whatever temporary file an earlier one left behind, as long as no two
\* threads are in a save at the same time.
RegistryWhole == path # NoFile /\ ~collided => content[path] # Torn

\* Without overlaps, losses and failures a discovery topic that the broker
\* retains and nobody wants any more is in the registry, where a prune finds
\* it, across restarts and cleanups that were broken off; but for the topics
\* that hello, health or REDISCOVER dropped from it.
StaleIsTracked == AtRest => broker \subseteq Contents \cup Desired \cup overwritten

\* DISCOVERY_CLEANUP, set at this start or at an earlier one: while the bridge
\* is connected and at rest nothing stale stays retained that was tracked, and
\* no topic was dropped from the registry before it was cleared.
NothingStale ==
    AtRest /\ session = "alive" /\ cleanup /\ ~uncleaned
      => broker \subseteq Desired \cup overwritten

\* README.md:328, "Set `DISCOVERY_CLEANUP=true` to also prune stale Home
\* Assistant MQTT discovery topics on startup": after a start with it no stale
\* topic is left.  Violated: hello, health and REDISCOVER of an earlier run,
\* without the setting, have replaced the registry by what they published.
PruneOnStartup ==
    AtRest /\ session = "alive" /\ cleanup /\ ~uncleaned => broker \subseteq Desired
=============================================================================
