# Formal model of mochad-mqtt-bridge

This directory holds TLA+ modules for the bridge between the X10 daemon mochad
and an MQTT broker, the TLC runs that check them on small instances, and TLAPS
proofs that hold for every value of their constants. `PROJECT.json` lists the
components, the runs, the source lines behind every definition, the mutants that
show each property can fail, the findings and the hazards.

Paths such as `bridge.py:320` are relative to the repository root.

## 1. The system

One process, three threads:

- the **main thread** runs `Bridge.run`: `start()`, then a loop that reloads the
  configuration file and writes the health file once a second; signal handlers
  run inside this thread and call `stop()`;
- the **MQTT thread** (paho's network loop) calls `_on_mqtt_connected`,
  `_on_mqtt_disconnected`, `_on_mqtt_command` and `_on_mqtt_bridge_command`;
- the **mochad thread** (`MochadClient._run`) connects, reads lines, reconnects
  for ever, and calls `_on_mochad_connected`, `_on_mochad_disconnected` and
  `_on_mochad_line`.

`StateManager` is guarded by one re-entrant lock and never does I/O: an operation
changes the state and returns a list of actions. The calling thread executes the
list after the lock is released. Nearly everything difficult in this program
comes from that gap and from state that has no lock at all: the command queue,
`Bridge.devices`, the health file, the discovery registry file.

| component | state | operations | talks to | hard behaviour | what makes it correct |
|---|---|---|---|---|---|
| state manager (`state.py`) | device records, two connection flags | `apply` (four kinds of event), `optimistic_update`, four connection callbacks | called by both transport threads; returns actions | duplicates are suppressed; publishes dropped while offline must be replayed | the lists keep the broker equal to the manager; filter and stateless devices respected on every path |
| command queue (`bridge.py`) | a deque without a lock | check, drop oldest, append, flush, put back | MQTT thread adds, mochad thread flushes | check then act, failed flush | nothing lost silently, order, bound, drained |
| mochad client (`mochad_client.py`) | socket, stop event, lock | `start`, `stop`, `connected`, `connect`, `disconnect`, `_run` | callbacks into the bridge | `stop()` against `connect()`; a handler that interrupts a lock holder | no socket after stop, no leak, paired callbacks, ends when stopped |
| bridge (`bridge.py`) | the lists in execution | callbacks, `execute_actions` | all of them | two lists at once, failed sends, lost sessions, the will | the broker shows the bridge's state |
| lifecycle (`bridge.py`, `healthcheck.py`) | `_running`, `_stopping`, health file | `start`, `run_forever`, `stop` | signals, both clients | three writers of one file; a signal between compute and write | a stop ends the process and is visible |
| discovery registry (`discovery_registry.py`, `bridge.py`) | registry file, retained discovery topics, `Bridge.devices` | publish, cleanup, prune, reset, save, load, reload | three threads, file system | crash in a save; shared temporary file; overwrite against merge | the file is never torn; stale topics stay known |
| MQTT client (`mqtt_client.py`) | connected flag | `connect`, `publish_*`, callbacks, routing of messages | paho | QoS 0 over a session that is lost and not noticed; a refused connection taken for a connection | see bridge |
| mochad protocol (`protocol/`) | half a status report | `parse_line`, `StatusParser.feed` | called for each line by the mochad thread | connections that end inside a line or a report; events inside a report | every complete report is returned as mochad wrote it; the states catch up |
| configuration and profiles (`config.py`, `device_registry.py`) | the JSON file, its signature | `load_config`, `create_config_file_if_missing`, reload | environment, file, `Bridge.devices`, `StateManager` | the user writes the file at any moment; two copies of the devices | the generated file loads back to the same devices; edits take effect; bad files are survived |
| topics and discovery (`topics.py`, `discovery.py`) | none | build and parse topics, build messages | broker, Home Assistant | a message that cannot be built raises in the middle of a handler | what is announced works |
| entry point (`mqtt_mochad_bridge.py`) | none | `main` | all of them | | |

## 2. Modules

| module | models | notes |
|---|---|---|
| `X10Vocabulary` | commands, device types, device configuration (`models.py`) | shared by all |
| `X10Model` | what the configuration says of an address, the filter | constants `Address`, `House`, `HouseOf`, `Configured`, `Config`, `AllowedHouses` |
| `StateManager` | `state.StateManager` | operation `Op` is two operators: `Op`, the state change, and `OpActions`, the list it returns |
| `StateManagerSpec` | the manager called in any order, and an ideal broker that executes each list at once | extends `StateManager`; its specification is `CallsSpec`, so that `BridgeProofs` can use its theorems beside those of `Bridge` |
| `DeviceCommandQueue` | path of a device command and the deque | two threads, one step per deque operation or test; `announces` says whether the discovery that a health line publishes before the flush can be built |
| `CommandDelivery` | the promise: delivery in order, without threads | implemented by `DeviceCommandQueue` under `taken <- next - 1`, `waiting <-` the deque with the command a flush holds, `trying <-` a flush holds one |
| `MochadClient` | the client thread and the main thread that stops it | a critical section is one step, except the main thread's own, inside which a signal may arrive |
| `MochadReader` | what the client thread reads: text, line buffer, `StatusParser`, the recorded states with their two writers, mochad's lines and optimistic updates; mochad's reports | extends `MochadClient`, each of whose steps is a step here |
| `Bridge` | both transport threads executing their lists, the broker with its will, mochad | extends `StateManager` |
| `Lifecycle` | main thread, signal, health file, the lock of the mochad client, and the connection callbacks of the others | extends `StateManager` with no addresses |
| `DiscoveryRegistry` | discovery topics on the broker, `Bridge.devices`, the registry file with inodes | three threads, crash and restart; cleanup is chosen at each start |
| `DeviceProfiles` | the table of `device_registry.py` | the fields that the bridge reads |
| `ConfigLoader` | environment and file to devices, and back to a file | operators |
| `Topics` | topics, entities and messages, the routing of a command | operators; a topic is a sequence of segments |
| `DeviceSetup` | `main`, the generated file, the reload, and discovery, states and commands that follow | extends `Topics`, `ConfigLoader`, `DeviceProfiles`; three threads, each of which builds its messages in one step and publishes them one by one, a session that may be lost unnoticed, and a user who edits between any two steps |
| `MC*` | instances for TLC | constants and views only |
| `ListLemmas` | lemmas on natural numbers, `FlattenSeq` and `SetToSeq` | used by the proofs about lists of actions |
| `*Proofs` | theorems | extend the component's module and `TLAPS`; `BridgeProofs` also extends `StateManagerProofs`, `DeviceCommandQueueProofs` holds the refinement, `MochadClientProofs` covers `MochadReader` |

`Bridge` and `Lifecycle` compose the state manager with the transports. The
other components are joined at their interfaces: a `send` in `Bridge` may be
queued at any time, which covers what `DeviceCommandQueue` does in detail; the
connection phases of the mochad thread in `Bridge` and `Lifecycle` are those of
`MochadClient`, whose `CallbacksPaired` is what the two rely on. `MochadReader`
composes `MochadClient` with the parser and with mochad itself, `DeviceSetup` the
loader, the profiles, the topics and the parts of the state manager that a
configuration reaches. In it a callback keeps the announcements and states that it has
still to publish (`jobs`) and the messages it has built (`out`), so that a reload on
the main thread comes between any two of its steps.

Abstractions a reader should know:

- Commands in the queue are numbers in order of arrival, discovery topics are
  devices, the status document is its two connection fields. Timestamps,
  statistics, log texts and document layouts are left out.
- A Python dict iterates in insertion order; the lists for several devices are
  given in one fixed order. They concern different topics.
- The three readiness fields of the diagnostics are replaced, and read, in one
  step.
- The health writes of the callbacks are in `Lifecycle`, not in `Bridge`;
  discovery cleanup is in `DiscoveryRegistry`, the reload there (as a change of
  the set of devices) and in `DeviceSetup` (as a change of configuration), and
  `Bridge` only knows that discovery messages are published. Which message cannot be
  built is in `DeviceSetup` (`Discoverable`); in `Bridge`, `DiscoveryRegistry` and
  `DeviceCommandQueue` building one may raise at any time, as some configuration has it
  (`ExecuteDiscoveryRaises`, `BuildFails`, `AnnounceFails`).
- Another device at an address, with another entity type and topic, is another device
  in `DiscoveryRegistry`; the code keeps the address and announces the new topic.
- In `MochadReader` an optimistic update records a state and nothing else: what becomes
  of the command is up to mochad's events.
- A configuration entry is what remains of `X10_DEVICES` or of one of the three JSON
  forms when defaults are filled in; names are a few strings. A file's signature
  is a version number: the code's time stamp and size are taken to change with
  every edit.
- Text from mochad is a sequence of tokens, a line is one token and a newline, and
  text run together from two lines is a line of no meaning. Each house has one
  device. A snapshot is a function on the houses, UNKNOWN for a house that is not in
  its dict.
- A QoS 0 publish accepted after the session is gone is lost; before, it arrives
  and is applied in order.
- In the registry a text written over what another thread wrote meanwhile either
  replaces it or leaves a torn file, depending on the lengths; both are allowed.

## 3. Runs

Each passing run also has one mutant per property: a plausible slip in the code
under which TLC finds the property violated.

| run | instance | shows |
|---|---|---|
| `StateManager` | light and chime in house A, a third address only seen on the wire, one address of filtered house B | `StatelessHasNoState`, `FilteredHousesUnknown`, `MirrorInSync`, `DiscoveredIsAnnounced`, `StatePublishedOnlyOnChange` |
| `DeviceCommandQueue` | limit 2, five commands, two readiness fields, one command sent twice, discovery that can and cannot be built (328,616 states) | `Conservation`, `QueueBound`, `DeliversInOrder` (the refinement, which includes the order of the queue), `FlushEnds`, `DrainedByHealth` |
| `MochadReader` | two connections, one house, two events, optimistic updates, restarts of mochad or SYNC commands (242,923 states) | `StoppedStaysDown`, `NoSocketLeak`, `CallbacksPaired`, `KeepsRetrying`, `StopEndsThread`, `EveryReportReturned`, `ViewFollows`, `ReportCompletes` |
| `Bridge` | one switch, sessions lost or refused, discovery that raises at any time (717,993 states) | `SyncedUnlessDisturbed`, `DownBecomesVisible` |
| `Lifecycle` | no devices, one signal, at any step, inside the client's lock too (92,337 states) | `CleanShutdown`, `StoppedIsUnhealthy`, `StopEndsRun`, `HealthFollows` |
| `DiscoveryRegistry` | one device, cleanup enabled or not at each start, two handlers at a time (1,450,928 states) | `StaleIsTracked`, `NothingStale`, `RegistryWhole` |
| `DeviceSetup` | an allowed and a filtered address, an environment with a profile, the files of `MCDocument` besides none and the generated one (among them one that is not UTF-8), two edits, deletions or restarts, a callback beside the main thread (921,780 states) | `GeneratedFileKeepsDevices`, `AnnouncedAsConfigured`, `EntityCommandsAccepted`, `StatesFollowConfig`, `BadFileIsSurvived`, `EditsTakeEffect` |

Runs that end in a counterexample, each a disagreement between the code and what
the repository says of it (quoted in `PROJECT.json`, findings):

| run | counterexample |
|---|---|
| `Bridge_availability` | both connections are up and stay up, and "offline" stays retained: the list computed first is published last |
| `DeviceCommandQueue_stranded` | the queue is flushed before the append; with no further health line the command stays |
| `MochadClient_signal` | the signal handler waits for the lock the interrupted code holds |
| `DiscoveryRegistry_startup` | without cleanup a topic goes stale and is merged into the registry, a health line saves only what is desired, and the next start, with cleanup, does not know the topic |
| `DeviceSetup_filter` | a command for a filtered address adds the device, and the next health line announces it |

Also at odds with what the repository says, part of the models and named in an exception
of a passing property or in a hazard, but without a run of their own:

- `DeviceSetup`: the reload catches `ConfigError` only, and a file that is not UTF-8 raises
  `UnicodeDecodeError` (`config.py:756`): it is not "skipped" (`bridge.py:1012`) but ends the
  process. `BadFileIsSurvived` names it.
- `DeviceSetup`: `um506_momentary` and `powerflash_mode_2` are switches without state, for which
  `_validate_message` raises (`discovery.py:541`). They never have an entity, although
  docs/capability-device-registry.md:108 says "Action-only devices publish MQTT buttons.";
  where they are configured the handlers that announce them are given up half way, and
  a reload with MQTT up ends the process. `AllDiscoverable` is the exception.
- `DeviceCommandQueue`: with such a device every health line raises before its flush
  (`AnnounceFails`), so that queued commands stay queued while mochad reports that it is
  ready, although the log says "Queued device command until mochad USB is ready"
  (`bridge.py:600`). `DrainedByHealth` has `announces` in its premise.
- `DeviceSetup`: a device that a reload makes a chime keeps getting retained states from the
  state manager, which still has the configuration of the start, although README.md:173
  says that the bridge "does not publish retained state for them". `Reconfigured` is the exception.
- `DeviceSetup`: a device that a reload adds while MQTT is down is not announced by the connect
  that follows, although README.md:198 says that the bridge "republishes Home Assistant
  discovery when device names or configured devices change". `behind` is the exception.
- `DeviceSetup`: a file written between the test and the rename of
  `create_config_file_if_missing` is replaced (`EditFile` before `WriteConfigFile`), although
  README.md:196 says "Existing files are never overwritten."

Other things met while modelling:

- A signal between the loop's test of `_running` and its heartbeat
  (`bridge.py:309-313`) has its "stopped" overwritten; `StoppedIsUnhealthy` excepts
  that step. The file then ages out.
- The docstring of `healthcheck.py` wants a heartbeat that says "running"; the code
  also accepts "starting", as `README.md` says.
- The registry "records discovery topics that this bridge published previously"
  (`discovery_registry.py:4`), except those of devices first seen on the wire, until
  the next handler that saves (`Unsaved` in `DiscoveryRegistry`).
- A signal that comes before `start()` sets `_running` is undone by it; later in
  `start()` the stop runs to its end, `start()` goes on, and the loop ends at once
  (`StopEndsRun` covers every signal but the first kind and one inside the client's lock).
- A failed send leaves an optimistic state recorded and unpublished, and duplicates
  of it are suppressed until MQTT reconnects; a device that cannot be announced cuts a
  replay short in the same way (`cutShort` in `Bridge`). No document speaks of either.
- A connect, reload or command whose discovery cannot be built skips its cleanup
  (`uncleaned` in `DiscoveryRegistry`).
- An optimistic update records a state also for a command that is queued, dropped or
  fails to be sent; the record is wrong until mochad speaks of the device again
  (`assumed` in `MochadReader`), which is what `optimistic_updates` asks for.
- An event that crosses a status report is undone by it (`crossed` in `MochadReader`):
  the report's line for the house was written before the event and is applied after.
- An edit between `load_config` and the first look at the signature is not noticed
  (`missed` in `DeviceSetup`).
- A list of discovery messages that a callback built before a reload may be published
  after the reload's own, and the old entity or name then stays until the next hello or
  health line (`overtaken` and `behind` in `DeviceSetup`).
- In a reload with MQTT up a device that cannot be announced ends the process, and so
  does a callback that adds a device while the reload iterates over `Bridge.devices`
  (`BuildDiscovery`, `ReloadRaises`).

### Bounds

- *Addresses.* The operations treat each address by itself, except house events
  and snapshots, which treat each of a set alike; two addresses of different
  configuration, one without any and one of another house give every combination of filter,
  stateful and configured that the code distinguishes. `Bridge` uses one, because
  its races are between threads and topics.
- `MAX_QUEUED_DEVICE_COMMANDS = 2`, `MaxCommands = 5`: the queue fills, overflows
  twice and can be refilled while a flush holds a command. The proofs remove
  both bounds.
- `MaxSockets = 2`: a first connection, which may end anywhere, and a reconnect, which may
  still be in the hands of `connect()` when the stop arrives. A connect that fails
  costs nothing. The proofs remove the bound for every safety property.
- `MaxEvents = 2` in `MochadReader`: a change that was missed while disconnected or
  cut off, and one more event, restart or SYNC, so that two reports are requested
  on one connection. One house is enough to cut a report before, inside and after
  its line; houses do not meet in the parser. The proofs hold for any number of both.
- `MaxEdits = 2` in `DeviceSetup`, on top of an initial file that may be any of the
  documents: an edit in the middle of the start, of a reload or of a callback, and one
  that spoils, repairs or deletes the file, or a restart on what is left.
- `Command` in `DeviceSetup`: a command that every device supports and records, and one that
  only lights support.
- `MaxBusy = 2` in `DiscoveryRegistry`, the handlers at work at the same time; the third
  thread adds no new pair of steps. `MaxBusy = 1` in `DeviceSetup` counts callbacks only:
  one of them beside the main thread, which reloads, is the pair of interest there; two
  callbacks publish from the same devices. The proofs hold for every value of both.
- One signal in a behaviour: a second one finds `_stopping` set.
- Views leave out what no step reads: `emitted`, the pending command (kept for the
  filtered address, because `FilteredHousesUnknown` names it), the contents of
  inodes without a name.

`CHECK_DEADLOCK FALSE` for `MochadClient` and `MochadReader`, where a stopped client does
nothing, and for `DeviceSetup`, where the process may end and is not started again
when the bound is reached.

### Fairness

Each thread of the process is weakly fair as a whole: the operating system runs
it, and a handler that has begun goes on. Where a thread may do several things
the fairness is on their disjunction, so that nothing forces a particular one.
The client thread of `MochadClient` is strongly fair because it waits for a lock
that the main loop takes for an instant and then leaves free while it sleeps.
In `MochadReader` mochad is weakly fair in finishing a report it owes, which is what
the bridge relies on; in `DeviceSetup` only the main loop is fair.
No other fairness on the environment: users, mochad's reports, accepted connections,
lost sessions and signals. `DrainedByHealth` and `DownBecomesVisible` therefore
state what the environment must do in their premise. `FlushThread` includes
seeing a dead peer and connecting again, because `_run` does both by itself; a
connect that never succeeds is covered by `MochadClient`, in which `CreateFails`
may be taken for ever.

## 4. Properties and their limits

`SyncedUnlessDisturbed`, `StaleIsTracked`, `NothingStale`, `CleanShutdown` and
`RegistryWhole` except what their ghost variables record (overlapping handlers, a
list that was cut short, a lost publish, an abandoned join). The exceptions are as
small as TLC allowed: each was added for a counterexample. Two of them contradict a
document and are shown by a run of their own: `overlapped` (`Bridge_availability`) and
`overwritten` (`DiscoveryRegistry_startup`); those of section 3's second list contradict one and are
only named. The others (`cutShort`, `uncleaned`, `collided`, `crossed`, `assumed`, `missed`, lost
publishes, `Unsaved`) contradict no document. A property that excepts one of them says
nothing about it but how long it lasts. `overlapped` and `cutShort` are reset by a replay
that runs alone, so the property also says that a reconnect repairs what a race left
behind; `uncleaned` ends with the next list that gets to its cleanup, `behind` with the
next announcement, `assumed` with mochad's next word on the house, `missed` with the next
edit.

`AnnouncedAsConfigured` speaks of each device by itself: `behind` holds the addresses whose
last announcement was lost with the session, was skipped because MQTT was down, or came
from a list older than the reload. `EntityCommandsAccepted` and `StatesFollowConfig` except
addresses whose two configurations a reload has made different.

`BadFileIsSurvived` names the three ways in which a reload ends the process; each of the
three is in the model. `StopEndsRun` excepts a signal inside `connected`, where the process
does not end (`MochadClient_signal`), and one before `start()` has set `_running`.

`EntityCommandsAccepted` depends on a base topic of one segment: with a slash in
`MQTT_BASE_TOPIC`, which `_clean_segment` lets through, no command topic parses.

`QueueBound` allows one command more than the limit, which the code reaches: the
put-back of a failed flush does not test the length.

## 5. Proofs

Checked by TLAPS with Z3, Zenon and LS4, for all values of the constants that
satisfy the named assumptions (`ConfigAssumption`, `OptimisticAssumption`,
`FiniteAssumption`, `QueueAssumption`, `ClientAssumption`, `ReaderAssumption`,
`RegistryAssumption`, `LoaderAssumption`, `TopicAssumption`, `SetupAssumption`). They say
that tables are functions on their sets, that limits are natural numbers, that
flags are Boolean, that the sets of addresses and devices are finite (a Python dict
is), that topics are not empty, that "no file" is not a device, and that an address
is not the empty name, None or the word "bridge". TLC evaluates each of them in a run.

Every invariant that a run checks is a theorem, and so are the action properties
and the refinement. A bound such as `MaxCommands`, `MaxSockets` or `MaxEvents` is a
constant like any other there: the theorems hold for every value of it.

`ListLemmas`. An operation of the state manager returns a list put together from the
lists of several devices, and a broker executes it from front to back: both need an
induction. The library's induction theorems take the induction predicate as an
operator, which no installed prover can instantiate; `NatSetInduction` takes it as a
set (the numbers for which the statement holds) and is proved from the least number
outside that set. `FlattenHolds` and `SetToSeqProperties` say what the lists contain.

`StateManagerProofs`

- `ManagerTypeCorrect`, `StatelessCorrect`, `FilterCorrect`: `ManagerTypeOK` and
  `FilteredHousesUnknown` are inductive; `StatelessHasNoState` is inductive given the type.
- `MirrorCorrect`, `DiscoveredCorrect`, `PublishedCorrect`. Each operation's list is
  `Faithful`: every message says what is recorded after the step, what the step changes
  is in a message, a device that it marks as discovered is announced, and the list of
  a connect names every recorded state. `OnlyChanges`: a state in it differs from the
  recorded one, or the list is a replay. There is one lemma for each operation.
  `ExecuteAllResult` says, by induction over the list, what the broker has after a
  faithful one. `MirrorInSync` is not inductive by itself: a replay names only the
  devices that have a recorded state. `SyncInv` adds that of the others the broker has
  none, and that discovered devices are announced; `UnknownIsFresh` that a
  device which is not known has nothing recorded.

`BridgeProofs`

- `TypeCorrect`, `SyncedCorrect`, from `BridgeInv`. The two threads have their lists
  half executed; `SyncedUnlessDisturbed` speaks of the time when both are empty.
  `LiveInv` speaks of every moment at which the session is alive and no overlap and no
  list cut short, by a failed send or by a message that cannot be built, has disturbed
  the bridge: what is pending in a list says what is
  recorded, and what the broker does not show is pending. Of the status document it
  says so only when mochad's connection is between no two callbacks: one made while
  the socket is installed and the callback has not run may say what the manager does
  not, and the callback's own replaces it. `OldInv` says that of a device without a
  recorded state none was published or is pending, `ListInv` that without overlap one
  thread is idle, `FlagInv` that the manager's flags follow the phases of the two
  connections; `ShapeInv` gives the types, and `UnknownIsFresh` is the state manager's.
  The step of a handler that computes its list uses `Faithful` of
  `StateManagerProofs`, one lemma for all operations.

`DeviceCommandQueueProofs`

- `TypeCorrect`, `BoundCorrect`, `OrderCorrect`, `ConservationCorrect`. `QueueBound` is not
  inductive: an append after the test and a put-back could each add one. `BoundInv`
  counts what a flush holds as still in the queue (`FlushHolds`), and says that at
  `append` the queue and the flush together leave a place. `OrderInv` adds to
  `QueueInOrder` that what is queued or being flushed is below `next`, and that the MQTT
  thread holds the last number taken. `Conservation` uses the order: a command occurs
  only once, so taking the head removes it. The deque lemmas relate `popleft`,
  `append` and `appendleft` to entries and elements.
- `DeliveryCorrect`, the refinement `Spec => DeliversInOrder`. `DeliveryInv` is `TypeOK`,
  `OrderInv` and `Conservation` together: the order says that the command in the hands of
  the MQTT thread is the last taken and waits nowhere, conservation that it has no
  fate yet, which is `New` of the abstract specification. `StepDelivers` maps each action
  to a step or a stutter. The drop of the second oldest while the oldest is being
  tried is why the promise is not simply "the oldest is discarded".

`MochadClientProofs`

- `TypeCorrect`, `StopCorrect`, `NoLeakCorrect`, `CallbacksCorrect`, from `ClientInv`: at
  which steps a socket is held or installed, and that `stop()` sets the event before
  it takes the lock. Without the last, `StoppedStaysDown` is not inductive:
  `InstallSocket` would still be free to install after the disconnect.
- `ReaderClientCorrect`: every step of `MochadReader` is a step of the client or leaves it
  alone, so the four hold there as well.
- `ReportsCorrect`, `ViewCorrect`, from `ReaderInv`. The two properties speak of the
  moment when a line or nothing is left to read; `StreamInv` speaks of any moment and
  reads ahead: buffer and wire together are whole lines, and there are the states that
  the parser and the records will go through while reading them (`Reading`); each end
  of a report on the way meets a parser that holds what that report said, and at
  the end of the text the parser agrees with the report being written, and the records
  with mochad but for houses that this report has yet to name or will correct, and
  for those with a command that mochad's text has not yet answered
  (`CaughtUp`, `Agrees`; the set of those houses shrinks along the text as the view is
  recorded, and an optimistic update in the middle of a text leaves the run of states
  right for all other houses). Writing extends this run of states at its end (`ReadOneMore`), reading a
  line takes its first state off (`ReadFirst`). `RestInv` says that a new connection
  begins with no text, which is why a half line of an old one is never joined with a new
  one.

`LifecycleProofs`

- `TypeCorrect`, `ShutdownCorrect`, `StoppedCorrect`, from `StopInv`: where the main thread
  can be (`ControlInv`), that the two transport threads are done one after the other as
  `stop()` passes its steps (`ThreadInv`), and with that what the broker (`BrokerInv`) and
  the health file (`HealthInv`) can still become.

`DiscoveryRegistryProofs`

- `WholeCorrect`: `FileInv` says that without overlapping saves the one thread that saves
  owns the temporary file, which is torn before its write and whole before its rename.
- `TrackedCorrect`, `NothingStaleCorrect`: `TodoInv` gives the order of the steps that a
  handler has left, `SingleInv` that undisturbed there is one handler, `TrackInv` that
  each stale topic is in the registry, about to be written there or cleared, or
  among those that a save has dropped (`overwritten`), at every step between computing
  the desired topics and the rename. Cleanup is a variable that a restart chooses, and
  a list may break off before its cleanup (`uncleaned`).
- `TypeCorrect`.

`DeviceSetupProofs`

- `GeneratedFileCorrect`. `EntryRoundTrip` says that a device parsed from a valid entry
  is written as a valid entry that parses to the same device: the type word of a
  profile's entity is a plain type (`TypeWords`, `ProfileTypes`) and the display name of a
  display name is itself. `ConfigRoundTrip` lifts it to a whole file.
  `GeneratedFileKeepsDevices` speaks only of a running bridge; `FileInv` carries it through
  the start: what was loaded survives being written, a start on a generated file
  loads that file, and the file is written only when there is none.
- `TypeCorrect`, `StatesFollowCorrect`, `BadFileCorrect`: `SetupInv` says that every device of
  every table is well formed and that a bridge not yet created has no connection,
  knows nothing and has nothing to publish, `StatelessInv` that an address without state
  in the state manager's copy has no recorded state and none in a list that a callback
  has begun, which the replay of a reconnect needs.
- `AnnouncedCorrect`. The property would be inductive if each message that is on its way
  said what the configuration says; `OutInv` says that it does, unless its thread is
  `overtaken`, because only a reload changes a device that is there. `AnnounceInv` carries
  the property through reload, disconnect and reconnect: a device that is not announced,
  about to be announced or `behind` is one that the manager knows, so that the next
  connection announces it (`WillConnect`). Publishing a current message makes its device
  announced, losing or overtaking one puts it into `behind` (`PublishAnnounces`); a device
  that is added on the way changes none of the others (`AnnouncingStays`).
- `EntityCommandsCorrect` has the hypothesis that the base topic has one segment; with more
  the code does not route any command (section 4). The lemmas go through all profiles
  and types for the commands they support.

Only model-checked: the liveness properties (`FlushEnds`, `DrainedByHealth`, `KeepsRetrying`,
`StopEndsThread`, `ReportCompletes`, `DownBecomesVisible`, `StopEndsRun`, `HealthFollows`,
`EditsTakeEffect`), because fairness and ENABLED are out of the prover's reach. No module with
a theorem has a RECURSIVE operator; recursion is written as functions on an interval.

## 6. Not modelled

TLS settings and packaging hold no state of the running bridge. The operator tools
are scripts that a person runs, one linear sequence of steps each. Of parsing and
formatting only what a property needs is modelled: not the regular expressions of
X10 lines, the encoder, the splitting of `X10_DEVICES` and `X10_HOUSECODES`, the fields
of JSON documents that nothing reads back, or the diagnostic entities of the
bridge. PING and STATUS answer from the present state and change nothing. The age
test of the health check needs a clock and adds nothing to the races about the
file. A pending BRIGHT is never cleared, because it is compared with the recorded state
DIM; `pending_command` is written and never read. That iterating over `Bridge.devices` raises
when another thread adds to it is in `DeviceSetup` for the reload, where it ends the process; in
a callback it is a handler that does nothing.

## 7. Plan

Done: state manager; command queue and the promise it implements; mochad client
and what it reads; bridge; lifecycle; discovery registry; configuration, profiles,
topics and discovery; theorems for every safety invariant and action property that a
run checks, and for the refinement.

Next, in this order:

1. The safety part of `EditsTakeEffect`: a configuration whose signature was taken is in
   effect unless `missed`, as an invariant with a theorem.
2. The safety parts of `DownBecomesVisible` and `HealthFollows`: what the last list or the last
   write leaves behind when a connection stays as it is.
