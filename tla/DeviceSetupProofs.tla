-------------------------- MODULE DeviceSetupProofs --------------------------
(***************************************************************************)
(* The configuration file the bridge generates gives back the devices the  *)
(* bridge runs with: for every environment, every file that loads and all  *)
(* edits, reloads and restarts.                                            *)
(***************************************************************************)
EXTENDS DeviceSetup, SequenceTheorems, TLAPS

\* The words of the file for the plain types are no profile ids, so that what
\* is written as a type is never read back as a profile.
LEMMA TypeWords ==
    /\ \A w \in PLAIN_TYPES : /\ w \notin PROFILE_IDS
                              /\ ParseDeviceType(w) \in DeviceType
    /\ \A t \in DeviceType : /\ TypeWord(t) \in PLAIN_TYPES
                             /\ ParseDeviceType(TypeWord(t)) = t
    /\ NONE \notin PROFILE_IDS
<1>1. \A w \in PLAIN_TYPES : ParseDeviceType(w) \in DeviceType
  BY DEF PLAIN_TYPES, ParseDeviceType, DeviceType
<1>2. \A t \in DeviceType : TypeWord(t) \in PLAIN_TYPES
  BY DEF PLAIN_TYPES, TypeWord, DeviceType
<1>3. \A t \in DeviceType : ParseDeviceType(TypeWord(t)) = t
  BY DEF ParseDeviceType, TypeWord, DeviceType
<1>4. \A w \in PLAIN_TYPES \cup {NONE} : w \notin PROFILE_IDS
  BY DEF PLAIN_TYPES, PROFILE_IDS, SWITCH_PROFILES, NONE
<1> QED
  BY <1>1, <1>2, <1>3, <1>4

\* Every profile has one of the three types.
LEMMA ProfileTypes ==
    ASSUME NEW p \in PROFILE_IDS
    PROVE  DeviceProfile(p).entity_type \in DeviceType
<1>1. CASE p \in SWITCH_PROFILES
  BY <1>1 DEF DeviceProfile, Profile, DeviceType, SWITCH_PROFILES
<1>2. CASE p \notin SWITCH_PROFILES
  BY <1>2 DEF DeviceProfile, Profile, DeviceType, PROFILE_IDS
<1> QED
  BY <1>1, <1>2

\* An entry that was parsed, written to the file and parsed again gives the
\* same device: name, profile, repeats and capabilities.
LEMMA EntryRoundTrip ==
    ASSUME NEW a \in Address, NEW e, ValidEntry(e), NEW friendlyNames \in BOOLEAN
    PROVE  LET d == ParseEntry(a, e, friendlyNames)
           IN  /\ ValidEntry(DeviceToFilePayload(d))
               /\ ParseEntry(a, DeviceToFilePayload(d), friendlyNames) = d
<1> DEFINE d == ParseEntry(a, e, friendlyNames)
           p == EntryProfile(e)
           w == DeviceToFilePayload(d)
<1>1. p = NONE \/ p \in PROFILE_IDS
  BY DEF EntryProfile, ValidEntry
<1>2. p = NONE => e.type \in PLAIN_TYPES
  BY TypeWords DEF EntryProfile, ValidEntry
<1>3. d.config.entity_type \in DeviceType
  <2>1. CASE p = NONE
    <3>1. d.config = DefaultConfig(ParseDeviceType(e.type))
      BY <2>1 DEF ParseEntry
    <3> QED
      BY <1>2, <2>1, <3>1, TypeWords DEF DefaultConfig
  <2>2. CASE p \in PROFILE_IDS
    <3>1. d.config = DeviceProfile(p)
      BY <2>2, TypeWords DEF ParseEntry
    <3> QED
      BY <2>2, <3>1, ProfileTypes
  <2> QED
    BY <1>1, <2>1, <2>2
<1>4. /\ w.name = d.name /\ w.profile = p
      /\ w.type = TypeWord(d.config.entity_type)
      /\ w.command_repeats = e.command_repeats
      /\ w.command_repeat_delay_ms = e.command_repeat_delay_ms
  BY DEF DeviceToFilePayload, ParseEntry
<1>5. w.type \in PLAIN_TYPES
  BY <1>3, <1>4, TypeWords
<1> HIDE DEF w
<1>6. ValidEntry(w)
  BY <1>1, <1>4, <1>5 DEF ValidEntry
<1>7. EntryProfile(w) = p
  BY <1>4, <1>5, TypeWords DEF EntryProfile
<1>8. DisplayName(a, w.name, friendlyNames) = d.name
  BY <1>4, LoaderAssumption DEF ParseEntry, DisplayName
<1>9. p = NONE => DefaultConfig(ParseDeviceType(w.type)) = DefaultConfig(ParseDeviceType(e.type))
  <2> SUFFICES ASSUME p = NONE
               PROVE  ParseDeviceType(w.type) = ParseDeviceType(e.type)
    OBVIOUS
  <2>1. d.config.entity_type = ParseDeviceType(e.type)
    BY DEF ParseEntry, DefaultConfig
  <2> QED
    BY <1>3, <1>4, <2>1, TypeWords
<1>10. ParseEntry(a, w, friendlyNames) = d
  BY <1>4, <1>7, <1>8, <1>9 DEF ParseEntry
<1> QED
  BY <1>6, <1>10 DEF w

\* The file written from a configuration loads and gives that configuration.
RoundTrips(config) ==
    /\ Loads(ConfigFilePayload(config), Env)
    /\ LoadConfig(ConfigFilePayload(config), Env) = config

\* What load_config returned, written by create_config_file_if_missing, loads to
\* the same devices.
LEMMA ConfigRoundTrip ==
    ASSUME NEW doc, Loads(doc, Env)
    PROVE  RoundTrips(LoadConfig(doc, Env))
<1> DEFINE f == UseFriendlyNames(doc, Env)
           E == Entries(doc, Env)
           c == LoadConfig(doc, Env)
           w == ConfigFilePayload(c)
<1>1. f \in BOOLEAN
  BY SetupAssumption DEF UseFriendlyNames
<1>2. \A a \in DOMAIN E : a \in Address /\ ValidEntry(E[a])
  BY DEF Loads
<1> HIDE DEF f, E
<1>3. /\ c.use_friendly_names = f /\ DOMAIN c.devices = DOMAIN E
      /\ \A a \in DOMAIN E : c.devices[a] = ParseEntry(a, E[a], f)
  BY DEF LoadConfig, f, E
<1>4. /\ w.utf8 = TRUE /\ w.object = TRUE /\ w.friendly = (IF f THEN "true" ELSE "false")
      /\ w.fields = {"devices"} /\ DOMAIN w.entries = DOMAIN E
      /\ \A a \in DOMAIN E : w.entries[a] = DeviceToFilePayload(c.devices[a])
  BY <1>3 DEF ConfigFilePayload
<1> HIDE DEF w, c
<1>5. UseFriendlyNames(w, Env) = f /\ Entries(w, Env) = w.entries
  BY <1>1, <1>4 DEF UseFriendlyNames, Entries, NONE
<1>6. \A a \in DOMAIN E : /\ ValidEntry(w.entries[a])
                          /\ ParseEntry(a, w.entries[a], f) = c.devices[a]
  BY <1>1, <1>2, <1>3, <1>4, EntryRoundTrip
<1>7. Loads(w, Env)
  BY <1>1, <1>2, <1>4, <1>5, <1>6 DEF Loads
<1>8. LoadConfig(w, Env) = [use_friendly_names |-> f,
                            devices |-> [a \in DOMAIN E |-> ParseEntry(a, w.entries[a], f)]]
  BY <1>4, <1>5 DEF LoadConfig
<1>9. c = [use_friendly_names |-> f,
           devices |-> [a \in DOMAIN E |-> ParseEntry(a, E[a], f)]]
  BY DEF LoadConfig, c, f, E
<1>10. \A a \in DOMAIN E : ParseEntry(a, w.entries[a], f) = ParseEntry(a, E[a], f)
  BY <1>3, <1>6
<1>11. LoadConfig(w, Env) = c
  BY <1>8, <1>9, <1>10
<1> QED
  BY <1>7, <1>11 DEF RoundTrips, w, c

-----------------------------------------------------------------------------
\* GeneratedFileKeepsDevices speaks of a running bridge; what carries it there
\* is that a start works on a configuration that survives being written, on
\* the generated file itself if it is there, and writes only if it is not.
FileInv ==
    /\ pc \in {"create", "write"} => RoundTrips(loaded)
    /\ pc = "write" => AllowedDevices(loaded) = smDevices /\ ~generated
    /\ pc = "create" /\ generated => Loads(file, Env) /\ loaded = LoadConfig(file, Env)
    /\ version = 0 => ~generated
    /\ GeneratedFileKeepsDevices

ClockInv == clock \in Nat

\* A file that the bridge wrote gives back, at the next check of the file and
\* after every restart, the devices the bridge was started with.
THEOREM GeneratedFileCorrect == Spec => []GeneratedFileKeepsDevices
<1>1. Init => FileInv
  BY DEF Init, FileInv, GeneratedFileKeepsDevices, Started
<1>2. FileInv /\ ClockInv /\ [Next]_vars => FileInv'
  <2> SUFFICES ASSUME FileInv, ClockInv, [Next]_vars
               PROVE  FileInv'
    OBVIOUS
  <2> USE DEF FileInv, ClockInv, GeneratedFileKeepsDevices, Started,
              disk, main, runtime, manager, work, broker, ghosts
  <2>1. CASE Load
    BY <2>1, ConfigRoundTrip DEF Load
  <2>2. CASE CreateBridge
    BY <2>2 DEF CreateBridge
  <2>3. CASE WriteConfigFile
    <3>1. RoundTrips(loaded) /\ AllowedDevices(loaded) = smDevices
      BY <2>3 DEF WriteConfigFile
    <3>2. /\ file' = ConfigFilePayload(loaded) /\ version' # 0 /\ pc' = "check"
          /\ smDevices' = smDevices
      BY <2>3 DEF WriteConfigFile
    <3> QED
      BY <3>1, <3>2 DEF RoundTrips
  <2>4. CASE WriteFails
    BY <2>4 DEF WriteFails
  <2>5. CASE CheckSignature \/ Reload \/ ApplyRuntimeConfig
    BY <2>5 DEF CheckSignature, Reload, ApplyRuntimeConfig, EndReload
  <2>6. CASE BuildDiscovery \/ SkipDiscovery \/ ReloadRaises \/ FinishReload
    BY <2>6 DEF BuildDiscovery, SkipDiscovery, ReloadRaises, FinishReload, EndReload
  <2>7. CASE OnMqttConnected \/ OnMqttDisconnected \/ OnDiagnosticLine \/ SessionLost
    <3>1. UNCHANGED <<file, version, generated, pc, loaded, smDevices>>
      BY <2>7 DEF OnMqttConnected, OnMqttDisconnected, OnDiagnosticLine, SessionLost
    <3> QED
      BY <3>1
  <2>8. ASSUME NEW a \in Address, NEW k \in Command, OnDeviceEvent(a, k)
        PROVE  FileInv'
    BY <2>8 DEF OnDeviceEvent, Record
  <2>9. ASSUME NEW a \in Address, NEW k \in Command, OnMqttMessage(CommandTopic(a), k)
        PROVE  FileInv'
    BY <2>9 DEF OnMqttMessage, Record
  <2>13. ASSUME NEW t \in Thread, NEW m, PublishDiscovery(t, m)
         PROVE  FileInv'
    BY <2>13 DEF PublishDiscovery
  <2>14. ASSUME NEW t \in Handler, NEW j, ExecuteAnnounce(t, j) \/ ExecuteState(t, j)
         PROVE  FileInv'
    BY <2>14 DEF ExecuteAnnounce, ExecuteState
  <2>10. CASE EditFile
    BY <2>10 DEF EditFile
  <2>11. CASE Restart
    BY <2>11 DEF Restart
  <2>12. CASE UNCHANGED vars
    BY <2>12 DEF vars
  <2> QED
    BY <2>1, <2>2, <2>3, <2>4, <2>5, <2>6, <2>7, <2>8, <2>9, <2>10, <2>11, <2>12, <2>13, <2>14
       DEF Next, MainThread, HandlerStep, Thread
<1>3. Init => ClockInv
  BY DEF Init, ClockInv
<1>4. ClockInv /\ [Next]_vars => ClockInv'
  <2> SUFFICES ASSUME ClockInv, [Next]_vars
               PROVE  ClockInv'
    OBVIOUS
  <2> USE DEF ClockInv, disk, main, runtime, manager, work, broker, ghosts
  <2>1. CASE MainThread
    BY <2>1 DEF MainThread, Load, CreateBridge, WriteConfigFile, WriteFails, CheckSignature,
                Reload, ApplyRuntimeConfig, BuildDiscovery, SkipDiscovery, PublishDiscovery,
                ReloadRaises, FinishReload
  <2>2. CASE OnMqttConnected \/ OnMqttDisconnected \/ OnDiagnosticLine \/ SessionLost
    BY <2>2 DEF OnMqttConnected, OnMqttDisconnected, OnDiagnosticLine, SessionLost
  <2>3. ASSUME NEW a \in Address, NEW k \in Command, OnDeviceEvent(a, k)
        PROVE  ClockInv'
    BY <2>3 DEF OnDeviceEvent, Record
  <2>4. ASSUME NEW a \in Address, NEW k \in Command, OnMqttMessage(CommandTopic(a), k)
        PROVE  ClockInv'
    BY <2>4 DEF OnMqttMessage, Record
  <2>7. ASSUME NEW t \in Handler, HandlerStep(t)
        PROVE  ClockInv'
    BY <2>7 DEF HandlerStep, PublishDiscovery, ExecuteAnnounce, ExecuteState
  <2>5. CASE EditFile \/ Restart
    BY <2>5 DEF EditFile, Restart
  <2>6. CASE UNCHANGED vars
    BY <2>6 DEF vars
  <2> QED
    BY <2>1, <2>2, <2>3, <2>4, <2>5, <2>6, <2>7 DEF Next
<1>5. FileInv => GeneratedFileKeepsDevices
  BY DEF FileInv
<1> QED
  BY <1>1, <1>2, <1>3, <1>4, <1>5, PTL DEF Spec

-----------------------------------------------------------------------------
(***************************************************************************)
(* What a device the bridge runs with is like, wherever it came from.      *)
(***************************************************************************)
\* Whatever has a state can be switched on and off; the others can be pressed.
WellFormed(d) ==
    /\ d.config \in DeviceConfig /\ d.name # ""
    /\ (IF IsButton(d) THEN {"ON"} ELSE {"ON", "OFF"}) \subseteq d.config.supported_commands

WellFormedTable(devs) == \A a \in DOMAIN devs : a \in Address /\ WellFormed(devs[a])

\* Every profile of device_registry.py is a device configuration that accepts
\* the commands of the entity it becomes.
LEMMA ProfileConfigs ==
    ASSUME NEW p \in PROFILE_IDS
    PROVE  LET c == DeviceProfile(p)
           IN  /\ c \in DeviceConfig
               /\ (IF c.entity_type = "CHIME" \/ ~c.stateful THEN {"ON"} ELSE {"ON", "OFF"})
                     \subseteq c.supported_commands
<1> USE DEF DeviceProfile, Profile, DeviceConfig, DeviceType, DeviceCommand, HouseCommand,
            ON_OFF, ON_ONLY, LIGHT_COMMANDS
<1>1. CASE p \in SWITCH_PROFILES
  BY <1>1 DEF SWITCH_PROFILES
<1>2. CASE p \notin SWITCH_PROFILES
  BY <1>2 DEF PROFILE_IDS
<1> QED
  BY <1>1, <1>2

\* So is the configuration that a device type alone gives ...
LEMMA DefaultConfigs ==
    ASSUME NEW t \in DeviceType
    PROVE  LET c == DefaultConfig(t)
           IN  /\ c \in DeviceConfig
               /\ (IF c.entity_type = "CHIME" \/ ~c.stateful THEN {"ON"} ELSE {"ON", "OFF"})
                     \subseteq c.supported_commands
  BY DEF DefaultConfig, DeviceConfig, DeviceType, DeviceCommand, HouseCommand

\* ... a device parsed from a valid entry ...
LEMMA ParsedIsWellFormed ==
    ASSUME NEW a \in Address, NEW e, ValidEntry(e), NEW friendlyNames
    PROVE  WellFormed(ParseEntry(a, e, friendlyNames))
<1> DEFINE d == ParseEntry(a, e, friendlyNames)
           p == EntryProfile(e)
<1>1. p = NONE \/ p \in PROFILE_IDS
  BY DEF EntryProfile, ValidEntry
<1>2. d.name # ""
  BY LoaderAssumption DEF ParseEntry, DisplayName
<1>3. CASE p = NONE
  <2>1. ParseDeviceType(e.type) \in DeviceType
    BY <1>3, TypeWords DEF EntryProfile, ValidEntry
  <2>2. d.config = DefaultConfig(ParseDeviceType(e.type))
    BY <1>3 DEF ParseEntry
  <2> QED
    BY <1>2, <2>1, <2>2, DefaultConfigs DEF WellFormed, IsButton
<1>4. CASE p \in PROFILE_IDS
  <2>1. d.config = DeviceProfile(p)
    BY <1>4, TypeWords DEF ParseEntry
  <2> QED
    BY <1>2, <1>4, <2>1, ProfileConfigs DEF WellFormed, IsButton
<1> QED
  BY <1>1, <1>3, <1>4

\* ... the device that is made up for an address without configuration ...
LEMMA UnconfiguredIsWellFormed ==
    ASSUME NEW a \in Address
    PROVE  WellFormed(UnconfiguredDevice(a))
<1> DEFINE e == [name |-> NONE, type |-> "switch", profile |-> NONE,
                 command_repeats |-> 1, command_repeat_delay_ms |-> 150]
<1>1. ValidEntry(e)
  BY DEF ValidEntry, PLAIN_TYPES, MAX_COMMAND_REPEATS, MAX_COMMAND_REPEAT_DELAY_MS
<1> HIDE DEF e
<1>2. WellFormed(ParseEntry(a, e, TRUE))
  BY <1>1, ParsedIsWellFormed
<1> QED
  BY <1>2 DEF e, UnconfiguredDevice

\* ... every device that load_config returns ...
LEMMA LoadedIsWellFormed ==
    ASSUME NEW doc, Loads(doc, Env)
    PROVE  WellFormedTable(LoadConfig(doc, Env).devices)
<1> DEFINE E == Entries(doc, Env)
<1>1. \A a \in DOMAIN E : a \in Address /\ ValidEntry(E[a])
  BY DEF Loads
<1> HIDE DEF E
<1>2. /\ DOMAIN LoadConfig(doc, Env).devices = DOMAIN E
      /\ \A a \in DOMAIN E : LoadConfig(doc, Env).devices[a]
                               = ParseEntry(a, E[a], UseFriendlyNames(doc, Env))
  BY DEF LoadConfig, E
<1> QED
  BY <1>1, <1>2, ParsedIsWellFormed DEF WellFormedTable

\* ... and every device of the bridge after devices were added.
LEMMA TablesStayWellFormed ==
    ASSUME NEW devs, WellFormedTable(devs), NEW S \in SUBSET Address
    PROVE  WellFormedTable(WithDevices(devs, S))
  BY UnconfiguredIsWellFormed DEF WithDevices, WellFormedTable

-----------------------------------------------------------------------------
(***************************************************************************)
(* The tables, and the states that follow from them.                       *)
(***************************************************************************)
\* The clock bounds every signature, the tables hold well-formed devices, and
\* a bridge that is not created yet has no connection and no work, and knows
\* nothing.
SetupInv ==
    /\ clock \in Nat
    /\ TypeOK
    /\ WellFormedTable(devices) /\ WellFormedTable(loaded.devices)
    /\ pc \in {"load", "create", "write"} => /\ ~up
                                             /\ \A t \in Handler : jobs[t] = {}
                                             /\ \A t \in Thread : out[t] = {}
    /\ pc \in {"load", "create"} => /\ known = {} /\ discovered = {}
                                    /\ current = [a \in Address |-> NONE]

\* A state is recorded, and on its way to the broker, only for a device whose
\* configuration has one.
StatelessInv ==
    /\ \A a \in Address : ~ManagerConfig(a).stateful => current[a] = NONE
    /\ \A t \in Handler : \A j \in jobs[t] :
         /\ j.address \in known
         /\ ~ManagerConfig(j.address).stateful => j.state = NONE

\* Before main() has run there is nothing to be wrong.
LEMMA SetupInit == Init => SetupInv /\ StatelessInv
<1> SUFFICES ASSUME Init PROVE SetupInv /\ StatelessInv
  OBVIOUS
<1> USE DEF Init, NONE
<1>1. WellFormedTable(devices) /\ WellFormedTable(loaded.devices)
  BY DEF WellFormedTable, NoConfig
<1>2. TypeOK
  <2>1. /\ current \in [Address -> {"ON", "OFF", "DIM", NONE}]
        /\ states \in [Address -> {"ON", "OFF", "DIM", NONE}]
    OBVIOUS
  <2>2. jobs \in [Handler -> SUBSET [address : Address \ HouseFiltered, announce : BOOLEAN,
                                     state : {"ON", "OFF", "DIM", NONE}]]
    OBVIOUS
  <2> QED
    BY <2>1, <2>2 DEF TypeOK
<1>3. clock \in Nat
  OBVIOUS
<1> QED
  BY <1>1, <1>2, <1>3 DEF SetupInv, StatelessInv, up

\* The housecode filter only takes devices away, all of a filtered house.
LEMMA AllowedWellFormed ==
    ASSUME NEW c, WellFormedTable(c.devices)
    PROVE  /\ WellFormedTable(AllowedDevices(c))
           /\ DOMAIN AllowedDevices(c) \subseteq Address \ HouseFiltered
  BY DEF WellFormedTable, AllowedDevices, Allowed

\* A state that is recorded is ON, OFF or DIM.
LEMMA StateTypes ==
    ASSUME NEW c \in STATE_COMMANDS \cup DeviceCommand
    PROVE  AuthoritativeState(c) \in {"ON", "OFF", "DIM"}
  BY DEF STATE_COMMANDS, DeviceCommand, AuthoritativeState, ON_COMMANDS, OFF_COMMANDS

\* An action list of at most one device, for a handler that was idle.
LEMMA JobTypes ==
    ASSUME TypeOK, NEW t \in Handler, NEW S,
           \A j \in S : j \in [address : Address \ HouseFiltered, announce : BOOLEAN,
                                state : {"ON", "OFF", "DIM", NONE}]
    PROVE  [jobs EXCEPT ![t] = S] \in
             [Handler -> SUBSET [address : Address \ HouseFiltered, announce : BOOLEAN,
                                 state : {"ON", "OFF", "DIM", NONE}]]
<1>1. jobs \in [Handler -> SUBSET [address : Address \ HouseFiltered, announce : BOOLEAN,
                                   state : {"ON", "OFF", "DIM", NONE}]]
  BY DEF TypeOK
<1>2. S \in SUBSET [address : Address \ HouseFiltered, announce : BOOLEAN,
                    state : {"ON", "OFF", "DIM", NONE}]
  OBVIOUS
<1> QED
  BY <1>1, <1>2

\* What a report or message for one address does to the tables.
LEMMA RecordInv ==
    ASSUME SetupInv, StatelessInv, Started, WellFormedTable(devices'),
           NEW t \in Handler, NEW a \in Address \ HouseFiltered,
           NEW s \in {"ON", "OFF", "DIM", NONE}, ~ManagerConfig(a).stateful => s = NONE,
           Record(t, a, s)
    PROVE  SetupInv' /\ StatelessInv'
<1> USE DEF Record, disk, main, broker, ghosts
<1> DEFINE first   == up /\ a \notin discovered
           publish == IF s # current[a] THEN s ELSE NONE
           job     == Job(a, first, publish)
<1>1. /\ current' \in [Address -> {"ON", "OFF", "DIM", NONE}]
      /\ states' \in [Address -> {"ON", "OFF", "DIM", NONE}]
  BY DEF SetupInv, TypeOK
<1>2. known' \subseteq Address \ HouseFiltered /\ discovered' \subseteq known'
  BY DEF SetupInv, TypeOK
<1>3. /\ job \in [address : Address \ HouseFiltered, announce : BOOLEAN,
                   state : {"ON", "OFF", "DIM", NONE}]
      /\ job.address = a /\ job.state = publish
  BY DEF Job, up
<1>4. jobs' = jobs \/ jobs' = [jobs EXCEPT ![t] = {job}]
  OBVIOUS
<1>5. ~ManagerConfig(a).stateful => publish = NONE
  OBVIOUS
<1> HIDE DEF job, publish, first
<1>6. jobs' \in [Handler -> SUBSET [address : Address \ HouseFiltered, announce : BOOLEAN,
                                    state : {"ON", "OFF", "DIM", NONE}]]
  <2>1. [jobs EXCEPT ![t] = {job}]
          \in [Handler -> SUBSET [address : Address \ HouseFiltered, announce : BOOLEAN,
                                  state : {"ON", "OFF", "DIM", NONE}]]
    BY <1>3, JobTypes DEF SetupInv
  <2> QED
    BY <1>4, <2>1 DEF SetupInv, TypeOK
<1>7. TypeOK'
  BY <1>1, <1>2, <1>6 DEF SetupInv, TypeOK, WellFormedTable, WellFormed
<1>8. \A u \in Handler : \A j \in jobs'[u] : j \in jobs[u] \/ j = job
  <2>1. DOMAIN jobs = Handler
    BY DEF SetupInv, TypeOK
  <2> QED
    BY <1>4, <2>1
<1>9. StatelessInv'
  <2>1. \A b : ManagerConfig(b)' = ManagerConfig(b)
    BY DEF ManagerConfig
  <2>2. \A b \in Address : ~ManagerConfig(b).stateful => current'[b] = NONE
    BY DEF StatelessInv, SetupInv, TypeOK
  <2>3. \A u \in Handler : \A j \in jobs'[u] :
          j.address \in known' /\ (~ManagerConfig(j.address).stateful => j.state = NONE)
    <3> SUFFICES ASSUME NEW u \in Handler, NEW j \in jobs'[u]
                 PROVE  /\ j.address \in known'
                        /\ ~ManagerConfig(j.address).stateful => j.state = NONE
      OBVIOUS
    <3>1. CASE j \in jobs[u]
      BY <3>1 DEF StatelessInv
    <3>2. CASE j = job
      BY <3>2, <1>3, <1>5
    <3> QED
      BY <1>8, <3>1, <3>2
  <2> QED
    BY <2>1, <2>2, <2>3 DEF StatelessInv
<1> QED
  BY <1>7, <1>9 DEF SetupInv, Started

\* Publishing one discovery message leaves the tables alone.
LEMMA PublishInv ==
    ASSUME SetupInv, StatelessInv, NEW t \in Thread, NEW m, PublishDiscovery(t, m)
    PROVE  SetupInv' /\ StatelessInv'
<1> USE DEF PublishDiscovery, disk, main, runtime, manager
<1>1. /\ UNCHANGED <<disk, main, runtime, manager, session, jobs, states>>
      /\ DOMAIN out' = Thread /\ out[t] # {}
  BY DEF SetupInv, TypeOK
<1>2. TypeOK'
  BY <1>1 DEF SetupInv, TypeOK
<1>3. ~(pc \in {"load", "create", "write"})
  BY <1>1 DEF SetupInv
<1> QED
  BY <1>1, <1>2, <1>3 DEF SetupInv, StatelessInv, WellFormedTable, ManagerConfig, up

\* So does going on with a list of actions.
LEMMA JobStepInv ==
    ASSUME SetupInv, StatelessInv, NEW t \in Handler, NEW j \in jobs[t],
           ExecuteAnnounce(t, j) \/ ExecuteState(t, j)
    PROVE  SetupInv' /\ StatelessInv'
<1> USE DEF disk, main, runtime, manager, broker, ghosts
<1> DEFINE JT == [address : Address \ HouseFiltered, announce : BOOLEAN,
                  state : {"ON", "OFF", "DIM", NONE}]
           k  == [j EXCEPT !.announce = FALSE]
<1>1. /\ jobs \in [Handler -> SUBSET JT] /\ j \in JT /\ j.address \in Address
      /\ j.address \in known /\ (~ManagerConfig(j.address).stateful => j.state = NONE)
  BY DEF SetupInv, TypeOK, StatelessInv
<1>2. k \in JT /\ k.address = j.address /\ k.state = j.state
  BY <1>1
<1>3. \E S : /\ jobs' = [jobs EXCEPT ![t] = S]
             /\ \A x \in S : x \in jobs[t] \/ x = k
  BY DEF ExecuteAnnounce, ExecuteState
<1>4. /\ UNCHANGED <<disk, main, smDevices, known, discovered, current, session, signature>>
      /\ DOMAIN out' = Thread
      /\ states' \in [Address -> {"ON", "OFF", "DIM", NONE}]
  BY <1>1 DEF ExecuteAnnounce, ExecuteState, Build, SetupInv, TypeOK
<1>5. WellFormedTable(devices')
  <2>1. WellFormedTable(WithDevices(devices, {j.address}))
    BY <1>1, TablesStayWellFormed DEF SetupInv
  <2> QED
    BY <2>1 DEF ExecuteAnnounce, ExecuteState, SetupInv, WellFormedTable
<1> HIDE DEF k
<1>6. PICK S : /\ jobs' = [jobs EXCEPT ![t] = S]
               /\ \A x \in S : x \in jobs[t] \/ x = k
  BY <1>3
<1>7. \A x \in S : x \in JT
  BY <1>1, <1>2, <1>6
<1>8. jobs' \in [Handler -> SUBSET JT]
  BY <1>6, <1>7, JobTypes DEF SetupInv
<1>9. TypeOK'
  BY <1>4, <1>5, <1>8 DEF SetupInv, TypeOK, WellFormedTable, WellFormed
<1>10. \A u \in Handler : \A x \in jobs'[u] : x \in jobs[u] \/ x = k
  BY <1>1, <1>6
<1>11. StatelessInv'
  <2>1. \A b : ManagerConfig(b)' = ManagerConfig(b)
    BY <1>4 DEF ManagerConfig
  <2>2. \A u \in Handler : \A x \in jobs'[u] :
          x.address \in known /\ (~ManagerConfig(x.address).stateful => x.state = NONE)
    BY <1>1, <1>2, <1>10 DEF StatelessInv
  <2> QED
    BY <1>4, <2>1, <2>2 DEF StatelessInv
<1>12. ~(pc \in {"load", "create", "write"})
  BY DEF SetupInv
<1> QED
  BY <1>4, <1>5, <1>9, <1>11, <1>12 DEF SetupInv

\* Every step of the process and of the user keeps the two.
LEMMA SetupNext == SetupInv /\ StatelessInv /\ [Next]_vars => SetupInv' /\ StatelessInv'
<1> SUFFICES ASSUME SetupInv, StatelessInv, [Next]_vars
             PROVE  SetupInv' /\ StatelessInv'
  OBVIOUS
<1> USE DEF disk, main, runtime, manager, work, broker, ghosts, up
<1>0. /\ clock \in Nat /\ version \in 0 .. clock
      /\ signature \in 0 .. clock /\ seen \in 0 .. clock
  BY DEF SetupInv, TypeOK
<1>1. CASE Load
  <2>1. WellFormedTable(loaded'.devices)
    BY <1>1, LoadedIsWellFormed DEF Load, SetupInv
  <2> QED
    BY <1>1, <2>1 DEF Load, SetupInv, TypeOK, WellFormedTable, StatelessInv, ManagerConfig
<1>2. CASE CreateBridge
  <2>1. WellFormedTable(devices') /\ DOMAIN devices' \subseteq Address \ HouseFiltered
    BY <1>2, AllowedWellFormed DEF CreateBridge, SetupInv
  <2>2. TypeOK'
    BY <1>2, <2>1 DEF CreateBridge, SetupInv, TypeOK, WellFormedTable, WellFormed
  <2>3. /\ UNCHANGED <<current, jobs, out, session, loaded>>
        /\ current = [a \in Address |-> NONE]
        /\ session = "none"
        /\ (\A t \in Handler : jobs[t] = {}) /\ (\A t \in Thread : out[t] = {})
    BY <1>2 DEF CreateBridge, SetupInv
  <2>4. StatelessInv'
    BY <2>3 DEF StatelessInv
  <2> QED
    BY <1>2, <2>1, <2>2, <2>3, <2>4 DEF CreateBridge, SetupInv
<1>3. CASE WriteConfigFile
  <2>1. /\ clock' \in Nat /\ version' \in 0 .. clock'
        /\ signature' \in 0 .. clock' /\ seen' \in 0 .. clock'
    BY <1>0, <1>3 DEF WriteConfigFile
  <2>2. WellFormedTable(devices') /\ WellFormedTable(loaded'.devices)
    BY <1>3 DEF WriteConfigFile, SetupInv, WellFormedTable
  <2>3. StatelessInv'
    BY <1>3 DEF WriteConfigFile, StatelessInv, ManagerConfig
  <2>4. TypeOK'
    BY <1>3, <2>1 DEF WriteConfigFile, SetupInv, TypeOK
  <2> QED
    BY <1>3, <2>1, <2>2, <2>3, <2>4 DEF WriteConfigFile, SetupInv
<1>4. CASE WriteFails \/ CheckSignature
  BY <1>4 DEF WriteFails, CheckSignature, SetupInv, TypeOK, WellFormedTable,
              StatelessInv, ManagerConfig
<1>5. CASE Reload
  <2>1. WellFormedTable(loaded'.devices)
    BY <1>5, LoadedIsWellFormed DEF Reload, EndReload, NoConfig, SetupInv, WellFormedTable
  <2>2. /\ UNCHANGED <<disk, devices, manager, session, work, states>>
        /\ signature' = signature /\ seen' \in {seen, 0} /\ pc' \in {"apply", "check", "dead"}
    BY <1>5 DEF Reload, EndReload
  <2>3. /\ version' \in 0 .. clock' /\ signature' \in 0 .. clock' /\ seen' \in 0 .. clock'
    BY <1>0, <2>2
  <2>4. TypeOK'
    BY <2>2, <2>3 DEF SetupInv, TypeOK
  <2> QED
    BY <2>1, <2>2, <2>4 DEF SetupInv, WellFormedTable, StatelessInv, ManagerConfig
<1>6. CASE ApplyRuntimeConfig \/ BuildDiscovery \/ SkipDiscovery \/ ReloadRaises \/ FinishReload
  <2>1. WellFormedTable(AllowedDevices(loaded)) /\ WellFormedTable(NoConfig.devices)
    BY AllowedWellFormed DEF SetupInv, NoConfig, WellFormedTable
  <2>2. /\ WellFormedTable(devices') /\ WellFormedTable(loaded'.devices)
        /\ signature' \in {signature, seen} /\ seen' \in {seen, 0}
        /\ pc' \in {"build", "announce", "check", "dead"}
        /\ DOMAIN out' = Thread
        /\ UNCHANGED <<disk, manager, session, jobs, states>>
    <3>1. CASE ApplyRuntimeConfig
      BY <3>1, <2>1 DEF ApplyRuntimeConfig, EndReload, NewSignature, SetupInv, TypeOK
    <3>2. CASE BuildDiscovery \/ SkipDiscovery
      BY <3>2, <2>1 DEF BuildDiscovery, SkipDiscovery, EndReload, NewSignature, Build,
                        SetupInv, TypeOK
    <3>3. CASE ReloadRaises \/ FinishReload
      BY <3>3, <2>1 DEF ReloadRaises, FinishReload, EndReload, NewSignature, SetupInv, TypeOK
    <3> QED
      BY <1>6, <3>1, <3>2, <3>3
  <2>3. /\ version' \in 0 .. clock' /\ signature' \in 0 .. clock' /\ seen' \in 0 .. clock'
    BY <1>0, <2>2
  <2>4. TypeOK'
    BY <2>2, <2>3 DEF SetupInv, TypeOK, WellFormedTable, WellFormed
  <2>5. StatelessInv'
    BY <2>2 DEF StatelessInv, ManagerConfig
  <2> QED
    BY <2>2, <2>4, <2>5 DEF SetupInv
<1>7. CASE OnMqttConnected
  <2> DEFINE S == {Job(a, TRUE, current[a]) : a \in known}
  <2>1. /\ jobs' = [jobs EXCEPT !["mqtt"] = S]
        /\ Started /\ session' = "alive" /\ discovered' = known
        /\ UNCHANGED <<disk, main, runtime, smDevices, known, current, out, broker>>
    BY <1>7 DEF OnMqttConnected, MayBegin
  <2>2. \A j \in S : /\ j \in [address : Address \ HouseFiltered, announce : BOOLEAN,
                                 state : {"ON", "OFF", "DIM", NONE}]
                     /\ j.address \in known /\ j.state = current[j.address]
    <3>1. \A a \in known : /\ a \in Address \ HouseFiltered
                           /\ current[a] \in {"ON", "OFF", "DIM", NONE}
      BY DEF SetupInv, TypeOK
    <3> SUFFICES ASSUME NEW a \in known
                 PROVE  LET j == Job(a, TRUE, current[a])
                        IN  /\ j \in [address : Address \ HouseFiltered, announce : BOOLEAN,
                                      state : {"ON", "OFF", "DIM", NONE}]
                            /\ j.address \in known /\ j.state = current[j.address]
      OBVIOUS
    <3> QED
      BY <3>1 DEF Job
  <2> HIDE DEF S
  <2>3. jobs' \in [Handler -> SUBSET [address : Address \ HouseFiltered, announce : BOOLEAN,
                                      state : {"ON", "OFF", "DIM", NONE}]]
    BY <2>1, <2>2, JobTypes DEF SetupInv, Handler
  <2>4. TypeOK'
    BY <2>1, <2>3 DEF SetupInv, TypeOK, WellFormedTable, WellFormed
  <2>5. \A t \in Handler : \A j \in jobs'[t] : j \in jobs[t] \/ j \in S
    BY <2>1 DEF SetupInv, TypeOK
  <2>6. StatelessInv'
    <3>1. \A b : ManagerConfig(b)' = ManagerConfig(b)
      BY <2>1 DEF ManagerConfig
    <3>2. known \subseteq Address
      BY DEF SetupInv, TypeOK
    <3>3. \A t \in Handler : \A j \in jobs'[t] :
            j.address \in known /\ (~ManagerConfig(j.address).stateful => j.state = NONE)
      BY <2>2, <2>5, <3>2 DEF StatelessInv
    <3> QED
      BY <2>1, <3>1, <3>3 DEF StatelessInv
  <2> QED
    BY <2>1, <2>4, <2>6 DEF Started, SetupInv, WellFormedTable
<1>8. CASE OnMqttDisconnected \/ OnDiagnosticLine \/ SessionLost
  <2>1. /\ UNCHANGED <<disk, main, runtime, manager, jobs, states>> /\ Started
        /\ session' \in {"none", "alive", "lost"} /\ DOMAIN out' = Thread
    BY <1>8 DEF OnMqttDisconnected, OnDiagnosticLine, SessionLost, MayBegin, Build,
                SetupInv, TypeOK
  <2>2. TypeOK'
    BY <2>1 DEF SetupInv, TypeOK
  <2> QED
    BY <2>1, <2>2 DEF SetupInv, WellFormedTable, StatelessInv, ManagerConfig, Started
<1>14. ASSUME NEW t \in Thread, NEW m, PublishDiscovery(t, m)
       PROVE  SetupInv' /\ StatelessInv'
  BY <1>14, PublishInv
<1>15. ASSUME NEW t \in Handler, NEW j \in jobs[t], ExecuteAnnounce(t, j) \/ ExecuteState(t, j)
       PROVE  SetupInv' /\ StatelessInv'
  BY <1>15, JobStepInv
<1>9. ASSUME NEW a \in Address, NEW c \in Command, OnDeviceEvent(a, c)
      PROVE  SetupInv' /\ StatelessInv'
  <2>1. /\ StateOf(a, c) \in {"ON", "OFF", "DIM", NONE}
        /\ ~ManagerConfig(a).stateful => StateOf(a, c) = NONE
    BY StateTypes, SetupAssumption DEF StateOf
  <2>2. /\ Record("mochad", a, StateOf(a, c)) /\ Started /\ a \in Address \ HouseFiltered
        /\ WellFormedTable(devices')
    BY <1>9 DEF OnDeviceEvent, MayBegin, Allowed, SetupInv, WellFormedTable
  <2> QED
    BY <2>1, <2>2, RecordInv DEF Handler
<1>10. ASSUME NEW b \in Address, NEW c \in Command \cap DeviceCommand,
              OnMqttMessage(CommandTopic(b), c)
       PROVE  SetupInv' /\ StatelessInv'
  <2> DEFINE a == CommandTopic(b)[2]
             s == IF OptimisticUpdates THEN StateOf(a, c) ELSE NONE
  <2>1. a \in Address /\ Started /\ devices' = WithDevices(devices, {a})
    BY <1>10 DEF OnMqttMessage, MayBegin, ParsesAsDevice
  <2>2. \/ Allowed(a) /\ Record("mqtt", a, s)
        \/ /\ known' = known \/ (Allowed(a) /\ known' = known \cup {a})
           /\ UNCHANGED <<disk, main, smDevices, discovered, current, session, work, states,
                          signature>>
    BY <1>10 DEF OnMqttMessage
  <2> HIDE DEF a
  <2>3. WellFormedTable(devices')
    BY <2>1, TablesStayWellFormed DEF SetupInv
  <2>4. /\ s \in {"ON", "OFF", "DIM", NONE}
        /\ ~ManagerConfig(a).stateful => s = NONE
    BY StateTypes DEF StateOf
  <2> HIDE DEF s
  <2>5. CASE Allowed(a) /\ Record("mqtt", a, s)
    BY <2>1, <2>3, <2>4, <2>5, RecordInv DEF Allowed, Handler
  <2>6. CASE /\ known' = known \/ (Allowed(a) /\ known' = known \cup {a})
             /\ UNCHANGED <<disk, main, smDevices, discovered, current, session, work, states,
                            signature>>
    <3>1. TypeOK'
      BY <2>1, <2>3, <2>6 DEF SetupInv, TypeOK, WellFormedTable, WellFormed, Allowed
    <3>2. StatelessInv'
      BY <2>6 DEF StatelessInv, ManagerConfig
    <3> QED
      BY <2>1, <2>3, <2>6, <3>1, <3>2 DEF SetupInv, Started
  <2> QED
    BY <2>2, <2>5, <2>6
<1>11. CASE EditFile
  <2>1. /\ clock' \in Nat /\ version' \in 0 .. clock'
        /\ signature' \in 0 .. clock' /\ seen' \in 0 .. clock'
    BY <1>0, <1>11 DEF EditFile
  <2>2. WellFormedTable(devices') /\ WellFormedTable(loaded'.devices)
    BY <1>11 DEF EditFile, SetupInv, WellFormedTable
  <2>3. StatelessInv'
    BY <1>11 DEF EditFile, StatelessInv, ManagerConfig
  <2>4. TypeOK'
    BY <1>11, <2>1 DEF EditFile, SetupInv, TypeOK
  <2> QED
    BY <1>11, <2>1, <2>2, <2>3, <2>4 DEF EditFile, SetupInv
<1>12. CASE Restart
  <2>1. /\ clock' \in Nat /\ version' \in 0 .. clock'
        /\ signature' \in 0 .. clock' /\ seen' \in 0 .. clock'
    BY <1>0, <1>12 DEF Restart
  <2>2. WellFormedTable(devices') /\ WellFormedTable(loaded'.devices)
    BY <1>12 DEF Restart, SetupInv, WellFormedTable, NoConfig
  <2>3. StatelessInv'
    BY <1>12 DEF Restart, StatelessInv, ManagerConfig
  <2>4. TypeOK'
    <3>1. /\ current' \in [Address -> {"ON", "OFF", "DIM", NONE}]
          /\ jobs' = [t \in Handler |-> {}] /\ DOMAIN out' = Thread /\ session' = "none"
      BY <1>12 DEF Restart
    <3>2. DOMAIN devices' = {}
      BY <1>12 DEF Restart
    <3>3. states' \in [Address -> {"ON", "OFF", "DIM", NONE}]
      BY <1>12 DEF Restart, SetupInv, TypeOK
    <3>4. pc' = "load" /\ known' = {} /\ discovered' = {}
      BY <1>12 DEF Restart
    <3> QED
      BY <2>1, <3>1, <3>2, <3>3, <3>4 DEF TypeOK
  <2> QED
    BY <1>12, <2>1, <2>2, <2>3, <2>4 DEF Restart, SetupInv
<1>13. CASE UNCHANGED vars
  BY <1>13 DEF vars, SetupInv, TypeOK, WellFormedTable, StatelessInv, ManagerConfig
<1> QED
  BY <1>1, <1>2, <1>3, <1>4, <1>5, <1>6, <1>7, <1>8, <1>9, <1>10, <1>11, <1>12, <1>13, <1>14,
     <1>15 DEF Next, MainThread, HandlerStep, Thread

\* The two hold throughout.
LEMMA SetupInvariant == Spec => [](SetupInv /\ StatelessInv)
  BY SetupInit, SetupNext, PTL DEF Spec

\* The tables keep their types through every edit, reload, restart and report.
THEOREM TypeCorrect == Spec => []TypeOK
<1>1. SetupInv => TypeOK
  BY DEF SetupInv
<1> QED
  BY <1>1, SetupInvariant, PTL

\* No state is published for an action-only device, by no report, optimistic
\* update or reconnect: the property that a run checks as StatesFollowConfig.
THEOREM StatesFollowCorrect == Spec => StatesFollowConfig
<1> DEFINE Step == \A a \in DOMAIN devices :
                     ~Reconfigured(a) /\ ~devices[a].config.stateful => states'[a] = states[a]
<1>1. ASSUME SetupInv, StatelessInv, [Next]_vars
      PROVE  [Step]_vars
  <2> SUFFICES ASSUME NEW a \in DOMAIN devices,
                      ~Reconfigured(a), ~devices[a].config.stateful
               PROVE  states'[a] = states[a]
    OBVIOUS
  <2>0. /\ a \in Address /\ ~ManagerConfig(a).stateful
        /\ states \in [Address -> {"ON", "OFF", "DIM", NONE}]
    BY <1>1 DEF Reconfigured, ManagerConfig, SetupInv, TypeOK
  <2> USE DEF disk, main, runtime, manager, work, broker, ghosts
  <2>1. CASE MainThread
    BY <2>1 DEF MainThread, Load, CreateBridge, WriteConfigFile, WriteFails, CheckSignature,
                Reload, ApplyRuntimeConfig, BuildDiscovery, SkipDiscovery, PublishDiscovery,
                ReloadRaises, FinishReload
  <2>2. CASE \/ OnMqttConnected \/ OnMqttDisconnected \/ OnDiagnosticLine \/ SessionLost
             \/ EditFile \/ Restart \/ UNCHANGED vars
    BY <2>2 DEF OnMqttConnected, OnMqttDisconnected, OnDiagnosticLine, SessionLost, EditFile,
                Restart, vars
  <2>3. ASSUME NEW b \in Address, NEW c \in Command,
               OnDeviceEvent(b, c) \/ OnMqttMessage(CommandTopic(b), c)
        PROVE  states'[a] = states[a]
    BY <2>3 DEF OnDeviceEvent, OnMqttMessage, Record
  <2>4. ASSUME NEW t \in Handler, HandlerStep(t)
        PROVE  states'[a] = states[a]
    <3>1. ASSUME NEW j \in jobs[t], ExecuteState(t, j)
          PROVE  states'[a] = states[a]
      <4>1. j.address = a => j.state = NONE
        BY <1>1, <2>0 DEF StatelessInv
      <4> QED
        BY <2>0, <3>1, <4>1 DEF ExecuteState
    <3>2. ASSUME NEW j \in jobs[t], ExecuteAnnounce(t, j)
          PROVE  states'[a] = states[a]
      BY <3>2 DEF ExecuteAnnounce
    <3>3. ASSUME NEW m, PublishDiscovery(t, m)
          PROVE  states'[a] = states[a]
      BY <3>3 DEF PublishDiscovery
    <3> QED
      BY <2>4, <3>1, <3>2, <3>3 DEF HandlerStep
  <2> QED
    BY <1>1, <2>1, <2>2, <2>3, <2>4 DEF Next
<1> QED
  BY <1>1, SetupInvariant, PTL DEF Spec, StatesFollowConfig

\* No file with an error in it ends the running bridge, whatever the user edits
\* and when: only a file that is not UTF-8, a device that cannot be announced,
\* and a table that a callback extends while the reload goes through it do.
THEOREM BadFileCorrect == Spec => BadFileIsSurvived
<1> DEFINE Step == Started /\ pc' = "dead" =>
                     \/ pc = "reload" /\ ~file.utf8
                     \/ /\ pc # "reload"
                        /\ ~AllDiscoverable(devices) \/ devices # AllowedDevices(loaded)
<1>1. ASSUME [Next]_vars
      PROVE  [Step]_vars
  <2> SUFFICES ASSUME Started, pc' = "dead"
               PROVE  \/ pc = "reload" /\ ~file.utf8
                      \/ /\ pc # "reload"
                         /\ ~AllDiscoverable(devices) \/ devices # AllowedDevices(loaded)
    OBVIOUS
  <2> USE DEF Started, disk, main, runtime, manager, work, broker, ghosts
  <2>1. CASE MainThread
    <3>1. Reload \/ BuildDiscovery \/ ReloadRaises
      BY <2>1 DEF MainThread, Load, CreateBridge, WriteConfigFile, WriteFails, CheckSignature,
                  ApplyRuntimeConfig, SkipDiscovery, PublishDiscovery, FinishReload, EndReload
    <3> QED
      BY <3>1 DEF Reload, EndReload, BuildDiscovery, ReloadRaises
  <2>2. CASE \/ OnMqttConnected \/ OnMqttDisconnected \/ OnDiagnosticLine \/ SessionLost
             \/ EditFile \/ Restart \/ UNCHANGED vars
    BY <2>2 DEF OnMqttConnected, OnMqttDisconnected, OnDiagnosticLine, SessionLost, EditFile,
                Restart, vars
  <2>3. ASSUME NEW b \in Address, NEW c \in Command,
               OnDeviceEvent(b, c) \/ OnMqttMessage(CommandTopic(b), c)
        PROVE  FALSE
    BY <2>3 DEF OnDeviceEvent, OnMqttMessage, Record
  <2>4. ASSUME NEW t \in Handler, HandlerStep(t)
        PROVE  FALSE
    BY <2>4 DEF HandlerStep, PublishDiscovery, ExecuteAnnounce, ExecuteState
  <2> QED
    BY <1>1, <2>1, <2>2, <2>3, <2>4 DEF Next
<1> QED
  BY <1>1, PTL DEF Spec, BadFileIsSurvived

\* What Home Assistant is offered works, for every configuration: a command of
\* a retained entity is routed to its device and supported there.  It is so for
\* a base topic of one segment: of a base with a "/" no command topic parses.
THEOREM EntityCommandsCorrect ==
    ASSUME Len(BaseTopic) = 1
    PROVE  Spec => []EntityCommandsAccepted
<1>1. SetupInv => EntityCommandsAccepted
  <2> SUFFICES ASSUME SetupInv, NEW a \in DOMAIN devices, ~Reconfigured(a)
               PROVE  LET m == DiscoveryMessage(a, devices[a])
                      IN  /\ Subscribed(m.command_topic)
                          /\ ParsesAsDevice(m.command_topic) /\ m.command_topic[2] = a
                          /\ (IF m.press THEN {"ON"} ELSE {"ON", "OFF"})
                               \subseteq smDevices[a].config.supported_commands
    BY DEF EntityCommandsAccepted
  <2>1. /\ a \in Address /\ WellFormed(devices[a])
        /\ smDevices[a].config = devices[a].config
    BY DEF SetupInv, WellFormedTable, Reconfigured
  <2>2. /\ CommandTopic(a) = << BaseTopic[1], a, "command" >>
        /\ BaseTopic = << BaseTopic[1] >>
    <3>1. BaseTopic = << BaseTopic[1] >>
      BY TopicAssumption
    <3> DEFINE b == BaseTopic[1]
               T == {b, a, "command"}
    <3>2. << b >> \in Seq(T) /\ << a, "command" >> \in Seq(T) /\ << b, a, "command" >> \in Seq(T)
      OBVIOUS
    <3> HIDE DEF b, T
    <3>3. << b >> \o << a, "command" >> = << b, a, "command" >>
      <4>1. << b >> \o << a, "command" >> \in Seq(T)
        BY <3>2, ConcatProperties
      <4>2. Len(<< b >> \o << a, "command" >>) = 3
        BY <3>2, ConcatProperties
      <4>3. \A i \in 1 .. 3 : (<< b >> \o << a, "command" >>)[i] = << b, a, "command" >>[i]
        BY <3>2, ConcatProperties
      <4> QED
        BY <3>2, <4>1, <4>2, <4>3, SeqEqual
    <3> QED
      BY <3>1, <3>3 DEF CommandTopic, b
  <2>3. Subscribed(CommandTopic(a))
    BY <2>2, TopicAssumption DEF Subscribed
  <2>4. ParsesAsDevice(CommandTopic(a)) /\ CommandTopic(a)[2] = a
    BY <2>1, <2>2 DEF ParsesAsDevice, CommandSegment
  <2> QED
    BY <2>1, <2>3, <2>4 DEF DiscoveryMessage, WellFormed
<1> QED
  BY <1>1, SetupInvariant, PTL

-----------------------------------------------------------------------------
(***************************************************************************)
(* Discovery messages, and the table they are built from.                  *)
(***************************************************************************)
\* Two discovery messages on one topic are for one address.
LEMMA DiscoveryTopicsDiffer ==
    ASSUME NEW a, NEW b, NEW d, NEW e, DiscoveryTopic(a, d) = DiscoveryTopic(b, e)
    PROVE  a = b
<1> DEFINE T == STRING \cup {a, b, Component(d), Component(e), "config"}
           s == << Component(d), a, "config" >>
           t == << Component(e), b, "config" >>
<1>1. DiscoveryPrefix \in Seq(STRING)
  BY TopicAssumption
<1>2. DiscoveryPrefix \in Seq(T)
  BY <1>1, SeqMonotonic
<1>3. a \in T /\ b \in T /\ Component(d) \in T /\ Component(e) \in T /\ "config" \in T
  OBVIOUS
<1> HIDE DEF T
<1>4. /\ s \in Seq(T) /\ Len(s) = 3 /\ s[2] = a
      /\ t \in Seq(T) /\ Len(t) = 3 /\ t[2] = b
  BY <1>3
<1>5. DiscoveryPrefix \o s = DiscoveryPrefix \o t
  BY DEF DiscoveryTopic
<1> HIDE DEF s, t
<1>6. s = t
  BY <1>2, <1>4, <1>5, ConcatSimplifications
<1> QED
  BY <1>4, <1>6

\* A discovery message of some device for its address.
IsMessage(m) == \E d : m = DiscoveryMessage(m.address, d)

\* Publishing a message keeps the messages of the other addresses.
LEMMA RetainKeeps ==
    ASSUME NEW m, IsMessage(m), NEW a, NEW d, DiscoveryMessage(a, d) \in retained,
           a # m.address
    PROVE  DiscoveryMessage(a, d) \in Retain(m)
<1>1. PICK e : m = DiscoveryMessage(m.address, e)
  BY DEF IsMessage
<1>2. /\ m.topic = DiscoveryTopic(m.address, e)
      /\ DiscoveryMessage(a, d).topic = DiscoveryTopic(a, d)
  BY <1>1 DEF DiscoveryMessage
<1>3. DiscoveryMessage(a, d).topic # m.topic
  BY <1>2, DiscoveryTopicsDiffer
<1> QED
  BY <1>3 DEF Retain

\* A table with made-up devices added.
Extended(devs, more) ==
    /\ DOMAIN devs \subseteq DOMAIN more
    /\ \A a \in DOMAIN more :
         more[a] = IF a \in DOMAIN devs THEN devs[a] ELSE UnconfiguredDevice(a)

\* Adding devices changes none of those that are there.
LEMMA WithDevicesExtends ==
    ASSUME NEW devs, NEW S
    PROVE  Extended(devs, WithDevices(devs, S)) /\ Extended(devs, devs)
  BY DEF Extended, WithDevices

\* The table is discoverable only if it was before.
LEMMA DiscoverableBefore ==
    ASSUME NEW devs, NEW more, Extended(devs, more), AllDiscoverable(more)
    PROVE  AllDiscoverable(devs)
  BY DEF AllDiscoverable, Extended

-----------------------------------------------------------------------------
(***************************************************************************)
(* What is on its way to the broker.                                       *)
(***************************************************************************)
\* The message of a device of the table.
Current(m) == m.address \in DOMAIN devices /\ m = DiscoveryMessage(m.address, devices[m.address])

\* Only the main thread's announcing step has messages of the main thread, and
\* what a thread has built is what the table says, unless a reload came since.
OutInv ==
    /\ overtaken \subseteq Handler
    /\ pc # "announce" => out["main"] = {}
    /\ \A t \in Thread : \A m \in out[t] : IsMessage(m) /\ (t \notin overtaken => Current(m))

\* The messages built from a table are messages of that table.
LEMMA MessagesAreCurrent ==
    ASSUME NEW devs, NEW S \in SUBSET DOMAIN devs, NEW m \in Messages(devs, S)
    PROVE  /\ IsMessage(m) /\ m.address \in S
           /\ m = DiscoveryMessage(m.address, devs[m.address])
<1>1. PICK a \in S : m = DiscoveryMessage(a, devs[a])
  BY DEF Messages
<1>2. m.address = a
  BY <1>1 DEF DiscoveryMessage
<1> QED
  BY <1>1, <1>2 DEF IsMessage

\* A step that extends the table at most and leaves the messages alone ...
LEMMA OutFrame ==
    ASSUME OutInv, Extended(devices, devices'), out' = out, overtaken' = overtaken,
           pc' # "announce" => out["main"] = {}
    PROVE  OutInv'
<1>1. \A m : Current(m) => Current(m)'
  BY DEF Current, Extended
<1> QED
  BY <1>1 DEF OutInv

\* ... and one in which a thread builds messages of the table.
LEMMA OutBuild ==
    ASSUME OutInv, DOMAIN out = Thread, Extended(devices, devices'), NEW t \in Thread,
           NEW S \in SUBSET DOMAIN devices', Build(t, Messages(devices', S)),
           t # "main" => pc' = pc, t = "main" => pc' = "announce"
    PROVE  OutInv'
<1>1. \A m : Current(m) => Current(m)'
  BY DEF Current, Extended
<1>2. \A m \in Messages(devices', S) : IsMessage(m) /\ Current(m)'
  BY MessagesAreCurrent DEF Current
<1>3. /\ overtaken' = overtaken \ {t}
      /\ \A u \in Thread : out'[u] = IF u = t THEN Messages(devices', S) ELSE out[u]
  BY DEF Build
<1>4. pc' # "announce" => out'["main"] = {}
  BY <1>3 DEF OutInv, Thread
<1>5. \A u \in Thread : \A m \in out'[u] : IsMessage(m) /\ (u \notin overtaken' => Current(m)')
  BY <1>1, <1>2, <1>3 DEF OutInv
<1> QED
  BY <1>3, <1>4, <1>5 DEF OutInv

\* Every step keeps it.
LEMMA OutNext == SetupInv /\ StatelessInv /\ OutInv /\ [Next]_vars => OutInv'
<1> SUFFICES ASSUME SetupInv, StatelessInv, OutInv, [Next]_vars
             PROVE  OutInv'
  OBVIOUS
<1> USE DEF disk, main, runtime, manager, work, broker, ghosts
<1>0. /\ DOMAIN out = Thread /\ Extended(devices, devices)
      /\ \A S : Extended(devices, WithDevices(devices, S))
  BY WithDevicesExtends DEF SetupInv, TypeOK
<1>1. CASE Load \/ WriteConfigFile \/ WriteFails \/ CheckSignature
  BY <1>0, <1>1, OutFrame DEF Load, WriteConfigFile, WriteFails, CheckSignature, OutInv
<1>2. CASE CreateBridge
  <2>1. \A t \in Thread : out'[t] = {}
    BY <1>2 DEF CreateBridge, SetupInv
  <2> QED
    BY <1>2, <2>1 DEF CreateBridge, OutInv, Thread
<1>3. CASE Reload \/ SkipDiscovery \/ ReloadRaises \/ FinishReload
  <2>1. /\ UNCHANGED <<devices, out, overtaken>>
        /\ out["main"] = {}
    BY <1>3 DEF Reload, SkipDiscovery, ReloadRaises, FinishReload, EndReload, OutInv
  <2> QED
    BY <1>0, <2>1, OutFrame
<1>4. CASE ApplyRuntimeConfig
  <2>1. out["main"] = {} /\ out' = out
    BY <1>4 DEF ApplyRuntimeConfig, OutInv
  <2>2. CASE overtaken' = {t \in Handler : out[t] # {}}
    BY <2>1, <2>2 DEF OutInv, Thread
  <2>3. CASE devices' = devices /\ overtaken' = overtaken
    BY <1>0, <2>1, <2>3, OutFrame
  <2> QED
    BY <1>4, <2>2, <2>3 DEF ApplyRuntimeConfig
<1>5. CASE BuildDiscovery
  <2>1. CASE AllDiscoverable(devices)
    <3>1. /\ devices' = devices /\ pc' = "announce"
          /\ Build("main", Messages(devices', DOMAIN devices'))
      BY <1>5, <2>1 DEF BuildDiscovery
    <3> QED
      BY <1>0, <3>1, OutBuild DEF Thread
  <2>2. CASE ~AllDiscoverable(devices)
    <3>1. UNCHANGED <<devices, out, overtaken>> /\ out["main"] = {}
      BY <1>5, <2>2 DEF BuildDiscovery, OutInv
    <3> QED
      BY <1>0, <3>1, OutFrame
  <2> QED
    BY <2>1, <2>2
<1>6. ASSUME NEW t \in Thread, NEW m \in out[t], PublishDiscovery(t, m)
      PROVE  OutInv'
  <2>1. /\ UNCHANGED <<devices, pc>> /\ overtaken' \subseteq overtaken
        /\ \A u \in Thread : u \in overtaken \ overtaken' => out'[u] = {}
        /\ \A u \in Thread : out'[u] \subseteq out[u]
    BY <1>0, <1>6 DEF PublishDiscovery
  <2>2. \A x : Current(x)' <=> Current(x)
    BY <2>1 DEF Current
  <2>3. "main" \in Thread
    BY DEF Thread
  <2>4. overtaken' \subseteq Handler /\ (pc' # "announce" => out'["main"] = {})
    BY <2>1, <2>3 DEF OutInv
  <2> QED
    BY <2>1, <2>2, <2>4 DEF OutInv
<1>7. CASE OnDiagnosticLine
  <2>1. /\ UNCHANGED <<devices, pc>>
        /\ Build("mochad", Messages(devices', DOMAIN devices'))
    BY <1>7 DEF OnDiagnosticLine
  <2> QED
    BY <1>0, <2>1, OutBuild DEF Thread, Handler
<1>8. ASSUME NEW t \in Handler, NEW j \in jobs[t], ExecuteAnnounce(t, j)
      PROVE  OutInv'
  <2>1. pc' = pc /\ Extended(devices, devices')
    BY <1>0, <1>8 DEF ExecuteAnnounce
  <2>2. CASE UNCHANGED <<out, overtaken>>
    BY <2>1, <2>2, OutFrame DEF OutInv
  <2>3. CASE up /\ Build(t, Messages(devices', {j.address}))
    <3>1. {j.address} \in SUBSET DOMAIN devices' /\ t \in Thread /\ t # "main"
      BY <1>8, <2>3 DEF ExecuteAnnounce, WithDevices, Thread, Handler
    <3> QED
      BY <1>0, <2>1, <2>3, <3>1, OutBuild
  <2> QED
    BY <1>8, <2>2, <2>3 DEF ExecuteAnnounce
<1>9. ASSUME NEW t \in Handler, NEW j \in jobs[t], ExecuteState(t, j)
      PROVE  OutInv'
  BY <1>0, <1>9, OutFrame DEF ExecuteState, OutInv
<1>10. CASE OnMqttConnected \/ OnMqttDisconnected \/ SessionLost \/ EditFile
  BY <1>0, <1>10, OutFrame DEF OnMqttConnected, OnMqttDisconnected, SessionLost, EditFile, OutInv
<1>11. ASSUME NEW b \in Address, NEW c \in Command,
              OnDeviceEvent(b, c) \/ OnMqttMessage(CommandTopic(b), c)
       PROVE  OutInv'
  <2>1. UNCHANGED <<out, overtaken, pc>> /\ Extended(devices, devices')
    BY <1>0, <1>11 DEF OnDeviceEvent, OnMqttMessage, Record
  <2> QED
    BY <2>1, OutFrame DEF OutInv
<1>12. CASE Restart
  BY <1>12 DEF Restart, OutInv, Thread
<1>13. CASE UNCHANGED vars
  BY <1>0, <1>13, OutFrame DEF vars, OutInv
<1> QED
  BY <1>1, <1>2, <1>3, <1>4, <1>5, <1>6, <1>7, <1>8, <1>9, <1>10, <1>11, <1>12, <1>13
     DEF Next, MainThread, HandlerStep, Thread

-----------------------------------------------------------------------------
(***************************************************************************)
(* Discovery.                                                              *)
(***************************************************************************)
\* AnnouncedAsConfigured with what it needs when MQTT is down or a device
\* cannot be announced: a device that is neither announced nor about to be is
\* one that the manager knows, and will be announced with the next connection.
\* Reloads are what brings in devices that the manager does not know.
Announced(a) == DiscoveryMessage(a, devices[a]) \in retained
WillConnect(a) == a \in known /\ (up => ~AllDiscoverable(devices))
AnnounceInv ==
    Started \/ pc = "write" =>
      \A a \in DOMAIN devices \ behind :
        devices[a] # UnconfiguredDevice(a) => Announced(a) \/ Announcing(a) \/ WillConnect(a)

\* A step that extends the table at most, publishes nothing, and takes no
\* announcement away that is not made by it or given up for a reason.
LEMMA AnnounceMore ==
    ASSUME AnnounceInv, Started, Extended(devices, devices'), UNCHANGED <<retained, behind>>,
           known \subseteq known', up' => up,
           \A a \in DOMAIN devices : Announcing(a) => Announcing(a)' \/ WillConnect(a)'
    PROVE  AnnounceInv'
<1> SUFFICES ASSUME NEW a \in DOMAIN devices' \ behind, devices'[a] # UnconfiguredDevice(a)
             PROVE  Announced(a)' \/ Announcing(a)' \/ WillConnect(a)'
  BY DEF AnnounceInv
<1>1. a \in DOMAIN devices /\ devices'[a] = devices[a]
  BY DEF Extended
<1>2. Announced(a) \/ Announcing(a) \/ WillConnect(a)
  BY <1>1 DEF AnnounceInv
<1>3. Announced(a) => Announced(a)'
  BY <1>1 DEF Announced
<1>4. AllDiscoverable(devices)' => AllDiscoverable(devices)
  BY DiscoverableBefore DEF AllDiscoverable
<1>5. WillConnect(a) => WillConnect(a)'
  BY <1>4 DEF WillConnect
<1> QED
  BY <1>1, <1>2, <1>3, <1>5

\* The announcements of a table that is only extended stay where they are, if
\* the main thread does not go on and the threads keep what they have.
LEMMA AnnouncingStays ==
    ASSUME Extended(devices, devices'), pc' = pc, NEW a \in DOMAIN devices,
           \A t \in Thread : out[t] \subseteq out'[t],
           \A j \in jobs["mqtt"] : j.address = a /\ j.announce => j \in jobs'["mqtt"]
    PROVE  Announcing(a) => Announcing(a)'
<1>1. devices'[a] = devices[a]
  BY DEF Extended
<1> QED
  BY <1>1 DEF Announcing

\* Publishing one message, delivered or lost, current or overtaken.
LEMMA PublishAnnounces ==
    ASSUME SetupInv, OutInv, AnnounceInv, NEW t \in Thread, NEW m \in out[t],
           PublishDiscovery(t, m)
    PROVE  AnnounceInv'
<1> USE DEF PublishDiscovery, main, disk, runtime, manager
<1>0. /\ DOMAIN out = Thread /\ IsMessage(m) /\ (t \notin overtaken => Current(m))
      /\ UNCHANGED <<devices, pc, known, session, jobs>>
  BY DEF SetupInv, TypeOK, OutInv
<1> SUFFICES ASSUME Started \/ pc = "write",
                    NEW a \in DOMAIN devices \ behind', devices[a] # UnconfiguredDevice(a)
             PROVE  Announced(a)' \/ Announcing(a)' \/ WillConnect(a)'
  BY <1>0 DEF AnnounceInv, Started
<1>1. CASE a = m.address
  <2>1. session = "alive" /\ t \notin overtaken
    BY <1>1
  <2>2. m = DiscoveryMessage(a, devices[a])
    BY <1>0, <1>1, <2>1 DEF Current
  <2> QED
    BY <1>0, <2>1, <2>2 DEF Announced, Retain
<1>2. CASE a # m.address
  <2>1. a \in DOMAIN devices \ behind
    BY <1>2
  <2>2. Announced(a) \/ Announcing(a) \/ WillConnect(a)
    BY <2>1 DEF AnnounceInv
  <2>3. Announced(a) => Announced(a)'
    BY <1>0, <1>2, RetainKeeps DEF Announced
  <2>4. WillConnect(a) => WillConnect(a)'
    BY <1>0 DEF WillConnect, up, AllDiscoverable
  <2>5. Announcing(a) => Announcing(a)'
    <3>1. DiscoveryMessage(a, devices[a]) # m
      BY <1>2 DEF DiscoveryMessage
    <3>2. \A u \in Thread : DiscoveryMessage(a, devices[a]) \in out[u]
                              => DiscoveryMessage(a, devices[a]) \in out'[u]
      BY <1>0, <3>1
    <3> QED
      BY <1>0, <3>2 DEF Announcing
  <2> QED
    BY <2>2, <2>3, <2>4, <2>5
<1> QED
  BY <1>1, <1>2

\* The announcement in a list of actions: dropped, built, or given up with the
\* rest of the list.
LEMMA JobAnnounces ==
    ASSUME SetupInv, StatelessInv, AnnounceInv, Started, NEW t \in Handler, NEW j \in jobs[t],
           ExecuteAnnounce(t, j)
    PROVE  AnnounceInv'
<1> USE DEF ExecuteAnnounce, main, disk, manager, broker
<1>0. /\ DOMAIN out = Thread /\ out[t] = {} /\ t \in Thread /\ t # "main"
      /\ UNCHANGED <<retained, behind, known, session, pc>> /\ up' = up
      /\ DOMAIN jobs = Handler /\ j.announce
      /\ Extended(devices, devices')
  BY WithDevicesExtends DEF SetupInv, TypeOK, Thread, Handler, up
<1>1. \A a \in DOMAIN devices : Announcing(a) => Announcing(a)' \/ WillConnect(a)'
  <2> SUFFICES ASSUME NEW a \in DOMAIN devices, Announcing(a)
               PROVE  Announcing(a)' \/ WillConnect(a)'
    OBVIOUS
  <2>1. devices'[a] = devices[a]
    BY <1>0 DEF Extended
  <2>2. \A u \in Thread : out[u] \subseteq out'[u]
    BY <1>0 DEF Build
  <2>3. CASE \A k \in jobs["mqtt"] : k.address = a /\ k.announce => k \in jobs'["mqtt"]
    BY <1>0, <2>2, <2>3, AnnouncingStays
  <2>4. CASE ~(\A k \in jobs["mqtt"] : k.address = a /\ k.announce => k \in jobs'["mqtt"])
    <3>1. PICK k \in jobs["mqtt"] : k.address = a /\ k.announce /\ k \notin jobs'["mqtt"]
      BY <2>4
    <3>2. t = "mqtt" /\ a \in known
      BY <1>0, <3>1 DEF StatelessInv, Handler
    <3>3. CASE ~up
      BY <1>0, <3>2, <3>3 DEF WillConnect
    <3>4. CASE up /\ Discoverable(j.address, devices'[j.address])
      <4>1. k = j /\ Build(t, Messages(devices', {j.address}))
        BY <1>0, <3>1, <3>2, <3>4
      <4>2. DiscoveryMessage(a, devices'[a]) \in out'[t]
        BY <1>0, <3>1, <4>1 DEF Build, Messages
      <4> QED
        BY <1>0, <4>2 DEF Announcing
    <3>5. CASE up /\ ~Discoverable(j.address, devices'[j.address])
      <4>1. j.address \in DOMAIN devices'
        BY <3>5 DEF WithDevices
      <4>2. ~AllDiscoverable(devices)'
        BY <3>5, <4>1 DEF AllDiscoverable
      <4> QED
        BY <1>0, <3>2, <4>2 DEF WillConnect
    <3> QED
      BY <3>3, <3>4, <3>5
  <2> QED
    BY <2>3, <2>4
<1> QED
  BY <1>0, <1>1, AnnounceMore

\* While MQTT is up the broker retains the entity and the name of the present
\* configuration for every configured device, or a thread is about to publish
\* it, through all edits, reloads, restarts, reconnects and interleavings of the
\* three threads: with the exceptions AnnouncedAsConfigured names.
THEOREM AnnouncedCorrect == Spec => []AnnouncedAsConfigured
<1>1. Init => AnnounceInv /\ OutInv
  BY DEF Init, AnnounceInv, OutInv, Started, Thread
<1>2. SetupInv /\ StatelessInv /\ OutInv /\ AnnounceInv /\ [Next]_vars => AnnounceInv'
  <2> SUFFICES ASSUME SetupInv, StatelessInv, OutInv, AnnounceInv, [Next]_vars
               PROVE  AnnounceInv'
    OBVIOUS
  <2> USE DEF disk, main, runtime, manager, work, broker, ghosts
  <2>0. /\ DOMAIN out = Thread /\ DOMAIN jobs = Handler
        /\ Extended(devices, devices)
        /\ \A S : Extended(devices, WithDevices(devices, S))
    BY WithDevicesExtends DEF SetupInv, TypeOK
  <2>1. CASE Load
    BY <2>1 DEF Load, AnnounceInv, Started
  <2>2. CASE CreateBridge
    BY <2>2 DEF CreateBridge, AnnounceInv, SetupInv, WillConnect, up
  <2>3. CASE WriteConfigFile \/ WriteFails \/ CheckSignature \/ Reload
    <3>1. /\ Started \/ pc = "write"
          /\ UNCHANGED <<devices, retained, known, session, behind, out, jobs>>
          /\ pc # "build" /\ pc' # "build"
      BY <2>3 DEF WriteConfigFile, WriteFails, CheckSignature, Reload, EndReload, Started
    <3> QED
      BY <3>1 DEF AnnounceInv, Announced, Announcing, WillConnect, AllDiscoverable, up
  <2>4. CASE ApplyRuntimeConfig
    <3>1. CASE pc' = "build"
      BY <3>1 DEF AnnounceInv, Announcing
    <3>2. CASE pc' # "build"
      <4>1. /\ Started /\ pc # "build"
            /\ UNCHANGED <<devices, retained, known, session, behind, out, jobs>>
        BY <2>4, <3>2 DEF ApplyRuntimeConfig, Started
      <4> QED
        BY <3>2, <4>1 DEF AnnounceInv, Announced, Announcing, WillConnect, AllDiscoverable, up
    <3> QED
      BY <3>1, <3>2
  <2>5. CASE BuildDiscovery
    <3>1. CASE pc' = "dead"
      BY <3>1 DEF AnnounceInv, Started
    <3>2. CASE pc' # "dead"
      <4>1. /\ devices' = devices
            /\ out' = [out EXCEPT !["main"] = Messages(devices, DOMAIN devices)]
        BY <2>5, <3>2 DEF BuildDiscovery, Build
      <4>2. \A a \in DOMAIN devices : DiscoveryMessage(a, devices[a]) \in out'["main"]
        BY <2>0, <4>1 DEF Messages, Thread
      <4>3. \A a \in DOMAIN devices' : Announcing(a)'
        BY <4>1, <4>2 DEF Announcing, Thread
      <4> QED
        BY <4>3 DEF AnnounceInv
    <3> QED
      BY <3>1, <3>2
  <2>6. CASE SkipDiscovery
    BY <2>6 DEF SkipDiscovery, AnnounceInv
  <2>7. CASE ReloadRaises
    BY <2>7 DEF ReloadRaises, AnnounceInv, Started
  <2>8. CASE FinishReload
    <3>1. /\ Started /\ pc # "build" /\ pc' # "build"
          /\ UNCHANGED <<devices, retained, known, session, behind, out, jobs>>
      BY <2>8 DEF FinishReload, EndReload, Started
    <3> QED
      BY <3>1 DEF AnnounceInv, Announced, Announcing, WillConnect, AllDiscoverable, up
  <2>9. CASE OnMqttConnected
    <3>1. /\ Started /\ UNCHANGED <<devices, retained, known, behind, pc, out>>
          /\ jobs["mqtt"] = {}
          /\ jobs' = [jobs EXCEPT !["mqtt"] = {Job(a, TRUE, current[a]) : a \in known}]
      BY <2>9 DEF OnMqttConnected, MayBegin, Idle
    <3>2. \A a \in known : Announcing(a)'
      <4>1. \A a \in known : Job(a, TRUE, current[a]) \in jobs'["mqtt"]
        BY <2>0, <3>1 DEF Handler
      <4> QED
        BY <4>1 DEF Announcing, Job
    <3>3. \A a : Announcing(a) => Announcing(a)'
      BY <3>1 DEF Announcing
    <3> QED
      BY <3>1, <3>2, <3>3 DEF AnnounceInv, Announced, WillConnect, Started
  <2>10. CASE OnMqttDisconnected \/ SessionLost
    <3>1. /\ Started /\ UNCHANGED <<devices, retained, known, behind, pc, out, jobs>>
          /\ up' => up
      BY <2>10 DEF OnMqttDisconnected, SessionLost, up
    <3>2. \A a \in DOMAIN devices : Announcing(a) => Announcing(a)'
      BY <3>1 DEF Announcing
    <3> QED
      BY <2>0, <3>1, <3>2, AnnounceMore
  <2>11. CASE OnDiagnosticLine
    <3>1. /\ Started /\ UNCHANGED <<devices, retained, known, session, behind, pc, jobs>>
          /\ \A u \in Thread : out[u] \subseteq out'[u]
      BY <2>0, <2>11 DEF OnDiagnosticLine, MayBegin, Idle, Build
    <3>2. \A a \in DOMAIN devices : Announcing(a) => Announcing(a)'
      BY <2>0, <3>1, AnnouncingStays
    <3> QED
      BY <2>0, <3>1, <3>2, AnnounceMore DEF up
  <2>12. ASSUME NEW b \in Address, NEW c \in Command,
                OnDeviceEvent(b, c) \/ OnMqttMessage(CommandTopic(b), c)
         PROVE  AnnounceInv'
    <3>1. /\ Started /\ UNCHANGED <<retained, session, behind, pc, out>>
          /\ known \subseteq known' /\ Extended(devices, devices')
      BY <2>0, <2>12 DEF OnDeviceEvent, OnMqttMessage, Record, MayBegin
    <3>2. jobs["mqtt"] \subseteq jobs'["mqtt"]
      BY <2>0, <2>12 DEF OnDeviceEvent, OnMqttMessage, Record, MayBegin, Idle, Handler
    <3>3. \A a \in DOMAIN devices : Announcing(a) => Announcing(a)'
      BY <3>1, <3>2, AnnouncingStays
    <3> QED
      BY <3>1, <3>3, AnnounceMore DEF up
  <2>13. ASSUME NEW t \in Thread, NEW m \in out[t], PublishDiscovery(t, m)
         PROVE  AnnounceInv'
    BY <2>13, PublishAnnounces
  <2>14. ASSUME NEW t \in Handler, Started, NEW j \in jobs[t], ExecuteAnnounce(t, j)
         PROVE  AnnounceInv'
    BY <2>14, JobAnnounces
  <2>15. ASSUME NEW t \in Handler, Started, NEW j \in jobs[t], ExecuteState(t, j)
         PROVE  AnnounceInv'
    <3>1. /\ UNCHANGED <<devices, retained, known, session, behind, pc, out>>
          /\ \A k \in jobs["mqtt"] : k.announce => k \in jobs'["mqtt"]
      BY <2>0, <2>15 DEF ExecuteState, Handler
    <3>2. \A a \in DOMAIN devices : Announcing(a) => Announcing(a)'
      BY <2>0, <3>1, AnnouncingStays
    <3> QED
      BY <2>0, <2>15, <3>1, <3>2, AnnounceMore DEF up
  <2>16. CASE EditFile \/ UNCHANGED vars
    <3>1. UNCHANGED <<devices, retained, known, session, behind, pc, out, jobs>>
      BY <2>16 DEF EditFile, vars
    <3> QED
      BY <3>1 DEF AnnounceInv, Announced, Announcing, WillConnect, AllDiscoverable, up, Started
  <2>17. CASE Restart
    BY <2>17 DEF Restart, AnnounceInv, Started
  <2> QED
    BY <2>1, <2>2, <2>3, <2>4, <2>5, <2>6, <2>7, <2>8, <2>9, <2>10, <2>11, <2>12, <2>13, <2>14,
       <2>15, <2>16, <2>17 DEF Next, MainThread, HandlerStep, Thread
<1>3. AnnounceInv => AnnouncedAsConfigured
  BY DEF AnnounceInv, AnnouncedAsConfigured, Announced, WillConnect
<1> QED
  BY <1>1, <1>2, <1>3, OutNext, SetupInvariant, PTL DEF Spec
=============================================================================
