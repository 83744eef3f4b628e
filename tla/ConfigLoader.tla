---------------------------- MODULE ConfigLoader ----------------------------
(***************************************************************************)
(* config: from the environment and the optional JSON file to the devices  *)
(* of the bridge, and back to the file that the bridge writes when there   *)
(* is none.                                                                *)
(*                                                                         *)
(* The text of X10_DEVICES and the list, object and string forms of the    *)
(* file all come down to one entry per address (of two entries for an      *)
(* address the last counts); an entry is what remains when the defaults of *)
(* missing fields are filled in.  Only the JSON forms have a profile       *)
(* field.  All the words are already stripped and in lower case.           *)
(***************************************************************************)
EXTENDS DeviceProfiles, Naturals

CONSTANT Address    \* the valid X10 addresses that occur; other keys are invalid

ASSUME LoaderAssumption == {NONE, ""} \cap Address = {}

MAX_COMMAND_REPEATS         == 5
MAX_COMMAND_REPEAT_DELAY_MS == 5000

PLAIN_TYPES == {"light", "switch", "chime"}

\* _parse_device_type, and its inverse in _device_to_file_payload.
ParseDeviceType(word) ==
    CASE word = "light" -> "LIGHT" [] word = "switch" -> "SWITCH" [] word = "chime" -> "CHIME"
TypeWord(type) ==
    CASE type = "LIGHT" -> "light" [] type = "SWITCH" -> "switch" [] type = "CHIME" -> "chime"

\* _parse_device_type_and_profile: without a profile field the type may name
\* a profile; with one it must be a plain type, which the profile overrides.
ValidEntry(e) ==
    /\ IF e.profile = NONE
       THEN e.type \in PLAIN_TYPES \cup PROFILE_IDS
       ELSE e.type \in PLAIN_TYPES /\ e.profile \in PROFILE_IDS
    /\ e.command_repeats \in 1 .. MAX_COMMAND_REPEATS
    /\ e.command_repeat_delay_ms \in 0 .. MAX_COMMAND_REPEAT_DELAY_MS

EntryProfile(e) ==
    IF e.profile = NONE /\ e.type \in PROFILE_IDS THEN e.type ELSE e.profile

DisplayName(a, name, friendly) ==
    IF friendly /\ name \notin {NONE, ""} THEN name ELSE a

\* _device_config: DeviceConfig, then apply_profile.
ParseEntry(a, e, friendly) ==
    [name                    |-> DisplayName(a, e.name, friendly),
     profile                 |-> EntryProfile(e),
     command_repeats         |-> e.command_repeats,
     command_repeat_delay_ms |-> e.command_repeat_delay_ms,
     config                  |-> IF EntryProfile(e) = NONE
                                 THEN DefaultConfig(ParseDeviceType(e.type))
                                 ELSE DeviceProfile(EntryProfile(e))]

\* The device the bridge makes up for an address nobody configured.
UnconfiguredDevice(a) ==
    ParseEntry(a, [name |-> NONE, type |-> "switch", profile |-> NONE,
                   command_repeats |-> 1, command_repeat_delay_ms |-> 150], TRUE)

(***************************************************************************)
(* A document is the content of the file: whether it is text in UTF-8 and  *)
(* a JSON object, the word for use_friendly_names, which of the two device *)
(* fields it has, and the entries.  A missing file counts as an empty      *)
(* object.                                                                 *)
(***************************************************************************)
EmptyDocument ==
    [utf8 |-> TRUE, object |-> TRUE, friendly |-> NONE, fields |-> {}, entries |-> << >>]

\* _file_bool and _devices_from_sources.
UseFriendlyNames(doc, env) ==
    IF doc.friendly = NONE THEN env.friendly ELSE doc.friendly = "true"

Entries(doc, env) == IF doc.fields = {} THEN env.entries ELSE doc.entries

\* load_config returns.  It raises UnicodeDecodeError for a file that is not
\* UTF-8, where only OSError is caught, and ConfigError for all the others.
Loads(doc, env) ==
    /\ doc.utf8
    /\ doc.object
    /\ doc.friendly \in {NONE, "true", "false"}
    /\ doc.fields # {"devices", "x10_devices"}
    /\ \A a \in DOMAIN Entries(doc, env) : a \in Address /\ ValidEntry(Entries(doc, env)[a])

LoadConfig(doc, env) ==
    [use_friendly_names |-> UseFriendlyNames(doc, env),
     devices |-> [a \in DOMAIN Entries(doc, env) |->
                    ParseEntry(a, Entries(doc, env)[a], UseFriendlyNames(doc, env))]]

\* Mutant: the profile is not written.
MutDeviceToFilePayload(d) ==
    [name                    |-> d.name,
     type                    |-> TypeWord(d.config.entity_type),
     profile                 |-> NONE,
     command_repeats         |-> d.command_repeats,
     command_repeat_delay_ms |-> d.command_repeat_delay_ms]

DeviceToFilePayload(d) ==
    [name                    |-> d.name,
     type                    |-> TypeWord(d.config.entity_type),
     profile                 |-> d.profile,
     command_repeats         |-> d.command_repeats,
     command_repeat_delay_ms |-> d.command_repeat_delay_ms]

ConfigFilePayload(config) ==
    [utf8     |-> TRUE,
     object   |-> TRUE,
     friendly |-> IF config.use_friendly_names THEN "true" ELSE "false",
     fields   |-> {"devices"},
     entries  |-> [a \in DOMAIN config.devices |-> DeviceToFilePayload(config.devices[a])]]
=============================================================================
