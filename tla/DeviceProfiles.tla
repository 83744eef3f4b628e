--------------------------- MODULE DeviceProfiles ---------------------------
(***************************************************************************)
(* device_registry: what each X10 product can do.  Of a profile the fields *)
(* that the bridge reads are kept, which are those of a DeviceConfig; the  *)
(* description, the capabilities, the secondary channels, the sequences    *)
(* and the modes of operation are copied and never read.                   *)
(***************************************************************************)
EXTENDS X10Vocabulary

ON_OFF         == {"ON", "OFF"}
ON_ONLY        == {"ON"}
LIGHT_COMMANDS == {"ON", "OFF", "DIM", "BRIGHT"}

\* DeviceProfile; the two responses to All Lights are equal in every profile.
Profile(type, commands, stateful, unitsOff, lights) ==
    [entity_type             |-> type,
     supported_commands      |-> commands,
     stateful                |-> stateful,
     all_units_off_response  |-> unitsOff,
     all_lights_off_response |-> lights,
     all_lights_on_response  |-> lights]

\* The profiles that are a stateful switch and nothing more.
SWITCH_PROFILES ==
    {"generic_switch", "um506_continuous", "ms13a_motion", "ms14a_motion",
     "ms16a_activeeye", "powerflash_mode_1", "powerflash_mode_3", "rr501_unit_1",
     "rr501_unit_9", "grouped_address_function"}

PROFILE_IDS ==
    SWITCH_PROFILES \cup
    {"generic_light", "lm15a_socket_rocket", "um506_momentary", "sc546a_chime",
     "pr511_motion_monitor", "powerflash_mode_2", "powerhorn"}

\* Mutant: a light that is on or off is given the commands of a button.
MutDeviceProfile(p) ==
    CASE p \in SWITCH_PROFILES        -> Profile("SWITCH", ON_OFF, TRUE, TRUE, FALSE)
      [] p = "generic_light"          -> Profile("LIGHT", LIGHT_COMMANDS, TRUE, TRUE, TRUE)
      [] p = "lm15a_socket_rocket"    -> Profile("LIGHT", ON_ONLY, TRUE, TRUE, TRUE)
      [] p = "pr511_motion_monitor"   -> Profile("LIGHT", ON_OFF, TRUE, TRUE, FALSE)
      [] p = "um506_momentary"        -> Profile("SWITCH", ON_ONLY, FALSE, TRUE, FALSE)
      [] p = "powerflash_mode_2"      -> Profile("SWITCH", ON_OFF, FALSE, TRUE, FALSE)
      [] p = "sc546a_chime"           -> Profile("CHIME", ON_ONLY, FALSE, FALSE, FALSE)
      [] p = "powerhorn"              ->
           Profile("CHIME", LIGHT_COMMANDS \cup {"ALL_LIGHTS_ON", "ALL_UNITS_OFF"},
                   FALSE, FALSE, FALSE)

\* DEVICE_PROFILES.
DeviceProfile(p) ==
    CASE p \in SWITCH_PROFILES        -> Profile("SWITCH", ON_OFF, TRUE, TRUE, FALSE)
      [] p = "generic_light"          -> Profile("LIGHT", LIGHT_COMMANDS, TRUE, TRUE, TRUE)
      [] p = "lm15a_socket_rocket"    -> Profile("LIGHT", ON_OFF, TRUE, TRUE, TRUE)
      [] p = "pr511_motion_monitor"   -> Profile("LIGHT", ON_OFF, TRUE, TRUE, FALSE)
      [] p = "um506_momentary"        -> Profile("SWITCH", ON_ONLY, FALSE, TRUE, FALSE)
      [] p = "powerflash_mode_2"      -> Profile("SWITCH", ON_OFF, FALSE, TRUE, FALSE)
      [] p = "sc546a_chime"           -> Profile("CHIME", ON_ONLY, FALSE, FALSE, FALSE)
      [] p = "powerhorn"              ->
           Profile("CHIME", LIGHT_COMMANDS \cup {"ALL_LIGHTS_ON", "ALL_UNITS_OFF"},
                   FALSE, FALSE, FALSE)
=============================================================================
