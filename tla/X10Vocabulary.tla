--------------------------- MODULE X10Vocabulary ---------------------------
(***************************************************************************)
(* The vocabulary shared by every component of the bridge: X10 commands,   *)
(* the states they stand for, device types and device configurations.      *)
(***************************************************************************)

NONE == "none"      \* Python's None

\* models.Command, without STATUS_REQUEST and UNKNOWN's many spellings.
DeviceCommand == {"ON", "OFF", "DIM", "BRIGHT"}
HouseCommand  == {"ALL_UNITS_OFF", "ALL_LIGHTS_OFF", "ALL_LIGHTS_ON"}
EventCommand  == DeviceCommand \cup HouseCommand
                   \cup {"STATUS_ON", "STATUS_OFF", "STATUS_REQUEST", "UNKNOWN"}

\* state.STATE_COMMANDS, ON_COMMANDS and OFF_COMMANDS.
STATE_COMMANDS == {"ON", "OFF", "DIM", "BRIGHT", "STATUS_ON", "STATUS_OFF"}
ON_COMMANDS    == {"ON", "BRIGHT", "STATUS_ON"}
OFF_COMMANDS   == {"OFF", "STATUS_OFF"}

\* Mutant: the command is recorded as it is.
MutAuthoritativeState(c) == c

\* What a state command makes the recorded state of a device.
AuthoritativeState(c) ==
    CASE c \in ON_COMMANDS  -> "ON"
      [] c \in OFF_COMMANDS -> "OFF"
      [] OTHER              -> c

DeviceType == {"SWITCH", "LIGHT", "CHIME"}

DeviceConfig ==
    [entity_type            : DeviceType,
     supported_commands     : SUBSET (DeviceCommand \cup HouseCommand),
     stateful               : BOOLEAN,
     all_units_off_response : BOOLEAN,
     all_lights_off_response: BOOLEAN,
     all_lights_on_response : BOOLEAN]

\* DeviceConfig.__post_init__ for a device that names no commands.
DefaultConfig(type) ==
    [entity_type             |-> type,
     supported_commands      |-> CASE type = "CHIME" -> {"ON"}
                                   [] type = "LIGHT" -> DeviceCommand
                                   [] OTHER          -> {"ON", "OFF"},
     stateful                |-> type # "CHIME",
     all_units_off_response  |-> TRUE,
     all_lights_off_response |-> type = "LIGHT",
     all_lights_on_response  |-> type = "LIGHT"]
=============================================================================
