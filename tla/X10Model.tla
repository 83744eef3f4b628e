------------------------------ MODULE X10Model ------------------------------
(***************************************************************************)
(* What the configuration says of an address, for every component of the   *)
(* bridge: which device it is and whether its house is let through.        *)
(* An address is a model value; HouseOf gives the first character of it.   *)
(***************************************************************************)
EXTENDS X10Vocabulary

CONSTANTS
    Address,        \* normalised X10 addresses that occur (e.g. A1)
    House,          \* house codes
    HouseOf,        \* [Address -> House]
    Configured,     \* the addresses the configuration names
    Config,         \* [Configured -> DeviceConfig]
    AllowedHouses   \* the housecode filter; {} is Python's None: no filter

HouseAllowed(h)   == AllowedHouses = {} \/ h \in AllowedHouses
AddressAllowed(a) == HouseAllowed(HouseOf[a])

ASSUME AddressAssumption == HouseOf \in [Address -> House]
ASSUME ConfigAssumption ==
    /\ Configured \subseteq Address
    /\ Config \in [Configured -> DeviceConfig]

\* The configurations StateManager and the bridge keep: the configured
\* addresses the filter lets through, and a plain switch for any other one.
ConfigFor(a) ==
    IF a \in Configured /\ AddressAllowed(a)
    THEN Config[a]
    ELSE DefaultConfig("SWITCH")

RespondsTo(a, c) ==
    CASE c = "ALL_UNITS_OFF"  -> ConfigFor(a).all_units_off_response
      [] c = "ALL_LIGHTS_OFF" -> ConfigFor(a).all_lights_off_response
      [] c = "ALL_LIGHTS_ON"  -> ConfigFor(a).all_lights_on_response
      [] OTHER                -> FALSE
=============================================================================
