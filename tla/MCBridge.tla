------------------------------ MODULE MCBridge ------------------------------
\* The bridge with one configured switch.
EXTENDS Bridge

MCAddress    == {"A1"}
MCHouse      == {"A"}
MCHouseOf    == [a \in MCAddress |-> "A"]
MCConfigured == MCAddress
MCConfig     == [a \in MCConfigured |-> DefaultConfig("SWITCH")]
MCNoFilter   == {}
=============================================================================
