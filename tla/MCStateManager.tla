--------------------------- MODULE MCStateManager ---------------------------
(***************************************************************************)
(* StateManagerSpec on four addresses: a configured light and chime, a     *)
(* device only ever seen on the wire, and an address of house B, which the *)
(* filter excludes.                                                        *)
(***************************************************************************)
EXTENDS StateManagerSpec

MCAddress    == {"A1", "A2", "A3", "B1"}
MCHouse      == {"A", "B"}
MCHouseOf    == [a \in MCAddress |-> IF a = "B1" THEN "B" ELSE "A"]
MCConfigured == {"A1", "A2"}
MCConfig     == [a \in MCConfigured |->
                   IF a = "A1" THEN DefaultConfig("LIGHT")
                               ELSE DefaultConfig("CHIME")]
MCFilter     == {"A"}

\* emitted is only an output, and the pending command is written and never
\* read; for the filtered address it is kept, because a property names it.
View ==
    << [a \in Address |-> IF AddressAllowed(a)
                          THEN [dev[a] EXCEPT !.pending = NONE] ELSE dev[a]],
       known, mqttConn, mochadConn, mirror >>
=============================================================================
