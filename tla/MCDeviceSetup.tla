--------------------------- MODULE MCDeviceSetup ---------------------------
(***************************************************************************)
(* DeviceSetup with two addresses, one of them in a filtered house, an     *)
(* environment that names a profile, and the files a user might write: a   *)
(* renamed device of another type, a device with a profile that cannot be  *)
(* announced, no device field, no devices, a value out of range, text that *)
(* is not JSON, and a file that is cut inside a character.                 *)
(***************************************************************************)
EXTENDS DeviceSetup

MCBase   == << "x10" >>
MCPrefix == << "homeassistant" >>

Entry(name, type, profile) ==
    [name |-> name, type |-> type, profile |-> profile,
     command_repeats |-> 1, command_repeat_delay_ms |-> 150]

MCEnv ==
    [friendly |-> TRUE,
     entries  |-> ("A1" :> Entry("Lamp", "lm15a_socket_rocket", NONE))
                    @@ ("F1" :> Entry("", "switch", NONE))]

DevicesDocument(word, entry) ==
    [EmptyDocument EXCEPT !.friendly = word, !.fields = {"devices"}, !.entries = "A1" :> entry]

\* A repeat count out of range makes the whole file invalid.
TooManyRepeats == [Entry("Lamp", "light", NONE) EXCEPT !.command_repeats = MAX_COMMAND_REPEATS + 1]

MCDocument ==
    {DevicesDocument("true", Entry("Door", "chime", NONE)),
     DevicesDocument("true", Entry("Door", "switch", "um506_momentary")),
     [EmptyDocument EXCEPT !.friendly = "false"],
     [EmptyDocument EXCEPT !.fields = {"devices"}],
     DevicesDocument(NONE, TooManyRepeats),
     [EmptyDocument EXCEPT !.object = FALSE],
     [EmptyDocument EXCEPT !.utf8 = FALSE]}
=============================================================================
