---------------------------- MODULE MCDacSerial ----------------------------
(* DacSerial with two DACs, words of three bits of which two are heard by   *)
(* both, delays that fit the sleep and one that does not.                   *)
EXTENDS DacSerial, TLC
CONSTANTS a, b
MCWords == {<<0, 1, 0>>, <<1, 0, 1>>}
=============================================================================
