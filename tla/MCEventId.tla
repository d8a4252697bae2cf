----------------------------- MODULE MCEventId -----------------------------
(* EventId on two chips, with identifiers of two bits. *)
EXTENDS EventId, TLC
CONSTANTS c1, c2
MCNewIds == {<<1, 0>>}
Symm == Permutations({c1, c2})
=============================================================================
