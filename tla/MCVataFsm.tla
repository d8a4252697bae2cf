----------------------------- MODULE MCVataFsm -----------------------------
(***************************************************************************)
(* A small instance of VataFsm for TLC: one cycle in most states, two in   *)
(* ACQ_DELAY and in one SET_MODE state per phase, so that set-up times and *)
(* triggers in the middle of a state occur.                                *)
(***************************************************************************)
EXTENDS VataFsm

MCDwell == [s \in Timed \cup {"GC_CLOCK_LAST"} |->
              IF s \in {"SC_SET_MODE_M1", "GC_SET_MODE_M3", "ACQ_DELAY",
                        "CONV_SET_MODE_M5", "RO_SET_MODE_M3"}
              THEN 1 ELSE 0]
=============================================================================
