---------------------------- MODULE MCAxiSlave ----------------------------
(* AxiSlave with one register of each kind and words of one trigger and one *)
(* that is none.                                                            *)
EXTENDS AxiSlave
CONSTANTS control, config, counter
=============================================================================
