---------------------------- MODULE MCFlagWrites ----------------------------
(* An instance of FlagWrites for TLC: one command among other writers.      *)
EXTENDS FlagWrites
=============================================================================
