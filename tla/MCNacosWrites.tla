---------------------------- MODULE MCNacosWrites ----------------------------
(* An instance of NacosWrites for TLC: every command, among other writers.  *)
EXTENDS NacosWrites
=============================================================================
