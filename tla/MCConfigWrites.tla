---------------------------- MODULE MCConfigWrites ----------------------------
(* Instances of ConfigWrites for TLC: commands and contents are             *)
(* interchangeable.                                                         *)
EXTENDS ConfigWrites, TLC

Together == [k \in Keys |-> 0]   \* one object holds all the keys

Symmetry == Permutations(Commands) \cup Permutations(Contents)
=============================================================================
