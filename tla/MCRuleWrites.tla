----------------------------- MODULE MCRuleWrites -----------------------------
(* Instances of RuleWrites for TLC: commands are interchangeable, and so    *)
(* are the rules of a set.                                                  *)
EXTENDS RuleWrites, TLC

Symmetry == Permutations(Commands) \cup Permutations(Rules)
=============================================================================
