-------------------------- MODULE MCMutationAudit --------------------------
(* Instances of MutationAudit for TLC: operations are interchangeable, and  *)
(* so are the sources of ordinary records.                                  *)
EXTENDS MutationAudit, TLC

Symmetry == Permutations(Operations)
=============================================================================
