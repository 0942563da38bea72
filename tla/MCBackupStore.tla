---------------------------- MODULE MCBackupStore ----------------------------
(* Instances of BackupStore for TLC: the cleanings asked for, and processes *)
(* of a kind, which are interchangeable.                                    *)
EXTENDS BackupStore, TLC

(* The newest of one name is kept, or what is of the first second goes.     *)
Asks == { [of |-> {CHOOSE m \in Names : TRUE}, by |-> "keep", n |-> 1],
          [of |-> Names, by |-> "before", n |-> 1] }

Symmetry == Permutations(Savers) \cup Permutations(Cleaners)
=============================================================================
