\* Two commands and another writer on the rule sets of two types, each in a
\* Kubernetes object of its own.
CONSTANTS
  p1 = p1  p2 = p2  r1 = r1
  Other = Other  NoRule = NoRule  Absent = Absent  DataKey = DataKey
  Commands = {p1, p2}
  Types = {1, 2}
  Rules = {r1}
  Backend = "object"
  MaxRev = 1
SPECIFICATION Spec
SYMMETRY Symmetry
CHECK_DEADLOCK FALSE
INVARIANTS
  OutcomeHonest
  CommittedInOrder
PROPERTIES
  NoLostUpdate
