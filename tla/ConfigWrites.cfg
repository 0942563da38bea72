\* One command and other writers on two keys: of etcd or Consul, or of one
\* Kubernetes object.
CONSTANTS
  c1 = c1  a = a  b = b
  Absent = Absent  NoLocal = NoLocal  Unread = Unread
  Commands = {c1}
  Keys = {1, 2}
  ObjectOf <- Together
  Contents = {a, b}
  Padded = {}
  MaxRev = 2
SPECIFICATION Spec
SYMMETRY Symmetry
CHECK_DEADLOCK FALSE
INVARIANTS
  OutcomeHonest
  DeletesComeLast
  ConflictMeansInterference
PROPERTIES
  NoLostUpdate
  SavedBeforeReplaced
  OneUpdateInAnObject
