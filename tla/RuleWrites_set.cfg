\* Two commands and another writer on one rule set of two rules; etcd or Consul.
CONSTANTS
  p1 = p1  p2 = p2  r1 = r1 r2 = r2
  Other = Other  NoRule = NoRule  Absent = Absent  DataKey = DataKey
  Commands = {p1, p2}
  Types = {1}
  Rules = {r1, r2}
  Backend = "kv"
  MaxRev = 2
SPECIFICATION Spec
SYMMETRY Symmetry
CHECK_DEADLOCK FALSE
PROPERTIES
  NoLostUpdate
  SavedBeforeReplaced
