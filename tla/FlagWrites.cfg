\* A command and the other writers, other commands included, on a set of
\* two flags, on every backend.
CONSTANTS
  p1 = p1  k1 = k1  k2 = k2
  Other = Other  NoFlag = NoFlag  Absent = Absent
  Commands = {p1}
  Keys = {k1, k2}
  MaxRev = 4
SPECIFICATION Spec
CHECK_DEADLOCK FALSE
PROPERTIES
  AtomicEdits
