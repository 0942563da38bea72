\* The same, stopped by a signal.
CONSTANTS
  Absent = Absent
  Contents = {a, b}
  MaxEvents = 2
  AbortAfter = 20
  MaxLog = 4
SPECIFICATION Spec
CHECK_DEADLOCK FALSE
INVARIANTS
  CanceledExitsNonzero
