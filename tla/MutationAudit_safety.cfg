\* Two operations and one source of ordinary records; one crash, one slip.
CONSTANTS
  o1 = o1  o2 = o2  e1 = e1  NoOne = NoOne
  Operations = {o1, o2}
  Events = {e1}
  Unreadable = {}
  MaxSeq = 2
  MaxCrashes = 1
  MaxSlips = 1
SPECIFICATION Spec
SYMMETRY Symmetry
INVARIANTS
  IntentBeforeEffect
  ReturnedMeansLogged
  PromiseKept
  LostIsReported
  RepeatsNeedFaults
PROPERTIES
  NoOvertaking
  StuckFilesBlock
  ContractSpec
