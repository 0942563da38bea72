\* No crash, no slip, every outcome readable: replay under fairness.
CONSTANTS
  o1 = o1  o2 = o2  e1 = e1  NoOne = NoOne
  Operations = {o1, o2}
  Events = {e1}
  Unreadable = {}
  MaxSeq = 2
  MaxCrashes = 0
  MaxSlips = 0
SPECIFICATION FairSpec
PROPERTIES
  EveryOperationEnds
  DurableOutcomesDrain
