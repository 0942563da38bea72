\* One crash may leave a .tmp file in the spool.
CONSTANTS
  o1 = o1  o2 = o2  e1 = e1  NoOne = NoOne
  Operations = {o1, o2}
  Events = {e1}
  Unreadable = {}
  MaxSeq = 2
  MaxCrashes = 1
  MaxSlips = 0
SPECIFICATION FairSpec
PROPERTIES
  DurableOutcomesDrain
