\* Every command and flag, the code's own retries cut to two.
CONSTANTS
  Absent = Absent
  Contents = {a, b}
  MaxRetries = 2
SPECIFICATION FairSpec
CHECK_DEADLOCK FALSE
INVARIANTS
  CreatedOnce
  AnswersTrue
  ReplacesWhatItSaw
PROPERTIES
  EveryCommandEnds
