\* A listener for two events, a key that changes three times, and the
\* code's own limit of twenty failures.
CONSTANTS
  Absent = Absent
  Contents = {a, b}
  MaxEvents = 2
  AbortAfter = 20
  MaxLog = 4
SPECIFICATION FairSpec
CHECK_DEADLOCK FALSE
INVARIANTS
  EventsFollowTheLog
  AbortsOnlyAfterAStreak
PROPERTIES
  EndsUpToDate
  CancelEnds
