\* A saver, two cleaners and a reader on a store of up to two earlier backups,
\* with one failure, crash or lost file.
CONSTANTS
  s1 = s1  k1 = k1  k2 = k2  r1 = r1  m1 = m1  m2 = m2
  NoOne = NoOne  NoId = NoId  Unused = Unused
  Savers = {s1}
  Cleaners = {k1, k2}
  Readers = {r1}
  Ids = {1, 2, 3}
  Old = {1, 3}
  Names = {m1, m2}
  Asked <- Asks
  MaxTime = 1
  MaxFaults = 1
SPECIFICATION Spec
SYMMETRY Symmetry
CHECK_DEADLOCK FALSE
INVARIANTS
  SavedStaysListed
  PreviewedOnly
  ReportHonest
PROPERTIES
  NewestKept
  MissedForAReason
