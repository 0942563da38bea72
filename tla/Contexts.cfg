\* Two commands with one of eleven requests each and one that deletes, from
\* four states of the context file and the credential backends.
CONSTANTS
  c1 = c1  c2 = c2  c3 = c3  n1 = n1  n2 = n2  v = v  s0 = s0  s1 = s1  s2 = s2
  keychain = keychain  vault = vault
  Commands = {c1, c2, c3}
  Names = {n1, n2}
  Vals = {v}
  Secrets = {s0, s1, s2}
  Backends = {keychain, vault}
  Vaults = {vault}
  None = None
  Requests <- AllRequests
  Initial <- Initials
SPECIFICATION Spec
CHECK_DEADLOCK FALSE
INVARIANTS
  IInv
PROPERTIES
  MigrationPreserves
  ReportHonest
  NoEscalation
  SuccessKept
