\* Three requests of any kind on one repository, one rename, calls that raise.
SPECIFICATION Spec
CONSTANTS
  Ids = {i1, i2}
  Tokens = {good, bad}
  Accepted = {good}
  Branches = {main, trunk}
  Main = main
  Providers = {"github", "gitlab", "bitbucket"}
  Requests = {r1, r2, r3}
  MaxRenames = 1
  MayFail = TRUE
SYMMETRY Interchangeable
INVARIANTS
  SecretKept
  StatusEarned
  ScanReads
PROPERTIES
  ConnectionKept
\* once the requests have been handled there is nothing left to do
CHECK_DEADLOCK FALSE
