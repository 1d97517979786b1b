CONSTANTS
  Token = {t1}
  Cred = {a}
  MaxRemembered = 1
  Request = {r1, r2}
  MaxKeys = 1
  None = None
SPECIFICATION FairSpec
INVARIANTS MemoryIsDisk UnprotectedIsWatched NothingLeft
PROPERTIES ImplementsLogin UnprotectedEnds
