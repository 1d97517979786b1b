CONSTANTS
  j1 = j1
  j2 = j2
  j3 = j3
  f1 = f1
  f2 = f2
  Job = {j1, j2, j3}
  File = {f1, f2}
  Target <- Targets
  Overwrite = {j1}
  Present = {f1}
  Shared = {f1}
  Stalled = {j3}
  Slots = 1
  Remember = 2
  None = None
SPECIFICATION FairSpec
INVARIANTS  ClaimHeld
PROPERTY CancelEnds
PROPERTY CancelledNeverInstalls
PROPERTY OnlyOverwriteReplaces
PROPERTY ImplementsModelStore
