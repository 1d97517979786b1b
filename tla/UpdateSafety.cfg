\* A helper killed between the two renames leaves nothing installed, and nothing to start.
SPECIFICATION FairSpec
CONSTANTS
  u1 = u1
  u2 = u2
  u3 = u3
  Update <- AllUpdates
  Zip <- Uploaded
  Faults <- Fault
  Patient = FALSE
  MaxData = 0
  None = None
  Base = Base
CHECK_DEADLOCK FALSE
INVARIANTS
  OneInstaller
  ProvenIsKept
PROPERTIES
  CompletedRan
  UpdateResolves
