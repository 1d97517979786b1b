\* A helper killed between the two renames leaves nothing installed, and nothing to start.
SPECIFICATION FairSpec
CONSTANTS
  u1 = u1
  u2 = u2
  u3 = u3
  Update <- AllUpdates
  Zip <- Uploaded
  Faults <- Survivable
  Patient = TRUE
  MaxData = 2
  None = None
  Base = Base
CHECK_DEADLOCK FALSE
INVARIANTS
  AllOrNothing
PROPERTIES
  ImplementsInstallation
  ProgramComesBack
  NeverUnderARunningProgram
