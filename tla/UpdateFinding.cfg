SPECIFICATION Spec
CONSTANTS
  u1 = u1
  u2 = u2
  u3 = u3
  Update <- AllUpdates
  Zip <- Uploaded
  Faults <- Survivable
  Patient = TRUE
  MaxData = 0
  None = None
  Base = Base
PROPERTIES
  CompletedStays
