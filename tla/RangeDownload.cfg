CONSTANTS
  j1 = j1
  j2 = j2
  Job = {j1, j2}
  Total <- Lengths
  Chunk = 2
  Workers = 2
  RangeSlots = 2
SPECIFICATION FairSpec
INVARIANTS QuietAfterReturn SlotsReturned
PROPERTIES ImplementsTransfer CallReturns
