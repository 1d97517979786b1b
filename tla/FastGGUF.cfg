CONSTANTS
  Runtime = {r1, r2, r3}
  Version = {v1, v2}
  Prompt = TRUE
  None = None
SPECIFICATION Spec
SYMMETRY Symmetry
 
PROPERTIES MappedStays PublishedIsWhole
