CONSTANTS
  Proc = {p1, p2}
  Model = {m1}
  Session = {s1}
  Caller = {c1}
  None = None
SPECIFICATION Spec
INVARIANT ReadyProvesListening
SYMMETRY Symmetry
