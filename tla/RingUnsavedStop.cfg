CONSTANTS
  n1 = n1
  n2 = n2
  n3 = n3
  s1 = s1
  s2 = s2
  Node = {n1, n2}
  Session = {s1}
  Coordinator <- PairCoordinator
  Workers <- PairWorkers
  LocalUsers = {n1}
  FailingNodes = {n2}
  None = None
SPECIFICATION Spec
INVARIANT RingHasSession
