CONSTANTS
  n1 = n1
  n2 = n2
  n3 = n3
  s1 = s1
  s2 = s2
  Node = {n1, n2, n3}
  Session = {s1}
  Coordinator <- ThreeCoordinator
  Workers <- ThreeWorkers
  LocalUsers = {n1}
  FailingNodes = {}
  None = None
SPECIFICATION FairSpec
INVARIANT RingHasSession
PROPERTIES ImplementsRingGroup GroupEnds
