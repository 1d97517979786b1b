CONSTANTS
  n1 = n1
  n2 = n2
  n3 = n3
  s1 = s1
  s2 = s2
  Node = {n1, n2}
  Session = {s1, s2}
  Coordinator <- AgainCoordinator
  Workers <- AgainWorkers
  LocalUsers = {n1, n2}
  FailingNodes = {}
  None = None
SPECIFICATION Spec
INVARIANTS NobodyServesAlone NoLeakedReservation SingleStaysAway
PROPERTY UsesRingBackend
