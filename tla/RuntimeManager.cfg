CONSTANTS
  Proc = {p1, p2, p3}
  Model = {m1}
  Session = {s1}
  Caller = {c1}
  None = None
SPECIFICATION FairSpec
INVARIANTS OneLiveRuntime ReadyIsCurrent StopReturnsStopped DesiredIsDurable ModelInUseIsPresent
PROPERTIES StoppingEnds ImplementsModelService
