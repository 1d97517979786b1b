------------------------ MODULE RuntimeManagerProofs ------------------------
EXTENDS RuntimeManager, TLAPS

USE NoneIsFresh
USE DEF Status, Saved, Role, ProcState, MonitorState, StopState, Phase,
        AliveStates, Alive, Idle, StartedStatus, InUse, WaitsForCurrent

\* Before Restore nothing runs and nothing is wished.
LEMMA InitIInv == Init => IInv
  <1> SUFFICES ASSUME Init PROVE IInv
    OBVIOUS
  <1>1. TypeOK
    BY DEF Init, TypeOK, Reported
  <1>2. CommandIsPending /\ OneLiveRuntime /\ QuietPhases
    BY DEF Init, CommandIsPending, OneLiveRuntime, QuietPhases, Reported
  <1>3. StopCalls
    BY DEF Init, StopCalls
  <1>4. ReadyIsCurrent /\ DesiredIsDurable /\ ModelInUseIsPresent
    BY DEF Init, ReadyIsCurrent, DesiredIsDurable, ModelInUseIsPresent, Reported
  <1> QED
    BY <1>1, <1>2, <1>3, <1>4 DEF IInv


\* A start finds no child and makes its own the current one.
LEMMA StartLockedIInv ==
  ASSUME IInv, NEW p \in Proc, NEW m \in Model, NEW role \in Role,
         NEW written \in BOOLEAN, StartLocked(p, m, role, written),
         phase' \in Phase, phase' # "serving" => ~written,
         phase' \notin {"restoring", "down"}
  PROVE  IInv'
  <1>1. TypeOK'
    BY DEF IInv, TypeOK, StartLocked
  <1>2. CommandIsPending'
    BY DEF IInv, TypeOK, CommandIsPending, StartLocked
  <1>3. OneLiveRuntime'
    BY DEF IInv, TypeOK, OneLiveRuntime, StartLocked
  <1>4. QuietPhases'
    BY DEF IInv, TypeOK, OneLiveRuntime, QuietPhases, StartLocked
  <1>5. StopCalls'
    BY DEF IInv, TypeOK, StopCalls, StartLocked
  <1>6. (ReadyIsCurrent /\ DesiredIsDurable /\ ModelInUseIsPresent)'
    BY DEF IInv, TypeOK, ReadyIsCurrent, DesiredIsDurable, ModelInUseIsPresent, StartLocked
  <1> QED
    BY <1>1, <1>2, <1>3, <1>4, <1>5, <1>6 DEF IInv

\* Reservations touch nothing the invariant mentions.
LEMMA RingIInv ==
  ASSUME IInv, NEW s \in Session,
         ReserveRing(s) \/ ReleaseRing(s)
  PROVE  IInv'
  <1> USE DEF ReserveRing, ReleaseRing
  <1>1. TypeOK'
    BY DEF IInv, TypeOK
  <1>2. CommandIsPending' /\ OneLiveRuntime'
    BY DEF IInv, TypeOK, CommandIsPending, OneLiveRuntime, QuietPhases
  <1>3. QuietPhases'
    BY DEF IInv, TypeOK, OneLiveRuntime, QuietPhases
  <1>4. StopCalls'
    BY DEF IInv, TypeOK, OneLiveRuntime, StopCalls
  <1>5. ReadyIsCurrent' /\ DesiredIsDurable' /\ ModelInUseIsPresent'
    BY DEF IInv, TypeOK, CommandIsPending, QuietPhases, ReadyIsCurrent,
           DesiredIsDurable, ModelInUseIsPresent
  <1> QED
    BY <1>1, <1>2, <1>3, <1>4, <1>5 DEF IInv

\* The lock keeps the running model out of a deletion.
LEMMA DeleteIInv ==
  ASSUME IInv, NEW m \in Model, DeleteStoredModel(m)
  PROVE  IInv'
  <1> USE DEF DeleteStoredModel
  <1>1. TypeOK'
    BY DEF IInv, TypeOK
  <1>2. CommandIsPending' /\ OneLiveRuntime'
    BY DEF IInv, TypeOK, CommandIsPending, OneLiveRuntime, QuietPhases
  <1>3. QuietPhases'
    BY DEF IInv, TypeOK, OneLiveRuntime, QuietPhases
  <1>4. StopCalls'
    BY DEF IInv, TypeOK, OneLiveRuntime, StopCalls
  <1>5. ReadyIsCurrent' /\ DesiredIsDurable' /\ ModelInUseIsPresent'
    BY DEF IInv, TypeOK, CommandIsPending, QuietPhases, ReadyIsCurrent,
           DesiredIsDurable, ModelInUseIsPresent
  <1> QED
    BY <1>1, <1>2, <1>3, <1>4, <1>5 DEF IInv

\* A stop captures the only child that can be alive.
LEMMA StopBeginIInv ==
  ASSUME IInv, NEW c \in Caller, NEW clear \in BOOLEAN,
         NEW written \in BOOLEAN, StopBegin(c, clear, written)
  PROVE  IInv'
  <1> USE DEF StopBegin, Running
  <1>1. TypeOK'
    BY DEF IInv, TypeOK
  <1>2. CommandIsPending' /\ OneLiveRuntime'
    BY DEF IInv, TypeOK, CommandIsPending, OneLiveRuntime, QuietPhases
  <1>3. QuietPhases'
    BY DEF IInv, TypeOK, OneLiveRuntime, QuietPhases
  <1>4. StopCalls'
    BY DEF IInv, TypeOK, OneLiveRuntime, StopCalls
  <1>5. ReadyIsCurrent' /\ DesiredIsDurable' /\ ModelInUseIsPresent'
    BY DEF IInv, TypeOK, CommandIsPending, QuietPhases, ReadyIsCurrent,
           DesiredIsDurable, ModelInUseIsPresent
  <1> QED
    BY <1>1, <1>2, <1>3, <1>4, <1>5 DEF IInv

\* A stop returns only after its child was reaped or killed.
LEMMA StopEndIInv ==
  ASSUME IInv, NEW c \in Caller,
         StopDone(c) \/ StopDeadline(c) \/ StopTimer(c) \/ StopReturn(c)
  PROVE  IInv'
  <1> USE DEF StopDone, StopDeadline, StopTimer, StopReturn, Killed
  <1>1. TypeOK'
    BY DEF IInv, TypeOK
  <1>2. CommandIsPending' /\ OneLiveRuntime'
    BY DEF IInv, TypeOK, CommandIsPending, OneLiveRuntime, QuietPhases
  <1>3. QuietPhases'
    BY DEF IInv, TypeOK, OneLiveRuntime, QuietPhases
  <1>4. StopCalls'
    BY DEF IInv, TypeOK, OneLiveRuntime, StopCalls
  <1>5. ReadyIsCurrent' /\ DesiredIsDurable' /\ ModelInUseIsPresent'
    BY DEF IInv, TypeOK, CommandIsPending, QuietPhases, ReadyIsCurrent,
           DesiredIsDurable, ModelInUseIsPresent
  <1> QED
    BY <1>1, <1>2, <1>3, <1>4, <1>5 DEF IInv

\* The child's own steps never make a dead child alive.
LEMMA ChildIInv ==
  ASSUME IInv, NEW p \in Proc,
         Listen(p) \/ Exit(p) \/ OrphanExit(p)
  PROVE  IInv'
  <1> USE DEF Listen, Exit, OrphanExit
  <1>1. TypeOK'
    BY DEF IInv, TypeOK
  <1>2. CommandIsPending' /\ OneLiveRuntime'
    BY DEF IInv, TypeOK, CommandIsPending, OneLiveRuntime, QuietPhases
  <1>3. QuietPhases'
    BY DEF IInv, TypeOK, OneLiveRuntime, QuietPhases
  <1>4. StopCalls'
    BY DEF IInv, TypeOK, OneLiveRuntime, StopCalls
  <1>5. ReadyIsCurrent' /\ DesiredIsDurable' /\ ModelInUseIsPresent'
    BY DEF IInv, TypeOK, CommandIsPending, QuietPhases, ReadyIsCurrent,
           DesiredIsDurable, ModelInUseIsPresent
  <1> QED
    BY <1>1, <1>2, <1>3, <1>4, <1>5 DEF IInv

\* Reaping clears the status only for the current child.
LEMMA ReapIInv ==
  ASSUME IInv, NEW p \in Proc, NEW failure \in BOOLEAN, Reap(p, failure)
  PROVE  IInv'
  <1> USE DEF Reap
  <1>0. TypeOK
    BY DEF IInv
  <1>1. TypeOK'
    <2>1. status' \in Status
      <3>1. status \in Status /\ stopping \in BOOLEAN
        BY <1>0 DEF TypeOK
      <3>2. \/ status' = status
            \/ status' = [status EXCEPT !.running = FALSE, !.ready = FALSE,
                                        !.failed = failure /\ ~stopping]
        OBVIOUS
      <3> HIDE DEF Reap
      <3> QED
        BY <3>1, <3>2
    <2>2. proc' \in [Proc -> ProcState] /\ monitor' \in [Proc -> MonitorState]
      BY <1>0 DEF TypeOK
    <2>3. cmd' \in Proc \cup {None} /\ stopping' \in BOOLEAN
      BY <1>0 DEF TypeOK
    <2>4. UNCHANGED <<owner, disk, stopper, before, present, phase>>
      OBVIOUS
    <2> HIDE DEF Status, Saved, ProcState, MonitorState, StopState, Phase, Reap
    <2> QED
      BY <1>0, <2>1, <2>2, <2>3, <2>4 DEF TypeOK
  <1>a. /\ status'.desired = status.desired /\ status'.role = status.role
        /\ status'.model = status.model
        /\ UNCHANGED <<status, cmd, stopping>> \/ (cmd = p /\ ~status'.running /\ ~status'.ready)
        /\ status'.running => status.running
    <2>1. status \in Status
      BY <1>0 DEF TypeOK
    <2>2. CASE WaitsForCurrent(p)
      <3>1. /\ cmd = p
            /\ status' = [status EXCEPT !.running = FALSE, !.ready = FALSE,
                                       !.failed = failure /\ ~stopping]
        BY <2>2
      <3> HIDE DEF Reap
      <3> QED
        BY <2>1, <3>1
    <2>3. CASE ~WaitsForCurrent(p)
      BY <2>3
    <2> QED
      BY <2>2, <2>3
  <1>b. /\ proc[p] = "exited" /\ Alive' = Alive
        /\ UNCHANGED <<owner, disk, monitor, stopper, before, present, phase>>
    BY <1>0 DEF TypeOK
  <1>2. CommandIsPending' /\ OneLiveRuntime'
    <2>1. CASE cmd = p
      BY <2>1 DEF IInv, TypeOK, CommandIsPending, OneLiveRuntime
    <2>2. CASE cmd # p
      BY <2>2 DEF IInv, TypeOK, CommandIsPending, OneLiveRuntime
    <2> QED
      BY <2>1, <2>2
  <1>3. QuietPhases'
    <2>1. QuietPhases
      BY DEF IInv
    <2>2. phase \in {"restoring", "down"} => UNCHANGED <<status, cmd>>
      BY <1>a, <2>1 DEF QuietPhases
    <2>3. phase = "failing" /\ status'.running => stopping'
      BY <1>a, <2>1 DEF QuietPhases
    <2> HIDE DEF Reap, Alive
    <2> QED
      BY <1>b, <2>1, <2>2, <2>3 DEF QuietPhases
  <1>4. StopCalls'
    BY DEF IInv, TypeOK, OneLiveRuntime, StopCalls
  <1>5. ReadyIsCurrent'
    BY <1>0 DEF IInv, TypeOK, CommandIsPending, ReadyIsCurrent
  <1>6. DesiredIsDurable' /\ ModelInUseIsPresent'
    <2>1. DesiredIsDurable /\ ModelInUseIsPresent
      BY DEF IInv
    <2> HIDE DEF Reap
    <2> QED
      BY <1>a, <1>b, <2>1 DEF DesiredIsDurable, ModelInUseIsPresent
  <1> QED
    BY <1>1, <1>2, <1>3, <1>4, <1>5, <1>6 DEF IInv

\* A monitor marks ready only the child it was started for.
LEMMA MonitorIInv ==
  ASSUME IInv, NEW p \in Proc,
         MonitorCheck(p) \/ MonitorProbe(p) \/ MonitorSettle(p)
  PROVE  IInv'
  <1> USE DEF MonitorCheck, MonitorProbe, MonitorSettle
  <1>0. TypeOK
    BY DEF IInv
  <1>1. TypeOK'
    <2>1. status' \in Status
      <3>1. status \in Status
        BY <1>0 DEF TypeOK
      <3>2. status' = status \/ status' = [status EXCEPT !.ready = TRUE]
        OBVIOUS
      <3> HIDE DEF MonitorCheck, MonitorProbe, MonitorSettle
      <3> QED
        BY <3>1, <3>2
    <2>2. proc' \in [Proc -> ProcState] /\ monitor' \in [Proc -> MonitorState]
      BY <1>0 DEF TypeOK
    <2>3. cmd' \in Proc \cup {None} /\ stopping' \in BOOLEAN
      BY <1>0 DEF TypeOK
    <2>4. UNCHANGED <<owner, disk, stopper, before, present, phase>>
      OBVIOUS
    <2> HIDE DEF Status, Saved, ProcState, MonitorState, StopState, Phase, MonitorCheck, MonitorProbe, MonitorSettle
    <2> QED
      BY <1>0, <2>1, <2>2, <2>3, <2>4 DEF TypeOK
  <1>2. CommandIsPending' /\ OneLiveRuntime'
    BY DEF IInv, TypeOK, CommandIsPending, OneLiveRuntime, QuietPhases
  <1>3. QuietPhases'
    BY DEF IInv, TypeOK, OneLiveRuntime, QuietPhases
  <1>4. StopCalls'
    BY DEF IInv, TypeOK, OneLiveRuntime, StopCalls
  <1>5. ReadyIsCurrent' /\ DesiredIsDurable' /\ ModelInUseIsPresent'
    BY DEF IInv, TypeOK, CommandIsPending, QuietPhases, ReadyIsCurrent,
           DesiredIsDurable, ModelInUseIsPresent
  <1> QED
    BY <1>1, <1>2, <1>3, <1>4, <1>5 DEF IInv

\* The program ends and starts again.
LEMMA LaunchIInv ==
  ASSUME IInv, Down \/ Up \/ RestoreNothing \/ RestoreRefused
  PROVE  IInv'
  <1> USE DEF Down, Up, RestoreNothing, RestoreRefused, Reported
  <1>1. TypeOK'
    <2>1. CASE Down
      <3>1. proc' \in [Proc -> ProcState]
        BY <2>1 DEF IInv, TypeOK
      <3> QED
        BY <2>1, <3>1 DEF IInv, TypeOK
    <2>2. CASE Up \/ RestoreNothing \/ RestoreRefused
      BY <2>2 DEF IInv, TypeOK
    <2> QED
      BY <2>1, <2>2
  <1>2. CommandIsPending' /\ OneLiveRuntime'
    BY DEF IInv, TypeOK, CommandIsPending, OneLiveRuntime, QuietPhases
  <1>3. QuietPhases'
    BY DEF IInv, TypeOK, OneLiveRuntime, QuietPhases
  <1>4. StopCalls'
    BY DEF IInv, TypeOK, OneLiveRuntime, StopCalls
  <1>5. ReadyIsCurrent' /\ DesiredIsDurable' /\ ModelInUseIsPresent'
    BY DEF IInv, TypeOK, CommandIsPending, QuietPhases, ReadyIsCurrent,
           DesiredIsDurable, ModelInUseIsPresent
  <1> QED
    BY <1>1, <1>2, <1>3, <1>4, <1>5 DEF IInv

\* A failed restore has left no child alive.
LEMMA GiveUpIInv ==
  ASSUME IInv, NEW written \in BOOLEAN, RestoreGiveUp(written)
  PROVE  IInv'
  <1> USE DEF RestoreGiveUp
  <1>1. TypeOK'
    BY DEF IInv, TypeOK
  <1>2. CommandIsPending' /\ OneLiveRuntime'
    BY DEF IInv, TypeOK, CommandIsPending, OneLiveRuntime, QuietPhases
  <1>3. QuietPhases'
    BY DEF IInv, TypeOK, OneLiveRuntime, QuietPhases
  <1>4. StopCalls'
    BY DEF IInv, TypeOK, OneLiveRuntime, StopCalls
  <1>5. ReadyIsCurrent' /\ DesiredIsDurable' /\ ModelInUseIsPresent'
    BY DEF IInv, TypeOK, CommandIsPending, QuietPhases, ReadyIsCurrent,
           DesiredIsDurable, ModelInUseIsPresent
  <1> QED
    BY <1>1, <1>2, <1>3, <1>4, <1>5 DEF IInv

LEMMA NextIInv == IInv /\ [Next]_vars => IInv'
  <1> SUFFICES ASSUME IInv, [Next]_vars PROVE IInv'
    OBVIOUS
  <1>1. ASSUME NEW p \in Proc, NEW m \in Model, NEW written \in BOOLEAN,
               Start(p, m, written)
        PROVE  IInv'
    BY <1>1, StartLockedIInv DEF Start
  <1>2. ASSUME NEW s \in Session, NEW p \in Proc, NEW m \in Model,
               NEW role \in Role, NEW written \in BOOLEAN,
               StartRing(s, p, m, role, written)
        PROVE  IInv'
    BY <1>2, StartLockedIInv DEF StartRing
  <1>3. ASSUME NEW p \in Proc, NEW written \in BOOLEAN, RestoreStart(p, written)
        PROVE  IInv'
    <2>1. disk.model \in Model
      BY <1>3, NoneIsFresh DEF IInv, TypeOK, RestoreStart, StartLocked
    <2>2. phase' \in {"serving", "failing"} /\ (phase' # "serving" => ~written)
      BY <1>3 DEF RestoreStart
    <2> QED
      BY <1>3, <2>1, <2>2, StartLockedIInv DEF RestoreStart
  <1>4. CASE UNCHANGED vars
    <2>1. TypeOK'
      BY <1>4 DEF IInv, TypeOK, vars
    <2>2. (CommandIsPending /\ OneLiveRuntime /\ QuietPhases /\ StopCalls)'
      BY <1>4 DEF IInv, vars, CommandIsPending, OneLiveRuntime, QuietPhases, StopCalls
    <2>3. (ReadyIsCurrent /\ DesiredIsDurable /\ ModelInUseIsPresent)'
      BY <1>4 DEF IInv, vars, ReadyIsCurrent, DesiredIsDurable, ModelInUseIsPresent
    <2> QED
      BY <2>1, <2>2, <2>3 DEF IInv
  <1> QED
    BY <1>1, <1>2, <1>3, <1>4, RingIInv, DeleteIInv, StopBeginIInv, StopEndIInv,
       ChildIInv, ReapIInv, MonitorIInv, LaunchIInv, GiveUpIInv
    DEF Next

\* The inductive invariant holds in every reachable state of the manager.
THEOREM RuntimeInvariant == Spec => []IInv
  BY InitIInv, NextIInv, PTL DEF Spec

\* Every variable of the manager keeps its type.
THEOREM RuntimeTypes == Spec => []TypeOK
  <1>1. IInv => TypeOK
    BY DEF IInv
  <1> QED
    BY <1>1, RuntimeInvariant, PTL

\* DeleteStoredModel and the starts exclude each other: the file of the runtime
\* in use is never gone.
THEOREM ModelInUseStays == Spec => []ModelInUseIsPresent
  <1>1. IInv => ModelInUseIsPresent
    BY DEF IInv
  <1> QED
    BY <1>1, RuntimeInvariant, PTL

\* llamacpp.Manager never leaves a child running that m.cmd does not name.
THEOREM NoLeakedRuntime == Spec => []OneLiveRuntime
  <1>1. IInv => OneLiveRuntime
    BY DEF IInv
  <1> QED
    BY <1>1, RuntimeInvariant, PTL

\* A health answer for an earlier child never makes a later one ready.
THEOREM ReadinessIsCurrent == Spec => []ReadyIsCurrent
  <1>1. IInv => ReadyIsCurrent
    BY DEF IInv
  <1> QED
    BY <1>1, RuntimeInvariant, PTL

\* Stop and Shutdown return only when what ran at their call was stopped.
THEOREM StopIsTruthful == Spec => []StopReturnsStopped
  <1>1. IInv => StopReturnsStopped
    BY DEF IInv, StopCalls, StopReturnsStopped
  <1> QED
    BY <1>1, RuntimeInvariant, PTL

\* The desired state reported for a single-machine runtime is on disk.
THEOREM DesiredStateIsDurable == Spec => []DesiredIsDurable
  <1>1. IInv => DesiredIsDurable
    BY DEF IInv
  <1> QED
    BY <1>1, RuntimeInvariant, PTL

-----------------------------------------------------------------------------
(* Refinement: every step of the manager is a step of the service or none. *)

\* A start is a load of the service, or one that ends at once.
LEMMA StartLockedRefines ==
  ASSUME IInv, NEW p \in Proc, NEW m \in Model, NEW role \in Role,
         NEW written \in BOOLEAN, StartLocked(p, m, role, written),
         phase # "down", phase' # "down"
  PROVE  Service!Next
  <1>1. m # None /\ disk \in Saved
    BY NoneIsFresh DEF IInv, TypeOK
  <1>2. CASE written
    <2>1. Service!Load(m)
      BY <1>1, <1>2 DEF StartLocked, Service!Load
    <2> QED
      BY <2>1 DEF Service!Next
  <1>3. CASE ~written
    <2>1. Service!LoadCancelled
      BY <1>1, <1>3 DEF StartLocked, Service!LoadCancelled
    <2> QED
      BY <2>1 DEF Service!Next
  <1> QED
    BY <1>2, <1>3

\* Stop and Shutdown unload.
LEMMA StopBeginRefines ==
  ASSUME IInv, NEW c \in Caller, NEW clear \in BOOLEAN, NEW written \in BOOLEAN,
         StopBegin(c, clear, written)
  PROVE  Service!Next
  <1>1. status.running => cmd # None
    BY DEF IInv, CommandIsPending
  <1>2. status \in Status /\ disk \in Saved
    BY DEF IInv, TypeOK
  <1>3. Service!Unload
    BY <1>1, <1>2 DEF StopBegin, Running, Service!Unload
  <1> QED
    BY <1>3 DEF Service!Next

\* The service becomes idle when the current child is reaped.
LEMMA ReapRefines ==
  ASSUME IInv, NEW p \in Proc, NEW failure \in BOOLEAN, Reap(p, failure)
  PROVE  Service!Next \/ UNCHANGED Service!vars
  <1>1. status \in Status /\ phase \in Phase
    BY DEF IInv, TypeOK
  <1>2. CASE cmd = p /\ status.running
    <2>1. phase # "down"
      BY <1>2 DEF IInv, QuietPhases
    <2>2. Service!Ended
      BY <1>1, <1>2, <2>1 DEF Reap, Service!Ended
    <2> QED
      BY <2>2 DEF Service!Next
  <1>3. CASE ~(cmd = p /\ status.running)
    BY <1>1, <1>3 DEF Reap, Service!vars
  <1> QED
    BY <1>2, <1>3

\* A settled health answer makes the service ready, or nothing.
LEMMA SettleRefines ==
  ASSUME IInv, NEW p \in Proc, MonitorSettle(p)
  PROVE  Service!Next \/ UNCHANGED Service!vars
  <1>1. status \in Status
    BY DEF IInv, TypeOK
  <1>2. Service!BecomeReady \/ UNCHANGED Service!vars
    BY <1>1 DEF IInv, QuietPhases, MonitorSettle, Service!BecomeReady, Service!vars
  <1> QED
    BY <1>2 DEF Service!Next

\* A restore that failed forgets the model.
LEMMA GiveUpRefines ==
  ASSUME IInv, NEW written \in BOOLEAN, RestoreGiveUp(written)
  PROVE  Service!Next \/ UNCHANGED Service!vars
  <1>1. status \in Status /\ disk \in Saved
    BY DEF IInv, TypeOK
  <1>2. Service!GiveUp
    BY <1>1 DEF IInv, QuietPhases, RestoreGiveUp, Service!GiveUp
  <1> QED
    BY <1>2 DEF Service!Next

\* Every step of the manager is one of the service, or none.
LEMMA NextRefines ==
  IInv /\ [Next]_vars => [Service!Next]_Service!vars
  <1> SUFFICES ASSUME IInv, [Next]_vars
               PROVE  Service!Next \/ UNCHANGED Service!vars
    OBVIOUS
  <1>1. ASSUME NEW p \in Proc, NEW m \in Model, NEW written \in BOOLEAN,
               Start(p, m, written)
        PROVE  Service!Next
    BY <1>1, StartLockedRefines DEF Start
  <1>2. ASSUME NEW s \in Session, NEW p \in Proc, NEW m \in Model,
               NEW role \in Role, NEW written \in BOOLEAN,
               StartRing(s, p, m, role, written)
        PROVE  Service!Next
    BY <1>2, StartLockedRefines DEF StartRing
  <1>3. ASSUME NEW p \in Proc, NEW written \in BOOLEAN, RestoreStart(p, written)
        PROVE  Service!Next
    <2>1. disk.model \in Model
      BY <1>3, NoneIsFresh DEF IInv, TypeOK, RestoreStart, StartLocked
    <2>2. phase # "down" /\ phase' # "down"
      BY <1>3 DEF RestoreStart
    <2> QED
      BY <1>3, <2>1, <2>2, StartLockedRefines DEF RestoreStart
  <1>4. CASE Down
    <2>1. Service!Down
      BY <1>4 DEF Down, Service!Down
    <2> QED
      BY <2>1 DEF Service!Next
  <1>5. CASE Up
    <2>1. Service!Up
      BY <1>5 DEF IInv, QuietPhases, Up, Service!Up
    <2> QED
      BY <2>1 DEF Service!Next
  <1>6. CASE RestoreNothing \/ RestoreRefused
    BY <1>6 DEF RestoreNothing, RestoreRefused, Service!vars
  <1>7. ASSUME NEW s \in Session, ReserveRing(s) \/ ReleaseRing(s)
        PROVE  UNCHANGED Service!vars
    BY <1>7 DEF ReserveRing, ReleaseRing, Service!vars
  <1>8. ASSUME NEW m \in Model, DeleteStoredModel(m)
        PROVE  UNCHANGED Service!vars
    BY <1>8 DEF DeleteStoredModel, Service!vars
  <1>9. ASSUME NEW c \in Caller,
               StopDone(c) \/ StopDeadline(c) \/ StopTimer(c) \/ StopReturn(c)
        PROVE  UNCHANGED Service!vars
    BY <1>9 DEF StopDone, StopDeadline, StopTimer, StopReturn, Service!vars
  <1>10. ASSUME NEW p \in Proc,
                \/ Listen(p) \/ Exit(p) \/ OrphanExit(p)
                \/ MonitorCheck(p) \/ MonitorProbe(p)
         PROVE  UNCHANGED Service!vars
    BY <1>10 DEF Listen, Exit, OrphanExit, MonitorCheck, MonitorProbe, Service!vars
  <1>11. CASE UNCHANGED vars
    BY <1>11 DEF vars, Service!vars
  <1> QED
    BY <1>1, <1>2, <1>3, <1>4, <1>5, <1>6, <1>7, <1>8, <1>9, <1>10, <1>11,
       StopBeginRefines, ReapRefines, SettleRefines, GiveUpRefines
    DEF Next

\* The manager implements the abstract service for every number of children,
\* models, sessions and callers.
THEOREM ManagerImplementsService == Spec => ImplementsModelService
  <1>1. Init => Service!Init
    BY DEF Init, Reported, Service!Init
  <1>2. QED
    BY <1>1, NextRefines, RuntimeInvariant, PTL
    DEF Spec, ImplementsModelService, Service!Spec

-----------------------------------------------------------------------------
(* The manager is the backend the cluster relies on.                       *)

\* Ready, as the cluster sees it.
LentReady == status.ready /\ Lent # "none"

\* A step after which the current child is as before, and lent as before.
LEMMA LentKept ==
  ASSUME cmd' = cmd, status'.role = status.role,
         cmd # None => (proc'[cmd] \in AliveStates <=> proc[cmd] \in AliveStates)
  PROVE  Lent' = Lent
  BY DEF Lent

\* Nothing runs before a start, and the new child is lent unless it was killed.
LEMMA StartLockedLends ==
  ASSUME IInv, NEW p \in Proc, NEW m \in Model, NEW role \in Role,
         NEW written \in BOOLEAN, StartLocked(p, m, role, written),
         role = "single" <=> owner = None
  PROVE  Backend!Next \/ UNCHANGED Backend!vars
  <1>1. Lent = "none" /\ ~LentReady
    BY DEF IInv, TypeOK, OneLiveRuntime, StartLocked, Lent, LentReady
  <1>2. ~status'.ready /\ owner' = owner
    BY DEF StartLocked
  <1>3. CASE written
    <2>1. Lent' = IF role = "single" THEN "single" ELSE "ring"
      BY <1>3, NoneIsFresh DEF IInv, TypeOK, StartLocked, Lent
    <2>2. Backend!Start(Lent') /\ Lent' \in {"single", "ring"}
      BY <1>1, <1>2, <2>1 DEF Backend!Start, LentReady
    <2> QED
      BY <2>2 DEF Backend!Next
  <1>4. CASE ~written
    <2>1. Lent' = "none"
      BY <1>4, NoneIsFresh DEF IInv, TypeOK, StartLocked, Lent
    <2> QED
      BY <1>1, <1>2, <2>1 DEF Backend!vars, LentReady
  <1> QED
    BY <1>3, <1>4

\* Whatever ends or kills a child ends what is lent, or a child long replaced.
LEMMA ChildEndsLends ==
  ASSUME IInv, NEW p \in Proc, proc' \in {Killed(p), [proc EXCEPT ![p] = "exited"]},
         UNCHANGED <<cmd, status, owner>>
  PROVE  Backend!Next \/ UNCHANGED Backend!vars
  <1>1. CASE cmd = p /\ Lent # "none"
    <2>1. Lent' = "none"
      BY <1>1 DEF IInv, TypeOK, Killed, Lent
    <2>2. Backend!End
      BY <1>1, <2>1 DEF Backend!End, Backend!Ended
    <2> QED
      BY <2>2 DEF Backend!Next
  <1>2. CASE ~(cmd = p /\ Lent # "none")
    <2>1. cmd # None => (proc'[cmd] \in AliveStates <=> proc[cmd] \in AliveStates)
      BY <1>2 DEF IInv, TypeOK, Killed, Lent
    <2>2. Lent' = Lent
      BY <2>1, LentKept
    <2> QED
      BY <2>2 DEF Backend!vars
  <1> QED
    BY <1>1, <1>2

\* Every step of the manager is one of the backend, or none.
LEMMA NextLends ==
  IInv /\ ReservedWhileServing /\ [Next]_vars => [Backend!Next]_Backend!vars
  <1> SUFFICES ASSUME IInv, ReservedWhileServing, [Next]_vars
               PROVE  Backend!Next \/ UNCHANGED Backend!vars
    OBVIOUS
  <1>0. status \in Status /\ proc \in [Proc -> ProcState] /\ cmd \in Proc \cup {None}
    BY DEF IInv, TypeOK
  <1>1. ASSUME NEW p \in Proc, NEW m \in Model, NEW written \in BOOLEAN, Start(p, m, written)
        PROVE  Backend!Next \/ UNCHANGED Backend!vars
    BY <1>1, StartLockedLends DEF Start
  <1>2. ASSUME NEW s \in Session, NEW p \in Proc, NEW m \in Model, NEW role \in Role,
               NEW written \in BOOLEAN, StartRing(s, p, m, role, written)
        PROVE  Backend!Next \/ UNCHANGED Backend!vars
    BY <1>2, StartLockedLends, NoneIsFresh DEF StartRing
  <1>3. ASSUME NEW p \in Proc, NEW written \in BOOLEAN, RestoreStart(p, written)
        PROVE  Backend!Next \/ UNCHANGED Backend!vars
    <2>1. disk.model \in Model
      BY <1>3, NoneIsFresh DEF IInv, TypeOK, RestoreStart, StartLocked
    <2>2. owner = None
      BY <1>3 DEF RestoreStart, ReservedWhileServing
    <2> QED
      BY <1>3, <2>1, <2>2, StartLockedLends DEF RestoreStart
  <1>4. CASE Down
    <2>1. Lent' = "none" /\ owner' = None
      BY <1>4 DEF Down, Lent
    <2>2. Backend!ReleaseRing
      BY <2>1 DEF Backend!ReleaseRing, Backend!Ended
    <2> QED
      BY <2>2 DEF Backend!Next
  <1>5. ASSUME NEW s \in Session, ReserveRing(s) PROVE Backend!Next
    <2>1. Lent' = Lent
      BY <1>5, LentKept DEF ReserveRing
    <2>2. Backend!ReserveRing(s)
      BY <1>5, <2>1 DEF ReserveRing, Backend!ReserveRing
    <2> QED
      BY <2>2 DEF Backend!Next
  <1>6. ASSUME NEW s \in Session, ReleaseRing(s) PROVE Backend!Next
    <2>1. Lent' = Lent
      BY <1>6, LentKept DEF ReleaseRing
    <2>2. Backend!ReleaseRing
      BY <1>6, <2>1 DEF ReleaseRing, Backend!ReleaseRing
    <2> QED
      BY <2>2 DEF Backend!Next
  <1>7. ASSUME NEW c \in Caller, StopDeadline(c) \/ StopTimer(c)
        PROVE  Backend!Next \/ UNCHANGED Backend!vars
    <2>1. CASE stopper[c].pc = "waiting"
      <3>1. stopper[c].target \in Proc
        BY <2>1 DEF IInv, StopCalls
      <3>2. proc' = Killed(stopper[c].target) /\ UNCHANGED <<cmd, status, owner>>
        BY <1>7, <2>1 DEF StopDeadline, StopTimer
      <3> QED
        BY <3>1, <3>2, ChildEndsLends
    <2>2. CASE stopper[c].pc # "waiting"
      <3>1. UNCHANGED <<cmd, status, owner, proc>>
        BY <1>7, <2>2 DEF StopDeadline, StopTimer
      <3> QED
        BY <3>1 DEF Backend!vars, Lent
    <2> QED
      BY <2>1, <2>2
  <1>8. ASSUME NEW p \in Proc, Exit(p) PROVE Backend!Next \/ UNCHANGED Backend!vars
    BY <1>8, ChildEndsLends DEF Exit
  <1>9. ASSUME NEW p \in Proc, Listen(p) \/ OrphanExit(p) PROVE UNCHANGED Backend!vars
    <2>1. cmd # None => (proc'[cmd] \in AliveStates <=> proc[cmd] \in AliveStates)
      BY <1>0, <1>9 DEF Listen, OrphanExit
    <2>2. UNCHANGED <<cmd, status, owner>>
      BY <1>9 DEF Listen, OrphanExit
    <2> QED
      BY <2>1, <2>2, LentKept DEF Backend!vars
  <1>10. ASSUME NEW p \in Proc, NEW failure \in BOOLEAN, Reap(p, failure)
         PROVE  UNCHANGED Backend!vars
    <2>1. CASE cmd = p
      <3>1. Lent = "none" /\ Lent' = "none"
        BY <1>0, <1>10, <2>1 DEF Reap, Lent
      <3> QED
        BY <1>10, <3>1 DEF Reap, Backend!vars
    <2>2. CASE cmd # p
      <3>1. UNCHANGED <<cmd, status, owner>> /\ (cmd # None => proc'[cmd] = proc[cmd])
        BY <1>0, <1>10, <2>2 DEF Reap
      <3> QED
        BY <3>1, LentKept DEF Backend!vars
    <2> QED
      BY <2>1, <2>2
  <1>11. ASSUME NEW p \in Proc, MonitorSettle(p) PROVE Backend!Next \/ UNCHANGED Backend!vars
    <2>1. Lent' = Lent
      BY <1>0, <1>11, LentKept DEF MonitorSettle
    <2>2. CASE Lent # "none" /\ status'.ready
      <3>1. Backend!BecomeReady
        BY <1>11, <2>1, <2>2 DEF MonitorSettle, Backend!BecomeReady
      <3> QED
        BY <3>1 DEF Backend!Next
    <2>3. CASE Lent = "none"
      BY <1>11, <2>1, <2>3 DEF MonitorSettle, Backend!vars
    <2>4. CASE ~status'.ready
      BY <1>0, <1>11, <2>1, <2>4 DEF MonitorSettle, Backend!vars
    <2> QED
      BY <2>2, <2>3, <2>4
  <1>12. ASSUME NEW c \in Caller, NEW clear \in BOOLEAN, NEW written \in BOOLEAN,
                StopBegin(c, clear, written)
         PROVE  UNCHANGED Backend!vars
    <2>1. UNCHANGED <<cmd, proc, owner>> /\ status'.role = status.role /\ status'.ready = status.ready
      BY <1>0, <1>12 DEF StopBegin
    <2> QED
      BY <2>1, LentKept DEF Backend!vars
  <1>13. ASSUME NEW written \in BOOLEAN, RestoreGiveUp(written) PROVE UNCHANGED Backend!vars
    <2>1. UNCHANGED <<cmd, proc, owner>> /\ status'.role = status.role /\ status'.ready = status.ready
      BY <1>0, <1>13 DEF RestoreGiveUp
    <2> QED
      BY <2>1, LentKept DEF Backend!vars
  <1>14. CASE Up \/ RestoreNothing \/ RestoreRefused
    BY <1>14 DEF Up, RestoreNothing, RestoreRefused, Backend!vars, Lent
  <1>15. ASSUME NEW c \in Caller, StopDone(c) \/ StopReturn(c) PROVE UNCHANGED Backend!vars
    BY <1>15 DEF StopDone, StopReturn, Backend!vars, Lent
  <1>16. ASSUME NEW p \in Proc, MonitorCheck(p) \/ MonitorProbe(p) PROVE UNCHANGED Backend!vars
    BY <1>16 DEF MonitorCheck, MonitorProbe, Backend!vars, Lent
  <1>17. ASSUME NEW m \in Model, DeleteStoredModel(m) PROVE UNCHANGED Backend!vars
    BY <1>17 DEF DeleteStoredModel, Backend!vars, Lent
  <1>18. CASE UNCHANGED vars
    BY <1>18 DEF vars, Backend!vars, Lent
  <1> QED
    BY <1>1, <1>2, <1>3, <1>4, <1>5, <1>6, <1>7, <1>8, <1>9, <1>10, <1>11, <1>12, <1>13,
       <1>14, <1>15, <1>16, <1>17, <1>18 DEF Next

\* The runtime is reserved only while the service serves.
LEMMA NextReserved == ReservedWhileServing /\ [Next]_vars => ReservedWhileServing'
  <1> SUFFICES ASSUME ReservedWhileServing, [Next]_vars PROVE ReservedWhileServing'
    OBVIOUS
  <1> USE DEF ReservedWhileServing
  <1>1. CASE UNCHANGED vars \/ Down \/ Up \/ RestoreNothing \/ RestoreRefused
    BY <1>1 DEF vars, Down, Up, RestoreNothing, RestoreRefused
  <1>2. CASE \E written \in BOOLEAN : RestoreGiveUp(written) \/ \E p \in Proc : RestoreStart(p, written)
    BY <1>2 DEF RestoreGiveUp, RestoreStart, StartLocked
  <1>3. CASE \E s \in Session : ReserveRing(s) \/ ReleaseRing(s)
    BY <1>3 DEF ReserveRing, ReleaseRing
  <1>4. CASE \E m \in Model : DeleteStoredModel(m)
    BY <1>4 DEF DeleteStoredModel
  <1>5. CASE \E p \in Proc, m \in Model, written \in BOOLEAN :
               Start(p, m, written) \/ \E s \in Session, role \in Role : StartRing(s, p, m, role, written)
    BY <1>5 DEF Start, StartRing, StartLocked
  <1>6. CASE \E c \in Caller : \/ StopDone(c) \/ StopDeadline(c) \/ StopTimer(c) \/ StopReturn(c)
                             \/ \E clear, written \in BOOLEAN : StopBegin(c, clear, written)
    BY <1>6 DEF StopDone, StopDeadline, StopTimer, StopReturn, StopBegin
  <1>7. CASE \E p \in Proc : \/ Listen(p) \/ Exit(p) \/ OrphanExit(p)
                           \/ MonitorCheck(p) \/ MonitorProbe(p) \/ MonitorSettle(p)
                           \/ \E failure \in BOOLEAN : Reap(p, failure)
    BY <1>7 DEF Listen, Exit, OrphanExit, MonitorCheck, MonitorProbe, MonitorSettle, Reap
  <1> QED
    BY <1>1, <1>2, <1>3, <1>4, <1>5, <1>6, <1>7 DEF Next

\* For every number of children, sessions and callers the manager keeps what the
\* cluster relies on, through failed writes, kills, restores and relaunches.
THEOREM ManagerImplementsBackend == Spec => ImplementsRingBackend
  <1>1. Init => Backend!Init /\ ReservedWhileServing
    BY DEF Init, Backend!Init, Lent, ReservedWhileServing
  <1>2. QED
    BY <1>1, NextLends, NextReserved, RuntimeInvariant, PTL
    DEF Spec, ImplementsRingBackend, Backend!Spec
=============================================================================
