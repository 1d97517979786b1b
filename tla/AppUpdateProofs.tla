-------------------------- MODULE AppUpdateProofs --------------------------
(* Safety of AppUpdate for every set of updates and every kind of fault: an *)
(* inductive invariant and the theorems that follow from it.                *)
EXTENDS AppUpdate, TLAPS

USE UpdatesAreNew
USE DEF Version, Content, Kind, KindOf, Install, Working, Ended, Before, appVars, diskVars,
        Fault, Helping, May, At, Tell, Holds, Proven

\* A program that just started updates from nowhere, with the first version installed.
LEMMA InitIInv == Init => IInv
  <1> SUFFICES ASSUME Init PROVE IInv
    OBVIOUS
  <1>1. TypeOK
    <2>1. target \in Content /\ payload \in [Update -> Content] /\ backup \in [Update -> Content]
      BY DEF Init
    <2>2. status \in [Kind -> [state : {"idle", "active", "completed", "failed"}, of : Update \cup {None}]]
      BY DEF Init
    <2> QED
      BY <2>1, <2>2 DEF Init, TypeOK
  <1>0. LockIsHeld
    BY DEF Init, LockIsHeld
  <1>2. OnDisk /\ VersionsAreNew /\ ProvenIsKept
    BY DEF Init, OnDisk, DiskOfStep, VersionsAreNew, ProvenIsKept
  <1>3. Undisturbed /\ GoesBack
    BY DEF Init, Undisturbed, GoesBack, AllOrNothing
  <1> QED
    BY <1>0, <1>1, <1>2, <1>3 DEF IInv

\* The user launches the program, or quits.
LEMMA UserIInv ==
  ASSUME IInv, UserStart \/ Quit
  PROVE  IInv'
  <1> USE DEF IInv, TypeOK, LockIsHeld, UserStart, Quit
  <1>1. TypeOK'
    <2>1. CASE UserStart
      BY <2>1
    <2>2. CASE Quit
      BY <2>2
    <2> QED
      BY <2>1, <2>2
  <1>2. LockIsHeld'
    OBVIOUS
  <1>3. OnDisk'
    <2>1. CASE UserStart
      BY <2>1 DEF OnDisk, DiskOfStep
    <2>2. CASE Quit
      BY <2>2 DEF OnDisk, DiskOfStep
    <2> QED
      BY <2>1, <2>2
  <1>4. VersionsAreNew'
    <2>1. CASE UserStart
      BY <2>1 DEF VersionsAreNew, OnDisk, DiskOfStep
    <2>2. CASE Quit
      BY <2>2 DEF VersionsAreNew, OnDisk, DiskOfStep
    <2> QED
      BY <2>1, <2>2
  <1>5. ProvenIsKept'
    <2>1. CASE UserStart
      BY <2>1 DEF ProvenIsKept, OnDisk, DiskOfStep
    <2>2. CASE Quit
      BY <2>2 DEF ProvenIsKept, OnDisk, DiskOfStep
    <2> QED
      BY <2>1, <2>2
  <1>6. Undisturbed'
    <2>1. CASE UserStart
      BY <2>1 DEF Undisturbed, OnDisk, DiskOfStep
    <2>2. CASE Quit
      BY <2>2 DEF Undisturbed, OnDisk, DiskOfStep
    <2> QED
      BY <2>1, <2>2
  <1>7. GoesBack'
    <2>1. CASE UserStart
      BY <2>1 DEF GoesBack, AllOrNothing, Undisturbed, OnDisk, DiskOfStep, VersionsAreNew
    <2>2. CASE Quit
      BY <2>2 DEF GoesBack, AllOrNothing, Undisturbed, OnDisk, DiskOfStep, VersionsAreNew
    <2> QED
      BY <2>1, <2>2
  <1> QED
    BY <1>1, <1>2, <1>3, <1>4, <1>5, <1>6, <1>7

\* The data change, the version does not.
LEMMA SaveDataIInv ==
  ASSUME IInv, SaveData
  PROVE  IInv'
  <1> USE DEF IInv, TypeOK, LockIsHeld, SaveData
  <1>1. target' \in [ver : Version, data : 0 .. MaxData] /\ target'.ver = target.ver
    OBVIOUS
  <1>2. TypeOK'
    BY <1>1
  <1>3. LockIsHeld'
    BY <1>1
  <1>4. OnDisk'
    BY <1>1 DEF OnDisk, DiskOfStep
  <1>5. VersionsAreNew'
    BY <1>1 DEF VersionsAreNew, OnDisk, DiskOfStep
  <1>6. ProvenIsKept'
    BY <1>1 DEF ProvenIsKept, OnDisk, DiskOfStep
  <1>7. Undisturbed'
    BY <1>1 DEF Undisturbed, OnDisk, DiskOfStep
  <1>8. GoesBack'
    BY <1>1 DEF GoesBack, AllOrNothing, Undisturbed, OnDisk, DiskOfStep, VersionsAreNew
  <1> QED
    BY <1>2, <1>3, <1>4, <1>5, <1>6, <1>7, <1>8

\* A process ends, orderly or not.
LEMMA DieIInv ==
  ASSUME IInv, Die
  PROVE  IInv'
  <1> USE DEF IInv, TypeOK, LockIsHeld, Die
  <1>1. TypeOK'
    OBVIOUS
  <1>2. LockIsHeld'
    OBVIOUS
  <1>3. OnDisk'
    BY DEF OnDisk, DiskOfStep
  <1>4. VersionsAreNew'
    BY DEF VersionsAreNew, OnDisk, DiskOfStep
  <1>5. ProvenIsKept'
    BY DEF ProvenIsKept, OnDisk, DiskOfStep
  <1>6. Undisturbed'
    BY DEF Undisturbed, OnDisk, DiskOfStep
  <1>7. GoesBack'
    BY DEF GoesBack, AllOrNothing, Undisturbed, OnDisk, DiskOfStep, VersionsAreNew
  <1> QED
    BY <1>1, <1>2, <1>3, <1>4, <1>5, <1>6, <1>7

\* The launched process reports.
LEMMA ReportIInv ==
  ASSUME IInv, Report
  PROVE  IInv'
  <1> USE DEF IInv, TypeOK, LockIsHeld, Report
  <1>1. TypeOK'
    OBVIOUS
  <1>2. LockIsHeld'
    OBVIOUS
  <1>3. OnDisk'
    BY DEF OnDisk, DiskOfStep
  <1>4. VersionsAreNew'
    BY DEF VersionsAreNew, OnDisk, DiskOfStep
  <1>5. ProvenIsKept'
    BY DEF ProvenIsKept, OnDisk, DiskOfStep
  <1>6. Undisturbed'
    BY DEF Undisturbed, OnDisk, DiskOfStep
  <1>7. GoesBack'
    BY DEF GoesBack, AllOrNothing, Undisturbed, OnDisk, DiskOfStep, VersionsAreNew
  <1> QED
    BY <1>1, <1>2, <1>3, <1>4, <1>5, <1>6, <1>7

\* An automatic update takes a free lock.
LEMMA StartIInv ==
  ASSUME IInv, NEW u \in Update, Start(u)
  PROVE  IInv'
  <1> USE DEF IInv, TypeOK, LockIsHeld, Start
  <1>1. TypeOK'
    OBVIOUS
  <1>2. LockIsHeld'
    OBVIOUS
  <1>3. OnDisk'
    BY DEF OnDisk, DiskOfStep
  <1>4. VersionsAreNew'
    BY DEF VersionsAreNew, OnDisk, DiskOfStep
  <1>5. ProvenIsKept'
    BY DEF ProvenIsKept, OnDisk, DiskOfStep
  <1>6. Undisturbed'
    BY DEF Undisturbed, OnDisk, DiskOfStep
  <1>7. GoesBack'
    BY DEF GoesBack, AllOrNothing, Undisturbed, OnDisk, DiskOfStep, VersionsAreNew
  <1> QED
    BY <1>1, <1>2, <1>3, <1>4, <1>5, <1>6, <1>7

\* The update ends before a helper exists.
LEMMA FetchFailsIInv ==
  ASSUME IInv, FetchFails
  PROVE  IInv'
  <1> USE DEF IInv, TypeOK, LockIsHeld, FetchFails, PrepareEnds
  <1>1. TypeOK'
    OBVIOUS
  <1>2. LockIsHeld'
    OBVIOUS
  <1>3. OnDisk'
    BY DEF OnDisk, DiskOfStep
  <1>4. VersionsAreNew'
    BY DEF VersionsAreNew, OnDisk, DiskOfStep
  <1>5. ProvenIsKept'
    BY DEF ProvenIsKept, OnDisk, DiskOfStep
  <1>6. Undisturbed'
    BY DEF Undisturbed, OnDisk, DiskOfStep
  <1>7. GoesBack'
    BY DEF GoesBack, AllOrNothing, Undisturbed, OnDisk, DiskOfStep, VersionsAreNew
  <1> QED
    BY <1>1, <1>2, <1>3, <1>4, <1>5, <1>6, <1>7

\* The helper inherits the lock of the program.
LEMMA SpawnIInv ==
  ASSUME IInv, Spawn
  PROVE  IInv'
  <1> USE DEF IInv, TypeOK, LockIsHeld, Spawn
  <1>1. worker.of \in parent /\ helper[worker.of] = "none" /\ lock = {"app"}
    OBVIOUS
  <1>2. worker' # None /\ worker'.of = worker.of /\ worker'.step = "await"
    OBVIOUS
  <1>3. TypeOK'
    BY <1>1, <1>2
  <1>4. LockIsHeld'
    BY <1>1, <1>2
  <1>5. OnDisk'
    BY <1>1, <1>2 DEF OnDisk, DiskOfStep
  <1>6. VersionsAreNew'
    BY <1>1, <1>2 DEF VersionsAreNew, OnDisk, DiskOfStep
  <1>7. ProvenIsKept'
    BY <1>1, <1>2 DEF ProvenIsKept, OnDisk, DiskOfStep
  <1>8. Undisturbed'
    BY <1>1, <1>2 DEF Undisturbed, OnDisk, DiskOfStep
  <1>9. GoesBack'
    BY <1>1, <1>2 DEF GoesBack, AllOrNothing, Undisturbed, OnDisk, DiskOfStep, VersionsAreNew
  <1> QED
    BY <1>3, <1>4, <1>5, <1>6, <1>7, <1>8, <1>9

\* The program notices the end of its helper.
LEMMA HelperEndedIInv ==
  ASSUME IInv, HelperEnded
  PROVE  IInv'
  <1> USE DEF IInv, TypeOK, LockIsHeld, HelperEnded, PrepareEnds
  <1>1. TypeOK'
    OBVIOUS
  <1>2. LockIsHeld'
    OBVIOUS
  <1>3. OnDisk'
    BY DEF OnDisk, DiskOfStep
  <1>4. VersionsAreNew'
    BY DEF VersionsAreNew, OnDisk, DiskOfStep
  <1>5. ProvenIsKept'
    BY DEF ProvenIsKept, OnDisk, DiskOfStep
  <1>6. Undisturbed'
    BY DEF Undisturbed, OnDisk, DiskOfStep
  <1>7. GoesBack'
    BY DEF GoesBack, AllOrNothing, Undisturbed, OnDisk, DiskOfStep, VersionsAreNew
  <1> QED
    BY <1>1, <1>2, <1>3, <1>4, <1>5, <1>6, <1>7

\* The program kills its helper.
LEMMA KillHelperIInv ==
  ASSUME IInv, KillHelper
  PROVE  IInv'
  <1> USE DEF IInv, TypeOK, LockIsHeld, KillHelper
  <1>1. TypeOK'
    OBVIOUS
  <1>2. LockIsHeld'
    OBVIOUS
  <1>3. OnDisk'
    BY DEF OnDisk, DiskOfStep
  <1>4. VersionsAreNew'
    BY DEF VersionsAreNew, OnDisk, DiskOfStep
  <1>5. ProvenIsKept'
    BY DEF ProvenIsKept, OnDisk, DiskOfStep
  <1>6. Undisturbed'
    BY DEF Undisturbed, OnDisk, DiskOfStep
  <1>7. GoesBack'
    BY DEF GoesBack, AllOrNothing, Undisturbed, OnDisk, DiskOfStep, VersionsAreNew
  <1> QED
    BY <1>1, <1>2, <1>3, <1>4, <1>5, <1>6, <1>7

\* The program hands over and shuts down.
LEMMA HandoffIInv ==
  ASSUME IInv, Handoff
  PROVE  IInv'
  <1> USE DEF IInv, TypeOK, LockIsHeld, Handoff, PrepareEnds
  <1>1. worker.of \in parent /\ helper[worker.of] = "wait"
    OBVIOUS
  <1>2. \A u \in Update : helper[u] \in Working => u = worker.of
    OBVIOUS
  <1>3. TypeOK'
    BY <1>1, <1>2
  <1>4. LockIsHeld'
    BY <1>1, <1>2
  <1>5. OnDisk'
    BY <1>1, <1>2 DEF OnDisk, DiskOfStep
  <1>6. VersionsAreNew'
    BY <1>1, <1>2 DEF VersionsAreNew, OnDisk, DiskOfStep
  <1>7. ProvenIsKept'
    BY <1>1, <1>2 DEF ProvenIsKept, OnDisk, DiskOfStep
  <1>8. Undisturbed'
    BY <1>1, <1>2 DEF Undisturbed, OnDisk, DiskOfStep
  <1>9. GoesBack'
    BY <1>1, <1>2 DEF GoesBack, AllOrNothing, Undisturbed, OnDisk, DiskOfStep, VersionsAreNew
  <1> QED
    BY <1>3, <1>4, <1>5, <1>6, <1>7, <1>8, <1>9

\* An upload takes a free lock.
LEMMA StartZipIInv ==
  ASSUME IInv, NEW u \in Update, StartZip(u)
  PROVE  IInv'
  <1> USE DEF IInv, TypeOK, LockIsHeld, StartZip
  <1>1. status' \in [Kind -> [state : {"idle", "active", "completed", "failed"}, of : Update \cup {None}]]
    OBVIOUS
  <1>2. helper' \in [Update -> {"none"} \cup Working \cup Ended]
    OBVIOUS
  <1>3. lock' \in {lock, {u}} /\ busy' \in BOOLEAN /\ parent' \in {parent, parent \cup {u}}
    OBVIOUS
  <1>4. TypeOK'
    <2>1. CASE StartZip(u)
      BY <2>1, <1>1, <1>2, <1>3
    <2> QED
      BY <2>1
  <1>5. LockIsHeld'
    BY <1>1, <1>2, <1>3
  <1>6. OnDisk'
    <2>1. CASE StartZip(u)
      BY <2>1, <1>1, <1>2, <1>3 DEF OnDisk, DiskOfStep
    <2> QED
      BY <2>1
  <1>7. VersionsAreNew'
    <2>1. CASE StartZip(u)
      BY <2>1, <1>1, <1>2, <1>3 DEF VersionsAreNew, OnDisk, DiskOfStep
    <2> QED
      BY <2>1
  <1>8. ProvenIsKept'
    <2>1. CASE StartZip(u)
      BY <2>1, <1>1, <1>2, <1>3 DEF ProvenIsKept, OnDisk, DiskOfStep
    <2> QED
      BY <2>1
  <1>9. Undisturbed'
    BY <1>1, <1>2, <1>3 DEF Undisturbed, OnDisk, DiskOfStep
  <1>10. GoesBack'
    BY <1>1, <1>2, <1>3 DEF GoesBack, AllOrNothing, Undisturbed, OnDisk, DiskOfStep, VersionsAreNew
  <1> QED
    BY <1>4, <1>5, <1>6, <1>7, <1>8, <1>9, <1>10

\* A helper that failed says so and ends.
LEMMA FailIInv ==
  ASSUME IInv, NEW u \in Update, Fail(u) \/ FailEnds(u)
  PROVE  IInv'
  <1> USE DEF IInv, TypeOK, LockIsHeld, Fail, FailEnds, End
  <1>1. status' \in [Kind -> [state : {"idle", "active", "completed", "failed"}, of : Update \cup {None}]]
    OBVIOUS
  <1>2. TypeOK'
    <2>1. CASE Fail(u)
      BY <2>1, <1>1
    <2>2. CASE FailEnds(u)
      BY <2>2, <1>1
    <2> QED
      BY <2>1, <2>2
  <1>3. LockIsHeld'
    BY <1>1
  <1>4. OnDisk'
    <2>1. CASE Fail(u)
      BY <2>1, <1>1 DEF OnDisk, DiskOfStep
    <2>2. CASE FailEnds(u)
      BY <2>2, <1>1 DEF OnDisk, DiskOfStep
    <2> QED
      BY <2>1, <2>2
  <1>5. VersionsAreNew'
    <2>1. CASE Fail(u)
      BY <2>1, <1>1 DEF VersionsAreNew, OnDisk, DiskOfStep
    <2>2. CASE FailEnds(u)
      BY <2>2, <1>1 DEF VersionsAreNew, OnDisk, DiskOfStep
    <2> QED
      BY <2>1, <2>2
  <1>6. ProvenIsKept'
    <2>1. CASE Fail(u)
      BY <2>1, <1>1 DEF ProvenIsKept, OnDisk, DiskOfStep
    <2>2. CASE FailEnds(u)
      BY <2>2, <1>1 DEF ProvenIsKept, OnDisk, DiskOfStep
    <2> QED
      BY <2>1, <2>2
  <1>7. Undisturbed'
    BY <1>1 DEF Undisturbed, OnDisk, DiskOfStep
  <1>8. GoesBack'
    BY <1>1 DEF GoesBack, AllOrNothing, Undisturbed, OnDisk, DiskOfStep, VersionsAreNew
  <1> QED
    BY <1>2, <1>3, <1>4, <1>5, <1>6, <1>7, <1>8

\* The preparation in the helper.
LEMMA VerifyIInv ==
  ASSUME IInv, NEW u \in Update, Verify(u) \/ Prepare(u)
  PROVE  IInv'
  <1> USE DEF IInv, TypeOK, LockIsHeld, Verify, Prepare
  <1>1. status' \in [Kind -> [state : {"idle", "active", "completed", "failed"}, of : Update \cup {None}]]
    OBVIOUS
  <1>2. TypeOK'
    <2>1. CASE Verify(u)
      BY <2>1, <1>1
    <2>2. CASE Prepare(u)
      BY <2>2, <1>1
    <2> QED
      BY <2>1, <2>2
  <1>3. LockIsHeld'
    BY <1>1
  <1>4. OnDisk'
    <2>1. CASE Verify(u)
      BY <2>1, <1>1 DEF OnDisk, DiskOfStep
    <2>2. CASE Prepare(u)
      BY <2>2, <1>1 DEF OnDisk, DiskOfStep
    <2> QED
      BY <2>1, <2>2
  <1>5. VersionsAreNew'
    <2>1. CASE Verify(u)
      BY <2>1, <1>1 DEF VersionsAreNew, OnDisk, DiskOfStep
    <2>2. CASE Prepare(u)
      BY <2>2, <1>1 DEF VersionsAreNew, OnDisk, DiskOfStep
    <2> QED
      BY <2>1, <2>2
  <1>6. ProvenIsKept'
    <2>1. CASE Verify(u)
      BY <2>1, <1>1 DEF ProvenIsKept, OnDisk, DiskOfStep
    <2>2. CASE Prepare(u)
      BY <2>2, <1>1 DEF ProvenIsKept, OnDisk, DiskOfStep
    <2> QED
      BY <2>1, <2>2
  <1>7. Undisturbed'
    BY <1>1 DEF Undisturbed, OnDisk, DiskOfStep
  <1>8. GoesBack'
    BY <1>1 DEF GoesBack, AllOrNothing, Undisturbed, OnDisk, DiskOfStep, VersionsAreNew
  <1> QED
    BY <1>2, <1>3, <1>4, <1>5, <1>6, <1>7, <1>8

\* The helper waits for the program to end.
LEMMA WaitIInv ==
  ASSUME IInv, NEW u \in Update, ParentGone(u) \/ ParentStays(u)
  PROVE  IInv'
  <1> USE DEF IInv, TypeOK, LockIsHeld, ParentGone, ParentStays
  <1>1. helper' \in [Update -> {"none"} \cup Working \cup Ended]
    OBVIOUS
  <1>2. TypeOK'
    <2>1. CASE ParentGone(u)
      BY <2>1, <1>1
    <2>2. CASE ParentStays(u)
      BY <2>2, <1>1
    <2> QED
      BY <2>1, <2>2
  <1>3. LockIsHeld'
    BY <1>1
  <1>4. OnDisk'
    BY <1>1 DEF OnDisk, DiskOfStep
  <1>5. VersionsAreNew'
    BY <1>1 DEF VersionsAreNew, OnDisk, DiskOfStep
  <1>6. ProvenIsKept'
    BY <1>1 DEF ProvenIsKept, OnDisk, DiskOfStep
  <1>7. Undisturbed'
    BY <1>1 DEF Undisturbed, OnDisk, DiskOfStep
  <1>8. GoesBack'
    BY <1>1 DEF GoesBack, AllOrNothing, Undisturbed, OnDisk, DiskOfStep, VersionsAreNew
  <1> QED
    BY <1>2, <1>3, <1>4, <1>5, <1>6, <1>7, <1>8

\* The data are copied while nobody writes them.
LEMMA CopyDataIInv ==
  ASSUME IInv, NEW u \in Update, CopyData(u)
  PROVE  IInv'
  <1> USE DEF IInv, TypeOK, LockIsHeld, CopyData
  <1>1. helper' \in [Update -> {"none"} \cup Working \cup Ended]
    OBVIOUS
  <1>2. [payload[u] EXCEPT !.data = IF target = None THEN 0 ELSE target.data] \in Content
    BY DEF OnDisk, DiskOfStep
  <1>3. payload' \in [Update -> Content]
    BY <1>2
  <1>4. TypeOK'
    BY <1>1, <1>2, <1>3
  <1>5. LockIsHeld'
    BY <1>1, <1>2, <1>3
  <1>6. OnDisk'
    BY <1>1, <1>2, <1>3 DEF OnDisk, DiskOfStep
  <1>7. VersionsAreNew'
    BY <1>1, <1>2, <1>3 DEF VersionsAreNew, OnDisk, DiskOfStep
  <1>8. ProvenIsKept'
    BY <1>1, <1>2, <1>3 DEF ProvenIsKept, OnDisk, DiskOfStep
  <1>9. Undisturbed'
    BY <1>1, <1>2, <1>3 DEF Undisturbed, OnDisk, DiskOfStep
  <1>10. GoesBack'
    BY <1>1, <1>2, <1>3 DEF GoesBack, AllOrNothing, Undisturbed, OnDisk, DiskOfStep, VersionsAreNew
  <1> QED
    BY <1>4, <1>5, <1>6, <1>7, <1>8, <1>9, <1>10

\* The installation moves into the backup.
LEMMA BackUpIInv ==
  ASSUME IInv, NEW u \in Update, BackUp(u)
  PROVE  IInv'
  <1> USE DEF IInv, TypeOK, LockIsHeld, BackUp
  <1>1. TypeOK'
    OBVIOUS
  <1>2. LockIsHeld'
    OBVIOUS
  <1>3. OnDisk'
    BY DEF OnDisk, DiskOfStep
  <1>4. VersionsAreNew'
    BY DEF VersionsAreNew, OnDisk, DiskOfStep
  <1>5. ProvenIsKept'
    BY DEF ProvenIsKept, OnDisk, DiskOfStep
  <1>6. Undisturbed'
    BY DEF Undisturbed, OnDisk, DiskOfStep
  <1>7. GoesBack'
    BY DEF GoesBack, AllOrNothing, Undisturbed, OnDisk, DiskOfStep, VersionsAreNew
  <1> QED
    BY <1>1, <1>2, <1>3, <1>4, <1>5, <1>6, <1>7

\* The new version fills the empty place.
LEMMA SwapIInv ==
  ASSUME IInv, NEW u \in Update, Swap(u)
  PROVE  IInv'
  <1> USE DEF IInv, TypeOK, LockIsHeld, Swap
  <1>1. TypeOK'
    OBVIOUS
  <1>2. LockIsHeld'
    OBVIOUS
  <1>3. OnDisk'
    BY DEF OnDisk, DiskOfStep
  <1>4. VersionsAreNew'
    BY DEF VersionsAreNew, OnDisk, DiskOfStep
  <1>5. ProvenIsKept'
    BY DEF ProvenIsKept, OnDisk, DiskOfStep
  <1>6. Undisturbed'
    BY DEF Undisturbed, OnDisk, DiskOfStep
  <1>7. GoesBack'
    BY DEF GoesBack, AllOrNothing, Undisturbed, OnDisk, DiskOfStep, VersionsAreNew
  <1> QED
    BY <1>1, <1>2, <1>3, <1>4, <1>5, <1>6, <1>7

\* A failed way back keeps the backup.
LEMMA GiveUpIInv ==
  ASSUME IInv, NEW u \in Update, GiveUp(u)
  PROVE  IInv'
  <1> USE DEF IInv, TypeOK, LockIsHeld, GiveUp
  <1>1. TypeOK'
    OBVIOUS
  <1>2. LockIsHeld'
    OBVIOUS
  <1>3. OnDisk'
    BY DEF OnDisk, DiskOfStep
  <1>4. VersionsAreNew'
    BY DEF VersionsAreNew, OnDisk, DiskOfStep
  <1>5. ProvenIsKept'
    BY DEF ProvenIsKept, OnDisk, DiskOfStep
  <1>6. Undisturbed'
    BY DEF Undisturbed, OnDisk, DiskOfStep
  <1>7. GoesBack'
    BY DEF GoesBack, AllOrNothing, Undisturbed, OnDisk, DiskOfStep, VersionsAreNew
  <1> QED
    BY <1>1, <1>2, <1>3, <1>4, <1>5, <1>6, <1>7

\* The backup returns to the empty place.
LEMMA MoveBackIInv ==
  ASSUME IInv, NEW u \in Update, MoveBack(u)
  PROVE  IInv'
  <1> USE DEF IInv, TypeOK, LockIsHeld, MoveBack
  <1>1. TypeOK'
    OBVIOUS
  <1>2. LockIsHeld'
    OBVIOUS
  <1>3. OnDisk'
    BY DEF OnDisk, DiskOfStep
  <1>4. VersionsAreNew'
    BY DEF VersionsAreNew, OnDisk, DiskOfStep
  <1>5. ProvenIsKept'
    BY DEF ProvenIsKept, OnDisk, DiskOfStep
  <1>6. Undisturbed'
    BY DEF Undisturbed, OnDisk, DiskOfStep
  <1>7. GoesBack'
    BY DEF GoesBack, AllOrNothing, Undisturbed, OnDisk, DiskOfStep, VersionsAreNew
  <1> QED
    BY <1>1, <1>2, <1>3, <1>4, <1>5, <1>6, <1>7

\* The launched process starts if the port is free.
LEMMA LaunchIInv ==
  ASSUME IInv, NEW u \in Update, Launch(u)
  PROVE  IInv'
  <1> USE DEF IInv, TypeOK, LockIsHeld, Launch
  <1>1. TypeOK'
    OBVIOUS
  <1>2. LockIsHeld'
    OBVIOUS
  <1>3. OnDisk'
    BY DEF OnDisk, DiskOfStep
  <1>4. VersionsAreNew'
    BY DEF VersionsAreNew, OnDisk, DiskOfStep
  <1>5. ProvenIsKept'
    BY DEF ProvenIsKept, OnDisk, DiskOfStep
  <1>6. Undisturbed'
    BY DEF Undisturbed, OnDisk, DiskOfStep
  <1>7. GoesBack'
    BY DEF GoesBack, AllOrNothing, Undisturbed, OnDisk, DiskOfStep, VersionsAreNew
  <1> QED
    BY <1>1, <1>2, <1>3, <1>4, <1>5, <1>6, <1>7

\* A version that reported is proven.
LEMMA AcceptIInv ==
  ASSUME IInv, NEW u \in Update, Accept(u)
  PROVE  IInv'
  <1> USE DEF IInv, TypeOK, LockIsHeld, Accept
  <1>1. TypeOK'
    OBVIOUS
  <1>2. LockIsHeld'
    OBVIOUS
  <1>3. OnDisk'
    BY DEF OnDisk, DiskOfStep
  <1>4. VersionsAreNew'
    BY DEF VersionsAreNew, OnDisk, DiskOfStep
  <1>5. ProvenIsKept'
    BY DEF ProvenIsKept, OnDisk, DiskOfStep
  <1>6. Undisturbed'
    BY DEF Undisturbed, OnDisk, DiskOfStep
  <1>7. GoesBack'
    BY DEF GoesBack, AllOrNothing, Undisturbed, OnDisk, DiskOfStep, VersionsAreNew
  <1> QED
    BY <1>1, <1>2, <1>3, <1>4, <1>5, <1>6, <1>7

\* A version that did not report is stopped.
LEMMA RejectIInv ==
  ASSUME IInv, NEW u \in Update, Reject(u)
  PROVE  IInv'
  <1> USE DEF IInv, TypeOK, LockIsHeld, Reject, Missed
  <1>1. helper' \in [Update -> {"none"} \cup Working \cup Ended]
    OBVIOUS
  <1>2. app' \in {app, "down"} /\ starter' \in {starter, None} /\ parent' \subseteq parent /\ busy' \in BOOLEAN
    OBVIOUS
  <1>3. worker' \in {worker, None} /\ lock' \subseteq lock /\ seen' \subseteq seen
    OBVIOUS
  <1>4. TypeOK'
    BY <1>1, <1>2, <1>3
  <1>5. LockIsHeld'
    BY <1>1, <1>2, <1>3
  <1>6. OnDisk'
    BY <1>1, <1>2, <1>3 DEF OnDisk, DiskOfStep
  <1>7. VersionsAreNew'
    BY <1>1, <1>2, <1>3 DEF VersionsAreNew, OnDisk, DiskOfStep
  <1>8. ProvenIsKept'
    BY <1>1, <1>2, <1>3 DEF ProvenIsKept, OnDisk, DiskOfStep
  <1>9. Undisturbed'
    BY <1>1, <1>2, <1>3 DEF Undisturbed, OnDisk, DiskOfStep
  <1>10. GoesBack'
    BY <1>1, <1>2, <1>3 DEF GoesBack, AllOrNothing, Undisturbed, OnDisk, DiskOfStep, VersionsAreNew
  <1> QED
    BY <1>4, <1>5, <1>6, <1>7, <1>8, <1>9, <1>10

\* A version that did not start is no proven one.
LEMMA SetAsideIInv ==
  ASSUME IInv, NEW u \in Update, SetAside(u)
  PROVE  IInv'
  <1> USE DEF IInv, TypeOK, LockIsHeld, SetAside
  <1>1. TypeOK'
    OBVIOUS
  <1>2. LockIsHeld'
    OBVIOUS
  <1>3. OnDisk'
    BY DEF OnDisk, DiskOfStep
  <1>4. VersionsAreNew'
    BY DEF VersionsAreNew, OnDisk, DiskOfStep
  <1>5. ProvenIsKept'
    BY DEF ProvenIsKept, OnDisk, DiskOfStep
  <1>6. Undisturbed'
    BY DEF Undisturbed, OnDisk, DiskOfStep
  <1>7. GoesBack'
    BY DEF GoesBack, AllOrNothing, Undisturbed, OnDisk, DiskOfStep, VersionsAreNew
  <1> QED
    BY <1>1, <1>2, <1>3, <1>4, <1>5, <1>6, <1>7

\* Success is written, and the helper ends.
LEMMA FinishIInv ==
  ASSUME IInv, NEW u \in Update, Finish(u) \/ InstalledEnds(u)
  PROVE  IInv'
  <1> USE DEF IInv, TypeOK, LockIsHeld, Finish, InstalledEnds, End
  <1>1. status' \in [Kind -> [state : {"idle", "active", "completed", "failed"}, of : Update \cup {None}]]
    OBVIOUS
  <1>2. TypeOK'
    <2>1. CASE Finish(u)
      BY <2>1, <1>1
    <2>2. CASE InstalledEnds(u)
      BY <2>2, <1>1
    <2> QED
      BY <2>1, <2>2
  <1>3. LockIsHeld'
    BY <1>1
  <1>4. OnDisk'
    <2>1. CASE Finish(u)
      BY <2>1, <1>1 DEF OnDisk, DiskOfStep
    <2>2. CASE InstalledEnds(u)
      BY <2>2, <1>1 DEF OnDisk, DiskOfStep
    <2> QED
      BY <2>1, <2>2
  <1>5. VersionsAreNew'
    <2>1. CASE Finish(u)
      BY <2>1, <1>1 DEF VersionsAreNew, OnDisk, DiskOfStep
    <2>2. CASE InstalledEnds(u)
      BY <2>2, <1>1 DEF VersionsAreNew, OnDisk, DiskOfStep
    <2> QED
      BY <2>1, <2>2
  <1>6. ProvenIsKept'
    <2>1. CASE Finish(u)
      BY <2>1, <1>1 DEF ProvenIsKept, OnDisk, DiskOfStep
    <2>2. CASE InstalledEnds(u)
      BY <2>2, <1>1 DEF ProvenIsKept, OnDisk, DiskOfStep
    <2> QED
      BY <2>1, <2>2
  <1>7. Undisturbed'
    BY <1>1 DEF Undisturbed, OnDisk, DiskOfStep
  <1>8. GoesBack'
    BY <1>1 DEF GoesBack, AllOrNothing, Undisturbed, OnDisk, DiskOfStep, VersionsAreNew
  <1> QED
    BY <1>2, <1>3, <1>4, <1>5, <1>6, <1>7, <1>8

\* A killed helper leaves the disk as it is.
LEMMA HelperKilledIInv ==
  ASSUME IInv, NEW u \in Update, HelperKilled(u)
  PROVE  IInv'
  <1> USE DEF IInv, TypeOK, LockIsHeld, HelperKilled, End
  <1>1. TypeOK'
    OBVIOUS
  <1>2. LockIsHeld'
    OBVIOUS
  <1>3. OnDisk'
    BY DEF OnDisk, DiskOfStep
  <1>4. VersionsAreNew'
    BY DEF VersionsAreNew, OnDisk, DiskOfStep
  <1>5. ProvenIsKept'
    BY DEF ProvenIsKept, OnDisk, DiskOfStep
  <1>6. Undisturbed'
    BY DEF Undisturbed, OnDisk, DiskOfStep
  <1>7. GoesBack'
    BY DEF GoesBack, AllOrNothing, Undisturbed, OnDisk, DiskOfStep, VersionsAreNew
  <1> QED
    BY <1>1, <1>2, <1>3, <1>4, <1>5, <1>6, <1>7

\* A status call changes the status and no installation.
LEMMA StatusIInv ==
  ASSUME IInv, NEW k \in Kind, ReadStatus(k) \/ Probe(k) \/ ReadEnd
  PROVE  IInv'
  <1> USE DEF IInv, TypeOK, LockIsHeld, ReadStatus, Probe, ReadEnd, LooksActive
  <1>1. [status[k] EXCEPT !.state = "failed"] \in [state : {"idle", "active", "completed", "failed"}, of : Update \cup {None}]
    OBVIOUS
  <1>2. status' \in [Kind -> [state : {"idle", "active", "completed", "failed"}, of : Update \cup {None}]]
    <2>1. CASE Probe(k)
      <3>1. status' = status \/ status' = [status EXCEPT ![k] = [status[k] EXCEPT !.state = "failed"]]
        BY <2>1
      <3> QED
        BY <1>1, <3>1
    <2>2. CASE ReadStatus(k) \/ ReadEnd
      BY <2>2
    <2> QED
      BY <2>1, <2>2
  <1>3. TypeOK'
    <2>1. CASE ReadStatus(k)
      BY <2>1, <1>1, <1>2
    <2>2. CASE Probe(k)
      BY <2>2, <1>1, <1>2
    <2>3. CASE ReadEnd
      BY <2>3, <1>1, <1>2
    <2> QED
      BY <2>1, <2>2, <2>3
  <1>4. LockIsHeld'
    BY <1>1, <1>2
  <1>5. OnDisk'
    <2>1. CASE ReadStatus(k)
      BY <2>1, <1>1, <1>2 DEF OnDisk, DiskOfStep
    <2>2. CASE Probe(k)
      BY <2>2, <1>1, <1>2 DEF OnDisk, DiskOfStep
    <2>3. CASE ReadEnd
      BY <2>3, <1>1, <1>2 DEF OnDisk, DiskOfStep
    <2> QED
      BY <2>1, <2>2, <2>3
  <1>6. VersionsAreNew'
    <2>1. CASE ReadStatus(k)
      BY <2>1, <1>1, <1>2 DEF VersionsAreNew, OnDisk, DiskOfStep
    <2>2. CASE Probe(k)
      BY <2>2, <1>1, <1>2 DEF VersionsAreNew, OnDisk, DiskOfStep
    <2>3. CASE ReadEnd
      BY <2>3, <1>1, <1>2 DEF VersionsAreNew, OnDisk, DiskOfStep
    <2> QED
      BY <2>1, <2>2, <2>3
  <1>7. ProvenIsKept'
    <2>1. CASE ReadStatus(k)
      BY <2>1, <1>1, <1>2 DEF ProvenIsKept, OnDisk, DiskOfStep
    <2>2. CASE Probe(k)
      BY <2>2, <1>1, <1>2 DEF ProvenIsKept, OnDisk, DiskOfStep
    <2>3. CASE ReadEnd
      BY <2>3, <1>1, <1>2 DEF ProvenIsKept, OnDisk, DiskOfStep
    <2> QED
      BY <2>1, <2>2, <2>3
  <1>8. Undisturbed'
    <2>1. CASE ReadStatus(k)
      BY <2>1, <1>1, <1>2 DEF Undisturbed, OnDisk, DiskOfStep
    <2>2. CASE Probe(k)
      BY <2>2, <1>1, <1>2 DEF Undisturbed, OnDisk, DiskOfStep
    <2>3. CASE ReadEnd
      BY <2>3, <1>1, <1>2 DEF Undisturbed, OnDisk, DiskOfStep
    <2> QED
      BY <2>1, <2>2, <2>3
  <1>9. GoesBack'
    <2>1. CASE ReadStatus(k)
      BY <2>1, <1>1, <1>2 DEF GoesBack, AllOrNothing, Undisturbed, OnDisk, DiskOfStep, VersionsAreNew
    <2>2. CASE Probe(k)
      BY <2>2, <1>1, <1>2 DEF GoesBack, AllOrNothing, Undisturbed, OnDisk, DiskOfStep, VersionsAreNew
    <2>3. CASE ReadEnd
      BY <2>3, <1>1, <1>2 DEF GoesBack, AllOrNothing, Undisturbed, OnDisk, DiskOfStep, VersionsAreNew
    <2> QED
      BY <2>1, <2>2, <2>3
  <1> QED
    BY <1>3, <1>4, <1>5, <1>6, <1>7, <1>8, <1>9

\* The invariant is inductive.
LEMMA NextIInv == IInv /\ [Next]_vars => IInv'
  <1> SUFFICES ASSUME IInv, [Next]_vars PROVE IInv'
    OBVIOUS
  <1>1. CASE Program
    <2>1. CASE UserStart \/ Quit \/ SaveData
      BY <2>1, UserIInv, SaveDataIInv
    <2>2. CASE Crash \/ Stumble
      BY <2>2, DieIInv DEF Crash, Stumble
    <2>3. ASSUME NEW u \in Update, Start(u) \/ StartZip(u) PROVE IInv'
      BY <2>3, StartIInv, StartZipIInv
    <2> QED
      BY <1>1, <2>1, <2>2, <2>3 DEF Program
  <1>2. CASE Background
    BY <1>2, DieIInv, ReportIInv, FetchFailsIInv, SpawnIInv, HelperEndedIInv, KillHelperIInv,
       HandoffIInv, StatusIInv DEF Background, Exit
  <1>3. ASSUME NEW u \in Update, Help(u) PROVE IInv'
    <2>1. CASE Fail(u) \/ FailEnds(u) \/ Verify(u) \/ Prepare(u) \/ ParentGone(u) \/ ParentStays(u)
      BY <2>1, FailIInv, VerifyIInv, WaitIInv
    <2>2. CASE CopyData(u) \/ BackUp(u) \/ Swap(u) \/ GiveUp(u) \/ MoveBack(u) \/ Launch(u)
      BY <2>2, CopyDataIInv, BackUpIInv, SwapIInv, GiveUpIInv, MoveBackIInv, LaunchIInv
    <2>3. CASE Accept(u) \/ Reject(u) \/ SetAside(u) \/ Finish(u) \/ InstalledEnds(u)
      BY <2>3, AcceptIInv, RejectIInv, SetAsideIInv, FinishIInv
    <2> QED
      BY <1>3, <2>1, <2>2, <2>3 DEF Help
  <1>4. ASSUME NEW u \in Update, HelperKilled(u) PROVE IInv'
    BY <1>4, HelperKilledIInv
  <1>5. CASE UNCHANGED vars
    <2>1. TypeOK' /\ LockIsHeld'
      BY <1>5 DEF vars, IInv, TypeOK, LockIsHeld
    <2>2. OnDisk' /\ VersionsAreNew' /\ ProvenIsKept'
      BY <1>5 DEF vars, IInv, OnDisk, DiskOfStep, VersionsAreNew, ProvenIsKept
    <2>3. Undisturbed' /\ GoesBack'
      BY <1>5 DEF vars, IInv, Undisturbed, GoesBack, AllOrNothing
    <2> QED
      BY <2>1, <2>2, <2>3 DEF IInv
  <1> QED
    BY <1>1, <1>2, <1>3, <1>4, <1>5 DEF Next

-----------------------------------------------------------------------------
(* The theorems.                                                           *)

\* The inductive invariant holds in every reachable state.
THEOREM UpdateInvariant == Spec => []IInv
  BY InitIInv, NextIInv, PTL DEF Spec

\* However updates are started and whatever dies, one helper installs at a time.
THEOREM InstallersKeepApart == Spec => []OneInstaller
  <1>1. IInv => OneInstaller
    BY DEF IInv, LockIsHeld, OneInstaller
  <1> QED
    BY <1>1, UpdateInvariant, PTL

\* No failure, kill or crash loses a version that worked.
THEOREM WorkingVersionsStay == Spec => []ProvenIsKept
  <1>1. IInv => ProvenIsKept
    BY DEF IInv
  <1> QED
    BY <1>1, UpdateInvariant, PTL

\* While nobody launches the program by hand and no file operation fails, an
\* update is installed and confirmed or the version before it is back.
THEOREM UpdateIsAtomic ==
  ASSUME Patient, "files" \notin Faults PROVE Spec => []AllOrNothing
  <1>1. IInv => AllOrNothing
    BY DEF IInv, GoesBack
  <1> QED
    BY <1>1, UpdateInvariant, PTL

\* Nothing but the swap of an update takes its helper to the launch.
LEMMA OnlySwapLaunches ==
  ASSUME TypeOK, Next, NEW u \in Update, helper[u] = "swap", helper'[u] = "launch"
  PROVE  Swap(u)
  <1> USE DEF TypeOK
  <1>1. CASE Program
    BY <1>1 DEF Program, UserStart, Quit, SaveData, Crash, Stumble, Die, Start, StartZip
  <1>2. CASE Background
    <2>1. FetchFails \/ Spawn \/ KillHelper => helper'[u] # "launch"
      BY DEF FetchFails, Spawn, KillHelper
    <2>2. Exit \/ Report \/ HelperEnded \/ Handoff \/ ReadEnd => helper' = helper
      BY DEF Exit, Die, Report, HelperEnded, Handoff, ReadEnd
    <2>3. (\E k \in Kind : ReadStatus(k) \/ Probe(k)) => helper' = helper
      BY DEF ReadStatus, Probe
    <2> QED
      BY <1>2, <2>1, <2>2, <2>3 DEF Background
  <1>3. ASSUME NEW v \in Update, Help(v) PROVE Swap(u)
    <2>1. Fail(v) \/ FailEnds(v) \/ Verify(v) \/ Prepare(v) \/ ParentGone(v) \/ ParentStays(v) => helper'[u] # "launch"
      BY DEF Fail, FailEnds, End, Verify, Prepare, ParentGone, ParentStays
    <2>2. CopyData(v) \/ BackUp(v) \/ GiveUp(v) \/ MoveBack(v) \/ Launch(v) => helper'[u] # "launch"
      BY DEF CopyData, BackUp, GiveUp, MoveBack, Launch
    <2>3. Accept(v) \/ Reject(v) \/ SetAside(v) \/ Finish(v) \/ InstalledEnds(v) => helper'[u] # "launch"
      BY DEF Accept, Reject, SetAside, Finish, InstalledEnds, End
    <2>4. Swap(v) => u = v
      BY DEF Swap
    <2> QED
      BY <1>3, <2>1, <2>2, <2>3, <2>4 DEF Help
  <1>4. ASSUME NEW v \in Update, HelperKilled(v) PROVE Swap(u)
    BY <1>4 DEF HelperKilled, End
  <1> QED
    BY <1>1, <1>2, <1>3, <1>4 DEF Next

\* While nobody launches the program by hand, no user data are left behind.
THEOREM DataMovesAlong ==
  ASSUME Patient PROVE Spec => DataIsCarried
  <1>1. IInv /\ [Next]_vars =>
          [\A u \in Update : helper[u] = "swap" /\ helper'[u] = "launch" =>
             target'.data = backup[u].data]_vars
    <2> SUFFICES ASSUME IInv, Next, NEW u \in Update, helper[u] = "swap", helper'[u] = "launch"
                 PROVE  target'.data = backup[u].data
      OBVIOUS
    <2>1. Swap(u)
      BY OnlySwapLaunches DEF IInv
    <2> QED
      BY <2>1 DEF Swap, IInv, Undisturbed, TypeOK
  <1> QED
    BY <1>1, UpdateInvariant, PTL DEF Spec, DataIsCarried

\* Only a helper in the exchange empties or fills the place of the installation.
LEMMA OnlyExchanges ==
  ASSUME IInv, Next, (target = None) # (target' = None)
  PROVE  \E u \in Update : helper[u] \in {"backup", "swap", "undo", "setaside", "restore"}
  <1> USE DEF IInv, TypeOK
  <1>1. CASE Program
    BY <1>1 DEF Program, UserStart, Quit, SaveData, Crash, Stumble, Die, Start, StartZip
  <1>2. CASE Background
    BY <1>2 DEF Background, Exit, Die, Report, FetchFails, Spawn, HelperEnded, KillHelper, Handoff,
       ReadEnd, ReadStatus, Probe
  <1>3. ASSUME NEW v \in Update, Help(v)
        PROVE  helper[v] \in {"backup", "swap", "undo", "setaside", "restore"}
    <2>1. Fail(v) \/ FailEnds(v) \/ Verify(v) \/ Prepare(v) \/ ParentGone(v) \/ ParentStays(v) => target' = target
      BY DEF Fail, FailEnds, Verify, Prepare, ParentGone, ParentStays
    <2>2. CopyData(v) \/ GiveUp(v) \/ Launch(v) \/ Accept(v) \/ Reject(v) \/ Finish(v) \/ InstalledEnds(v) => target' = target
      BY DEF CopyData, GiveUp, Launch, Accept, Reject, Finish, InstalledEnds
    <2>3. BackUp(v) \/ Swap(v) \/ MoveBack(v) \/ SetAside(v)
      BY <1>3, <2>1, <2>2 DEF Help
    <2> QED
      BY <2>3 DEF BackUp, Swap, MoveBack, SetAside
  <1>4. ASSUME NEW v \in Update, HelperKilled(v) PROVE FALSE
    BY <1>4 DEF HelperKilled
  <1> QED
    BY <1>1, <1>2, <1>3, <1>4 DEF Next

\* While nobody launches the program by hand, the installation is never
\* exchanged under a running program.
THEOREM ExchangeIsQuiet ==
  ASSUME Patient PROVE Spec => NeverUnderARunningProgram
  <1>1. IInv /\ [Next]_vars => [(target = None) # (target' = None) => app = "down"]_vars
    BY OnlyExchanges DEF IInv, Undisturbed
  <1> QED
    BY <1>1, UpdateInvariant, PTL DEF Spec, NeverUnderARunningProgram

\* Only the acceptance of a report leads to the last step of a helper that succeeds.
LEMMA OnlyAcceptFinishes ==
  ASSUME TypeOK, Next, NEW u \in Update, helper[u] # "finish", helper'[u] = "finish"
  PROVE  Accept(u)
  <1> USE DEF TypeOK
  <1>1. CASE Program
    BY <1>1 DEF Program, UserStart, Quit, SaveData, Crash, Stumble, Die, Start, StartZip
  <1>2. CASE Background
    <2>1. FetchFails \/ Spawn \/ KillHelper => helper'[u] # "finish"
      BY DEF FetchFails, Spawn, KillHelper
    <2>2. Exit \/ Report \/ HelperEnded \/ Handoff \/ ReadEnd => helper' = helper
      BY DEF Exit, Die, Report, HelperEnded, Handoff, ReadEnd
    <2>3. (\E k \in Kind : ReadStatus(k) \/ Probe(k)) => helper' = helper
      BY DEF ReadStatus, Probe
    <2> QED
      BY <1>2, <2>1, <2>2, <2>3 DEF Background
  <1>3. ASSUME NEW v \in Update, Help(v) PROVE Accept(u)
    <2>1. Fail(v) \/ FailEnds(v) \/ Verify(v) \/ Prepare(v) \/ ParentGone(v) \/ ParentStays(v) => helper'[u] # "finish"
      BY DEF Fail, FailEnds, End, Verify, Prepare, ParentGone, ParentStays
    <2>2. CopyData(v) \/ BackUp(v) \/ Swap(v) \/ GiveUp(v) \/ MoveBack(v) \/ Launch(v) => helper'[u] # "finish"
      BY DEF CopyData, BackUp, Swap, GiveUp, MoveBack, Launch
    <2>3. Reject(v) \/ SetAside(v) \/ Finish(v) \/ InstalledEnds(v) => helper'[u] # "finish"
      BY DEF Reject, SetAside, Finish, InstalledEnds, End
    <2>4. Accept(v) => u = v
      BY DEF Accept
    <2> QED
      BY <1>3, <2>1, <2>2, <2>3, <2>4 DEF Help
  <1>4. ASSUME NEW v \in Update, HelperKilled(v) PROVE Accept(u)
    BY <1>4 DEF HelperKilled, End
  <1> QED
    BY <1>1, <1>2, <1>3, <1>4 DEF Next

\* A report is forgotten only when its helper launches again.
LEMMA OnlyLaunchForgets ==
  ASSUME TypeOK, Next, NEW u \in ready, u \notin ready'
  PROVE  u \in Update /\ Launch(u)
  <1> USE DEF TypeOK
  <1>1. CASE Program
    BY <1>1 DEF Program, UserStart, Quit, SaveData, Crash, Stumble, Die, Start, StartZip
  <1>2. CASE Background
    BY <1>2 DEF Background, Exit, Die, Report, FetchFails, Spawn, HelperEnded, KillHelper, Handoff,
       ReadEnd, ReadStatus, Probe
  <1>3. ASSUME NEW v \in Update, Help(v) PROVE Launch(u)
    <2>1. Fail(v) \/ FailEnds(v) \/ Verify(v) \/ Prepare(v) \/ ParentGone(v) \/ ParentStays(v) => ready' = ready
      BY DEF Fail, FailEnds, Verify, Prepare, ParentGone, ParentStays
    <2>2. CopyData(v) \/ BackUp(v) \/ Swap(v) \/ GiveUp(v) \/ MoveBack(v) => ready' = ready
      BY DEF CopyData, BackUp, Swap, GiveUp, MoveBack
    <2>3. Accept(v) \/ Reject(v) \/ SetAside(v) \/ Finish(v) \/ InstalledEnds(v) => ready' = ready
      BY DEF Accept, Reject, SetAside, Finish, InstalledEnds
    <2>4. Launch(v) => u = v
      BY DEF Launch
    <2> QED
      BY <1>3, <2>1, <2>2, <2>3, <2>4 DEF Help
  <1>4. ASSUME NEW v \in Update, HelperKilled(v) PROVE FALSE
    BY <1>4 DEF HelperKilled
  <1> QED
    BY <1>1, <1>2, <1>3, <1>4 DEF Next

\* The report a helper accepted is there until the helper is done with it.
LEMMA NextAcceptedReported == IInv /\ AcceptedReported /\ [Next]_vars => AcceptedReported'
  <1> SUFFICES ASSUME IInv, AcceptedReported, Next, NEW u \in Update, helper'[u] = "finish"
               PROVE  u \in ready'
    BY DEF AcceptedReported, vars
  <1>1. CASE helper[u] # "finish"
    BY <1>1, OnlyAcceptFinishes DEF IInv, Accept
  <1>2. CASE helper[u] = "finish"
    <2>1. u \in ready
      BY <1>2 DEF AcceptedReported
    <2>2. ~Launch(u)
      BY <1>2 DEF Launch
    <2> QED
      BY <2>1, <2>2, OnlyLaunchForgets DEF IInv
  <1> QED
    BY <1>1, <1>2

\* A status file comes to say completed by the last step of a helper alone.
LEMMA OnlyFinishCompletes ==
  ASSUME TypeOK, Next, NEW u \in Update, NEW k \in Kind,
         status'[k] = [state |-> "completed", of |-> u], status'[k] # status[k]
  PROVE  Finish(u)
  <1> USE DEF TypeOK
  <1>1. CASE Program
    <2>1. UserStart \/ Quit \/ SaveData \/ Crash \/ Stumble => status' = status
      BY DEF UserStart, Quit, SaveData, Crash, Stumble, Die
    <2>2. ASSUME NEW v \in Update, Start(v) \/ StartZip(v)
          PROVE  status'[k] = status[k] \/ status'[k].state = "active"
      BY <2>2 DEF Start, StartZip
    <2> QED
      BY <1>1, <2>1, <2>2 DEF Program
  <1>2. CASE Background
    <2>1. Exit \/ Report \/ Spawn \/ Handoff \/ ReadEnd => status' = status
      BY DEF Exit, Die, Report, Spawn, Handoff, ReadEnd
    <2>2. FetchFails \/ HelperEnded \/ KillHelper => status'[k] = status[k] \/ status'[k].state = "failed"
      BY DEF FetchFails, HelperEnded, KillHelper
    <2>3. ASSUME NEW l \in Kind, ReadStatus(l) \/ Probe(l)
          PROVE  status'[k] = status[k] \/ status'[k].state = "failed"
      <3>1. status' = status \/ status' = [status EXCEPT ![l] = [@ EXCEPT !.state = "failed"]]
        BY <2>3 DEF ReadStatus, Probe
      <3>2. [status[l] EXCEPT !.state = "failed"].state = "failed"
        OBVIOUS
      <3> QED
        BY <3>1, <3>2
    <2> QED
      BY <1>2, <2>1, <2>2, <2>3 DEF Background
  <1>3. ASSUME NEW v \in Update, Help(v) PROVE Finish(u)
    <2>1. Fail(v) \/ Verify(v) \/ Prepare(v) => status'[k] = status[k] \/ status'[k].state \in {"active", "failed"}
      BY DEF Fail, Verify, Prepare
    <2>2. FailEnds(v) \/ ParentGone(v) \/ ParentStays(v) \/ CopyData(v) \/ BackUp(v) \/ Swap(v) => status' = status
      BY DEF FailEnds, ParentGone, ParentStays, CopyData, BackUp, Swap
    <2>3. GiveUp(v) \/ MoveBack(v) \/ Launch(v) \/ Accept(v) \/ Reject(v) \/ SetAside(v) \/ InstalledEnds(v) => status' = status
      BY DEF GiveUp, MoveBack, Launch, Accept, Reject, SetAside, InstalledEnds
    <2>4. Finish(v) => u = v
      BY DEF Finish
    <2> QED
      BY <1>3, <2>1, <2>2, <2>3, <2>4 DEF Help
  <1>4. ASSUME NEW v \in Update, HelperKilled(v) PROVE FALSE
    BY <1>4 DEF HelperKilled
  <1> QED
    BY <1>1, <1>2, <1>3, <1>4 DEF Next

\* Whatever is killed or probed at the same time, a status file says completed
\* only of a version that is in place, ran and reported for itself.
THEOREM CompletedIsEarned == Spec => CompletedRan
  <1>1. Init => AcceptedReported
    BY DEF Init, AcceptedReported
  <1>2. Spec => []AcceptedReported
    BY <1>1, NextAcceptedReported, UpdateInvariant, PTL DEF Spec
  <1>3. IInv /\ AcceptedReported /\ [Next]_vars =>
          [\A u \in Update, k \in Kind :
             status'[k] = [state |-> "completed", of |-> u] /\ status'[k] # status[k] =>
               Holds(target, u) /\ u \in ready]_vars
    <2> SUFFICES ASSUME IInv, AcceptedReported, Next, NEW u \in Update, NEW k \in Kind,
                        status'[k] = [state |-> "completed", of |-> u], status'[k] # status[k]
                 PROVE  Holds(target, u) /\ u \in ready
      OBVIOUS
    <2>1. helper[u] = "finish"
      BY OnlyFinishCompletes DEF IInv, Finish
    <2> QED
      BY <2>1 DEF AcceptedReported, IInv, OnDisk, DiskOfStep
  <1> QED
    BY <1>2, <1>3, UpdateInvariant, PTL DEF Spec, CompletedRan

-----------------------------------------------------------------------------
(* The exchange as one step.                                               *)

\* A helper that is launched by nobody waits, and one that waits is not at the exchange.
LEMMA NextHandsOn == IInv /\ HandsOn /\ [Next]_vars => HandsOn'
  <1> SUFFICES ASSUME IInv, HandsOn, [Next]_vars PROVE HandsOn'
    OBVIOUS
  <1> DEFINE Waits == {"none", "verify", "prepare", "wait", "failing", "failed", "gone"}
  <1> USE DEF IInv, TypeOK
  <1>1. starter' # None => app' # "down"
    <2>1. CASE Program
      BY <2>1 DEF HandsOn, Program, UserStart, Quit, SaveData, Crash, Stumble, Die, Start, StartZip
    <2>2. CASE Background
      BY <2>2 DEF HandsOn, Background, Exit, Die, Report, FetchFails, Spawn, HelperEnded, KillHelper,
         Handoff, ReadEnd, ReadStatus, Probe
    <2>3. ASSUME NEW u \in Update, Help(u) PROVE starter' # None => app' # "down"
      <3>1. CASE Launch(u) \/ Accept(u) \/ Reject(u)
        BY <3>1 DEF HandsOn, Launch, Accept, Reject
      <3>2. CASE Prepare(u)
        BY <3>2 DEF HandsOn, Prepare
      <3>3. CASE Fail(u) \/ FailEnds(u) \/ Verify(u) \/ ParentGone(u) \/ ParentStays(u) \/ CopyData(u)
        BY <3>3 DEF HandsOn, Fail, FailEnds, Verify, ParentGone, ParentStays, CopyData
      <3>4. CASE BackUp(u) \/ Swap(u) \/ GiveUp(u) \/ MoveBack(u) \/ SetAside(u) \/ Finish(u) \/ InstalledEnds(u)
        BY <3>4 DEF HandsOn, BackUp, Swap, GiveUp, MoveBack, SetAside, Finish, InstalledEnds
      <3> QED
        BY <2>3, <3>1, <3>2, <3>3, <3>4 DEF Help
    <2>4. ASSUME NEW u \in Update, HelperKilled(u) PROVE starter' # None => app' # "down"
      BY <2>4 DEF HandsOn, HelperKilled
    <2>5. CASE UNCHANGED vars
      BY <2>5 DEF HandsOn, vars
    <2> QED
      BY <2>1, <2>2, <2>3, <2>4, <2>5 DEF Next
  <1>2. \A u \in parent' : helper'[u] \in Waits
    <2> SUFFICES ASSUME NEW u \in parent' PROVE helper'[u] \in Waits
      OBVIOUS
    <2>0. u \in parent => helper[u] \in Waits
      BY DEF HandsOn
    <2>1. CASE Program
      BY <2>0, <2>1 DEF Program, UserStart, Quit, SaveData, Crash, Stumble, Die, Start, StartZip
    <2>2. CASE Background
      <3>1. CASE FetchFails \/ Spawn \/ KillHelper
        BY <2>0, <3>1 DEF FetchFails, Spawn, KillHelper
      <3>2. CASE Exit \/ Report \/ HelperEnded \/ Handoff \/ ReadEnd
        BY <2>0, <3>2 DEF Exit, Die, Report, HelperEnded, PrepareEnds, Handoff, ReadEnd
      <3>3. CASE \E k \in Kind : ReadStatus(k) \/ Probe(k)
        BY <2>0, <3>3 DEF ReadStatus, Probe
      <3> QED
        BY <2>2, <3>1, <3>2, <3>3 DEF Background
    <2>3. ASSUME NEW v \in Update, Help(v) PROVE helper'[u] \in Waits
      <3>1. CASE Fail(v) \/ FailEnds(v) \/ Verify(v) \/ Prepare(v) \/ ParentGone(v) \/ ParentStays(v)
        BY <2>0, <3>1 DEF Fail, FailEnds, End, Verify, Prepare, ParentGone, ParentStays
      <3>2. CASE CopyData(v) \/ BackUp(v) \/ Swap(v) \/ GiveUp(v) \/ MoveBack(v)
        BY <2>0, <3>2 DEF CopyData, BackUp, Swap, GiveUp, MoveBack
      <3>3. CASE Launch(v) \/ Accept(v) \/ Reject(v)
        BY <2>0, <3>3 DEF Launch, Accept, Reject
      <3>4. CASE SetAside(v) \/ Finish(v) \/ InstalledEnds(v)
        BY <2>0, <3>4 DEF SetAside, Finish, InstalledEnds, End
      <3> QED
        BY <2>3, <3>1, <3>2, <3>3, <3>4 DEF Help
    <2>4. ASSUME NEW v \in Update, HelperKilled(v) PROVE helper'[u] \in Waits
      BY <2>0, <2>4 DEF HelperKilled, End
    <2>5. CASE UNCHANGED vars
      BY <2>0, <2>5 DEF vars
    <2> QED
      BY <2>1, <2>2, <2>3, <2>4, <2>5 DEF Next
  <1>3. Patient /\ {"files", "kill"} \cap Faults = {} /\ target' = None =>
          \E u \in Update : helper'[u] \in Moving
    <2> SUFFICES ASSUME Patient, "files" \notin Faults, "kill" \notin Faults, target' = None
                 PROVE  \E u \in Update : helper'[u] \in Moving
      OBVIOUS
    <2>1. ASSUME target = None
          PROVE  \E u \in Update : helper[u] \in Moving /\ u \notin parent
      BY <2>1 DEF HandsOn, Moving
    <2>2. CASE Program
      <3>1. target = None
        BY <2>2 DEF Program, UserStart, Quit, SaveData, Crash, Stumble, Die, Start, StartZip
      <3>2. PICK u \in Update : helper[u] \in Moving
        BY <2>1, <3>1
      <3>3. helper'[u] = helper[u]
        BY <2>2, <3>2 DEF Moving, Program, UserStart, Quit, SaveData, Crash, Stumble, Die, Start, StartZip
      <3> QED
        BY <3>2, <3>3
    <2>3. CASE Background
      <3>1. target = None
        BY <2>3 DEF Background, Exit, Die, Report, FetchFails, Spawn, HelperEnded, KillHelper,
           Handoff, ReadEnd, ReadStatus, Probe
      <3>2. PICK u \in Update : helper[u] \in Moving /\ u \notin parent
        BY <2>1, <3>1
      <3>3. worker # None => worker.of # u
        BY <3>2 DEF LockIsHeld
      <3>4. FetchFails \/ Spawn \/ KillHelper => helper'[u] = helper[u]
        BY <3>3 DEF FetchFails, Spawn, KillHelper
      <3>5. Exit \/ Report \/ HelperEnded \/ Handoff \/ ReadEnd => helper' = helper
        BY DEF Exit, Die, Report, HelperEnded, Handoff, ReadEnd
      <3>6. (\E k \in Kind : ReadStatus(k) \/ Probe(k)) => helper' = helper
        BY DEF ReadStatus, Probe
      <3>7. helper'[u] = helper[u]
        BY <2>3, <3>4, <3>5, <3>6 DEF Background
      <3> QED
        BY <3>2, <3>7
    <2>4. ASSUME NEW v \in Update, Help(v) PROVE \E u \in Update : helper'[u] \in Moving
      <3>1. CASE BackUp(v) \/ SetAside(v)
        <4>1. helper[v] = "backup" => target # None
          BY DEF Undisturbed
        <4>2. helper'[v] \in Moving
          BY <3>1, <4>1 DEF BackUp, SetAside, Moving
        <4> QED
          BY <4>2
      <3>2. CASE Swap(v) \/ MoveBack(v) \/ GiveUp(v)
        BY <3>2 DEF Swap, MoveBack, GiveUp, OnDisk, DiskOfStep
      <3>3. CASE ~(BackUp(v) \/ SetAside(v) \/ Swap(v) \/ MoveBack(v) \/ GiveUp(v))
        <4>1. Fail(v) \/ FailEnds(v) \/ Verify(v) \/ Prepare(v) \/ ParentGone(v) \/ ParentStays(v) =>
                target' = target /\ \A u \in Update : helper[u] \in Moving => helper'[u] = helper[u]
          BY DEF Moving, Fail, FailEnds, End, Verify, Prepare, ParentGone, ParentStays
        <4>2. CopyData(v) \/ Launch(v) \/ Accept(v) \/ Reject(v) \/ Finish(v) \/ InstalledEnds(v) =>
                target' = target /\ \A u \in Update : helper[u] \in Moving => helper'[u] = helper[u]
          BY DEF Moving, CopyData, Launch, Accept, Reject, Finish, InstalledEnds, End
        <4> QED
          BY <2>1, <2>4, <3>3, <4>1, <4>2 DEF Help
      <3> QED
        BY <3>1, <3>2, <3>3
    <2>5. ASSUME NEW v \in Update, HelperKilled(v) PROVE FALSE
      BY <2>5 DEF HelperKilled
    <2>6. CASE UNCHANGED vars
      BY <2>1, <2>6 DEF vars
    <2> QED
      BY <2>2, <2>3, <2>4, <2>5, <2>6 DEF Next
  <1> QED
    BY <1>1, <1>2, <1>3 DEF HandsOn

\* What the only helper at some steps moved aside is the one that CHOOSE finds.
LEMMA TheOnlyOne ==
  ASSUME NEW h, NEW b, NEW steps, NEW u \in Update, h[u] \in steps,
         \A v \in Update : h[v] \in steps => v = u
  PROVE  b[CHOOSE v \in Update : h[v] \in steps] = b[u]
  OBVIOUS

\* What is installed and what comes back, read off the helper at work.
LEMMA Values ==
  ASSUME OneInstaller
  PROVE  /\ \A u \in Update : helper[u] \in Moving => MovedAside(Moving) = backup[u]
         /\ \A u \in Update : helper[u] \in Trial => Fallback = backup[u]
         /\ (\A u \in Update : helper[u] \notin Trial) => Fallback = None
  <1>1. ASSUME NEW u \in Update, helper[u] \in Moving PROVE MovedAside(Moving) = backup[u]
    BY <1>1, TheOnlyOne DEF OneInstaller, Moving, MovedAside
  <1>2. ASSUME NEW u \in Update, helper[u] \in Trial PROVE Fallback = backup[u]
    BY <1>2, TheOnlyOne DEF OneInstaller, Trial, MovedAside, Fallback
  <1> QED
    BY <1>1, <1>2 DEF Fallback

\* The same of the state after a step.
LEMMA ValuesAfter ==
  ASSUME OneInstaller'
  PROVE  /\ \A u \in Update : helper'[u] \in Moving => MovedAside(Moving)' = backup'[u]
         /\ \A u \in Update : helper'[u] \in Trial => Fallback' = backup'[u]
         /\ (\A u \in Update : helper'[u] \notin Trial) => Fallback' = None
  <1>1. ASSUME NEW u \in Update, helper'[u] \in Moving PROVE MovedAside(Moving)' = backup'[u]
    BY <1>1, TheOnlyOne DEF OneInstaller, Moving, MovedAside
  <1>2. ASSUME NEW u \in Update, helper'[u] \in Trial PROVE Fallback' = backup'[u]
    BY <1>2, TheOnlyOne DEF OneInstaller, Trial, MovedAside, Fallback
  <1> QED
    BY <1>1, <1>2 DEF Fallback

\* A step that moves no directory and takes no helper into or out of the exchange
\* changes nothing that a launch would find, nor what would come back.
LEMMA NothingMoves ==
  ASSUME OneInstaller, OneInstaller', HandsOn,
         Patient, "files" \notin Faults, "kill" \notin Faults,
         UNCHANGED <<target, backup>>,
         \A u \in Update : /\ helper'[u] \in Moving <=> helper[u] \in Moving
                           /\ helper'[u] \in Trial <=> helper[u] \in Trial
  PROVE  Current' = Current /\ Fallback' = Fallback
  <1>1. CASE target # None
    <2>1. Current' = Current
      BY <1>1 DEF Current
    <2>2. Fallback' = Fallback
      <3>1. CASE \E u \in Update : helper[u] \in Trial
        BY <3>1, Values, ValuesAfter
      <3>2. CASE ~\E u \in Update : helper[u] \in Trial
        BY <3>2, Values, ValuesAfter
      <3> QED
        BY <3>1, <3>2
    <2> QED
      BY <2>1, <2>2
  <1>2. CASE target = None
    <2>1. PICK u \in Update : helper[u] \in Moving
      BY <1>2 DEF HandsOn
    <2>2. Current' = Current
      BY <1>2, <2>1, Values, ValuesAfter DEF Current
    <2>3. \A v \in Update : helper[v] \notin Trial /\ helper'[v] \notin Trial
      BY <2>1 DEF OneInstaller, Moving, Trial
    <2> QED
      BY <2>2, <2>3, Values, ValuesAfter
  <1> QED
    BY <1>1, <1>2

\* Each step of a helper in the exchange is a stutter, an exchange, a confirmation or
\* a return.
LEMMA HelpInstalls ==
  ASSUME Patient, "files" \notin Faults, "kill" \notin Faults,
         IInv, HandsOn, OneInstaller, OneInstaller', NEW u \in Update, Help(u)
  PROVE  [Installed!Next]_(Installed!vars)
  <1> TypeOK /\ LockIsHeld /\ OnDisk /\ VersionsAreNew /\ Undisturbed
    BY DEF IInv
  <1> DEFINE Goal == [Installed!Next]_(Installed!vars)
  <1>0. ASSUME Current' = Current, Fallback' = Fallback, (app' # "down") <=> (app # "down")
        PROVE  Goal
    BY <1>0 DEF Installed!vars
  <1>1. CASE Fail(u) \/ FailEnds(u) \/ Verify(u) \/ Prepare(u) \/ ParentGone(u) \/ ParentStays(u)
    <2>1. UNCHANGED <<target, backup>> /\ ((app' # "down") <=> (app # "down"))
      BY <1>1 DEF Fail, FailEnds, Verify, Prepare, ParentGone, ParentStays
    <2>2. \A v \in Update : /\ helper'[v] \in Moving <=> helper[v] \in Moving
                            /\ helper'[v] \in Trial <=> helper[v] \in Trial
      BY <1>1 DEF TypeOK, Moving, Trial, Fail, FailEnds, End, Verify, Prepare, ParentGone, ParentStays
    <2> QED
      BY <1>0, <2>1, <2>2, NothingMoves
  <1>2. CASE CopyData(u) \/ Finish(u) \/ InstalledEnds(u)
    <2>1. UNCHANGED <<target, backup, app>>
      BY <1>2 DEF CopyData, Finish, InstalledEnds
    <2>2. \A v \in Update : /\ helper'[v] \in Moving <=> helper[v] \in Moving
                            /\ helper'[v] \in Trial <=> helper[v] \in Trial
      BY <1>2 DEF TypeOK, Moving, Trial, CopyData, Finish, InstalledEnds, End
    <2> QED
      BY <1>0, <2>1, <2>2, NothingMoves
  <1>3. CASE BackUp(u)
    <2>1. helper[u] = "backup" /\ target # None
      BY <1>3 DEF BackUp, Undisturbed
    <2>2. /\ helper' = [helper EXCEPT ![u] = "swap"] /\ app' = app
          /\ backup' = [backup EXCEPT ![u] = target] /\ target' = None
      BY <1>3, <2>1 DEF BackUp
    <2>3. helper'[u] = "swap" /\ backup'[u] = target
      BY <2>2 DEF TypeOK
    <2>4. Current' = Current
      BY <2>1, <2>2, <2>3, ValuesAfter DEF Current, Moving
    <2>5. \A v \in Update : helper[v] \notin Trial /\ helper'[v] \notin Trial
      BY <2>1, <2>3 DEF OneInstaller, Trial
    <2> QED
      BY <1>0, <2>2, <2>4, <2>5, Values, ValuesAfter
  <1>4. CASE Swap(u)
    <2>1. /\ helper[u] = "swap" /\ helper' = [helper EXCEPT ![u] = "launch"] /\ app' = app
          /\ target' = payload[u] /\ backup' = backup
      BY <1>4 DEF Swap
    <2>2. /\ target = None /\ backup[u] # None /\ app = "down"
          /\ Holds(payload[u], u) /\ ~Holds(backup[u], u) /\ payload[u].data = backup[u].data
      BY <2>1 DEF OnDisk, DiskOfStep, VersionsAreNew, Undisturbed
    <2>3. helper'[u] = "launch"
      BY <2>1 DEF TypeOK
    <2>4. Current = backup[u]
      BY <2>1, <2>2, Values DEF Current, Moving
    <2>5. Fallback' = Current
      BY <2>1, <2>3, <2>4, ValuesAfter DEF Trial
    <2>6. \A v \in Update : helper[v] \notin Trial
      BY <2>1 DEF OneInstaller, Trial
    <2>7. Fallback = None
      BY <2>6, Values
    <2>8. Current' = [Current EXCEPT !.ver = u]
      <3>1. payload[u] \in [ver : Version, data : 0 .. MaxData] /\ backup[u] \in [ver : Version, data : 0 .. MaxData]
        BY <2>2 DEF TypeOK
      <3>2. Current' = payload[u]
        BY <2>1, <2>2 DEF Current
      <3>3. payload[u] = [backup[u] EXCEPT !.ver = u]
        BY <2>2, <3>1
      <3> QED
        BY <2>4, <3>2, <3>3
    <2>9. Installed!Exchange(u)
      BY <2>1, <2>2, <2>4, <2>5, <2>7, <2>8 DEF Installed!Exchange
    <2> QED
      BY <2>9 DEF Installed!Next
  <1>5. CASE GiveUp(u)
    BY <1>5 DEF GiveUp
  <1>6. CASE MoveBack(u)
    <2>1. /\ helper[u] \in {"undo", "restore"} /\ helper' = [helper EXCEPT ![u] = "relaunch"]
          /\ app' = app /\ target' = backup[u]
      BY <1>6 DEF MoveBack
    <2>2. target = None /\ backup[u] # None /\ helper'[u] = "relaunch"
      BY <2>1 DEF OnDisk, DiskOfStep, TypeOK
    <2>3. Current' = Current
      BY <2>1, <2>2, Values DEF Current, Moving
    <2>4. \A v \in Update : helper[v] \notin Trial /\ helper'[v] \notin Trial
      BY <2>1, <2>2 DEF OneInstaller, Trial
    <2> QED
      BY <1>0, <2>1, <2>3, <2>4, Values, ValuesAfter
  <1>7. CASE Launch(u)
    <2>1. UNCHANGED <<target, backup>>
      BY <1>7 DEF Launch
    <2>2. \A v \in Update : /\ helper'[v] \in Moving <=> helper[v] \in Moving
                            /\ helper'[v] \in Trial <=> helper[v] \in Trial
      BY <1>7 DEF TypeOK, Moving, Trial, Launch
    <2>3. Current' = Current /\ Fallback' = Fallback
      BY <2>1, <2>2, NothingMoves
    <2>4. app' = app \/ (app = "down" /\ app' = "starting")
      BY <1>7 DEF Launch
    <2>5. CASE app' = app
      BY <1>0, <2>3, <2>5
    <2>6. CASE app = "down" /\ app' = "starting"
      BY <2>3, <2>6 DEF Installed!Next, Installed!Run
    <2> QED
      BY <2>4, <2>5, <2>6
  <1>8. CASE Accept(u)
    <2>1. starter = u /\ app' = app /\ app # "down" /\ UNCHANGED <<target, backup>>
      BY <1>8 DEF Accept, HandsOn
    <2>2. CASE helper[u] = "watch"
      <3>1. helper' = [helper EXCEPT ![u] = "finish"] /\ helper'[u] = "finish"
        BY <1>8, <2>2 DEF Accept, TypeOK
      <3>2. target # None /\ backup[u] # None
        BY <2>2 DEF OnDisk, DiskOfStep
      <3>3. Current' = Current
        BY <2>1, <3>2 DEF Current
      <3>4. Fallback # None
        BY <2>2, <3>2, Values DEF Trial
      <3>5. \A v \in Update : helper'[v] \notin Trial
        BY <3>1 DEF OneInstaller, Trial
      <3>6. Fallback' = None
        BY <3>5, ValuesAfter
      <3> QED
        BY <2>1, <3>3, <3>4, <3>6 DEF Installed!Next, Installed!Confirm
    <2>3. CASE helper[u] = "rewatch"
      <3>1. helper' = [helper EXCEPT ![u] = "failing"]
        BY <1>8, <2>3 DEF Accept
      <3>2. \A v \in Update : /\ helper'[v] \in Moving <=> helper[v] \in Moving
                              /\ helper'[v] \in Trial <=> helper[v] \in Trial
        BY <2>3, <3>1 DEF TypeOK, Moving, Trial
      <3> QED
        BY <1>0, <2>1, <3>2, NothingMoves
    <2> QED
      BY <1>8, <2>2, <2>3 DEF Accept
  <1>9. CASE Reject(u)
    <2>1. UNCHANGED <<target, backup>>
      BY <1>9 DEF Reject
    <2>2. \A v \in Update : /\ helper'[v] \in Moving <=> helper[v] \in Moving
                            /\ helper'[v] \in Trial <=> helper[v] \in Trial
      BY <1>9 DEF TypeOK, Moving, Trial, Reject
    <2>3. Current' = Current /\ Fallback' = Fallback
      BY <2>1, <2>2, NothingMoves
    <2>4. app' = app \/ app' = "down"
      BY <1>9 DEF Reject
    <2>5. CASE (app' # "down") <=> (app # "down")
      BY <1>0, <2>3, <2>5
    <2>6. CASE app # "down" /\ app' = "down"
      BY <2>3, <2>6 DEF Installed!Next, Installed!End
    <2> QED
      BY <2>4, <2>5, <2>6
  <1>10. CASE SetAside(u)
    <2>1. /\ helper[u] = "setaside" /\ helper' = [helper EXCEPT ![u] = "restore"] /\ app' = app
          /\ target' = None /\ backup' = backup
      BY <1>10 DEF SetAside
    <2>2. app = "down" /\ target # None /\ backup[u] # None /\ helper'[u] = "restore"
      BY <2>1 DEF OnDisk, DiskOfStep, Undisturbed, TypeOK
    <2>3. Fallback = backup[u]
      BY <2>1, Values DEF Trial
    <2>4. Current' = backup[u]
      BY <2>1, <2>2, ValuesAfter DEF Current, Moving
    <2>5. \A v \in Update : helper'[v] \notin Trial
      BY <2>2 DEF OneInstaller, Trial
    <2>6. Fallback' = None
      BY <2>5, ValuesAfter
    <2> QED
      BY <2>1, <2>2, <2>3, <2>4, <2>6 DEF Installed!Next, Installed!GoBack
  <1> HIDE DEF Goal
  <1>11. Goal
    BY <1>1, <1>2, <1>3, <1>4, <1>5, <1>6, <1>7, <1>8, <1>9, <1>10 DEF Help, Goal
  <1> QED
    BY <1>11 DEF Goal

\* The program and its goroutines start, end and save data, and move no directory.
LEMMA NextInstalls ==
  ASSUME Patient, "files" \notin Faults, "kill" \notin Faults, IInv, IInv', HandsOn, [Next]_vars
  PROVE  [Installed!Next]_(Installed!vars)
  <1> TypeOK /\ LockIsHeld
    BY DEF IInv
  <1> DEFINE Goal == [Installed!Next]_(Installed!vars)
  <1>1. OneInstaller /\ OneInstaller'
    BY DEF IInv, LockIsHeld, OneInstaller
  <1>2. ASSUME UNCHANGED <<target, backup>>,
               \A v \in Update : /\ helper'[v] \in Moving <=> helper[v] \in Moving
                                 /\ helper'[v] \in Trial <=> helper[v] \in Trial
        PROVE  Goal
    <2>1. Current' = Current /\ Fallback' = Fallback
      BY <1>1, <1>2, NothingMoves
    <2>2. CASE (app' # "down") <=> (app # "down")
      BY <2>1, <2>2 DEF Installed!vars
    <2>3. CASE app # "down" /\ app' = "down"
      BY <2>1, <2>3 DEF Installed!Next, Installed!End
    <2>4. CASE app = "down" /\ app' # "down"
      BY <2>1, <2>4 DEF Installed!Next, Installed!Run
    <2> QED
      BY <2>2, <2>3, <2>4
  <1>3. CASE UserStart \/ Quit \/ Crash \/ Stumble
    <2>1. UNCHANGED <<target, backup, helper>>
      BY <1>3 DEF UserStart, Quit, Crash, Stumble, Die
    <2> QED
      BY <1>2, <2>1
  <1>4. CASE SaveData
    <2>1. /\ app = "up" /\ app' = app /\ target # None
          /\ target' = [target EXCEPT !.data = @ + 1] /\ UNCHANGED <<backup, helper>>
      BY <1>4 DEF SaveData
    <2>2. target' # None
      <3>1. target' \in [ver : Version, data : 0 .. MaxData]
        BY <1>4, <2>1 DEF SaveData, TypeOK
      <3> QED
        BY <3>1
    <2>3. Fallback' = Fallback
      BY <2>1 DEF Fallback, MovedAside
    <2>4. Current = target /\ Current' = target'
      BY <2>1, <2>2 DEF Current
    <2> QED
      BY <2>1, <2>3, <2>4 DEF Installed!Next, Installed!Save
  <1>5. ASSUME NEW u \in Update, Start(u) \/ StartZip(u) PROVE Goal
    <2>1. UNCHANGED <<target, backup>>
      BY <1>5 DEF Start, StartZip
    <2>2. \A v \in Update : /\ helper'[v] \in Moving <=> helper[v] \in Moving
                            /\ helper'[v] \in Trial <=> helper[v] \in Trial
      BY <1>5 DEF TypeOK, Moving, Trial, Start, StartZip
    <2> QED
      BY <1>2, <2>1, <2>2
  <1>6. CASE Background
    <2>1. UNCHANGED <<target, backup>>
      BY <1>6 DEF Background, Exit, Die, Report, FetchFails, Spawn, HelperEnded, KillHelper, Handoff,
         ReadEnd, ReadStatus, Probe
    <2>2. CASE FetchFails \/ Spawn \/ KillHelper
      <3>1. PICK next \in {"verify", "gone"} : helper' = [helper EXCEPT ![worker.of] = next]
        BY <2>2 DEF FetchFails, Spawn, KillHelper
      <3>2. worker # None /\ worker.of \in parent
        BY <2>2 DEF LockIsHeld, FetchFails, Spawn, KillHelper
      <3>3. helper[worker.of] \notin Moving \cup Trial
        BY <3>2 DEF HandsOn, Moving, Trial
      <3>4. \A v \in Update : /\ helper'[v] \in Moving <=> helper[v] \in Moving
                              /\ helper'[v] \in Trial <=> helper[v] \in Trial
        BY <3>1, <3>3 DEF TypeOK, Moving, Trial
      <3> QED
        BY <1>2, <2>1, <3>4
    <2>3. CASE Exit \/ Report \/ HelperEnded \/ Handoff \/ ReadEnd
      <3>1. helper' = helper
        BY <2>3 DEF Exit, Die, Report, HelperEnded, Handoff, ReadEnd
      <3> QED
        BY <1>2, <2>1, <3>1
    <2>4. CASE \E k \in Kind : ReadStatus(k) \/ Probe(k)
      <3>1. helper' = helper
        BY <2>4 DEF ReadStatus, Probe
      <3> QED
        BY <1>2, <2>1, <3>1
    <2> QED
      BY <1>6, <2>2, <2>3, <2>4 DEF Background
  <1>7. ASSUME NEW u \in Update, Help(u) PROVE Goal
    BY <1>1, <1>7, HelpInstalls
  <1>8. ASSUME NEW u \in Update, HelperKilled(u) PROVE FALSE
    BY <1>8 DEF HelperKilled
  <1>9. CASE UNCHANGED vars
    BY <1>2, <1>9 DEF vars
  <1> HIDE DEF Goal
  <1>10. Goal
    BY <1>3, <1>4, <1>5, <1>6, <1>7, <1>8, <1>9 DEF Next, Program, Goal
  <1> QED
    BY <1>10 DEF Goal

\* Where files can be moved, no helper is killed and nobody launches the program by
\* hand: with helper, handoff, renames, deadlines, crashes of the program and
\* versions that do not start, an update is the one exchange of Installation.
THEOREM UpdateIsOneExchange ==
  ASSUME Patient, "files" \notin Faults, "kill" \notin Faults
  PROVE  Spec => ImplementsInstallation
  <1>1. Init => HandsOn /\ Installed!Init
    <2> SUFFICES ASSUME Init PROVE HandsOn /\ Installed!Init
      OBVIOUS
    <2>1. target # None /\ \A u \in Update : helper[u] \notin Trial
      BY DEF Init, Trial
    <2> QED
      BY <2>1 DEF Init, HandsOn, Installed!Init, Current, Fallback
  <1>2. IInv /\ HandsOn /\ [Next]_vars => HandsOn'
    BY NextHandsOn
  <1>3. IInv /\ IInv' /\ HandsOn /\ [Next]_vars => [Installed!Next]_(Installed!vars)
    BY NextInstalls
  <1> QED
    BY <1>1, <1>2, <1>3, UpdateInvariant, PTL DEF Spec, ImplementsInstallation, Installed!Spec
=============================================================================
