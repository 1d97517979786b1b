----------------------- MODULE DownloadManagerProofs -----------------------
(* Safety of DownloadManager for every set of jobs, destinations and slots: *)
(* an inductive invariant and the theorems that follow from it.             *)
EXTENDS DownloadManager, FiniteSetTheorems, TLAPS

USE JobsHaveTargets
USE DEF State, Starting, Working, Step, Mode, Content, Whole, Past, Go, Step1, diskVars

-----------------------------------------------------------------------------
(* The occupied slots.                                                     *)

\* The jobs past TakeSlot are finitely many, so that counting them makes sense.
LEMMA BusyIsFinite == IsFiniteSet(Busy) /\ Cardinality(Busy) \in Nat
  <1>1. Busy \in SUBSET Job
    BY DEF Busy
  <1>2. IsFiniteSet(Busy)
    BY <1>1, FS_Subset
  <1> QED
    BY <1>2, FS_CardinalityType

\* A step that neither takes nor leaves a slot keeps the count.
LEMMA SlotsKept ==
  ASSUME SlotsHeld, Busy' = Busy, slots' = slots PROVE SlotsHeld'
  BY DEF SlotsHeld

\* A job that takes a slot is counted from then on.
LEMMA SlotTaken ==
  ASSUME SlotsHeld, NEW j \in Job, j \notin Busy, Busy' = Busy \cup {j}, slots' = slots + 1
  PROVE  SlotsHeld'
  <1>1. Cardinality(Busy \cup {j}) = Cardinality(Busy) + 1
    BY BusyIsFinite, FS_AddElement
  <1> QED
    BY <1>1 DEF SlotsHeld

\* A job that leaves its slot held one: the count never goes below zero.
LEMMA SlotLeft ==
  ASSUME SlotsHeld, NEW j \in Job, j \in Busy, Busy' = Busy \ {j}, slots' = slots - 1
  PROVE  SlotsHeld' /\ slots' \in Nat /\ slots' <= slots
  <1>1. Cardinality(Busy \ {j}) = Cardinality(Busy) - 1 /\ Cardinality(Busy \ {j}) \in Nat
    BY BusyIsFinite, FS_RemoveElement, FS_CardinalityType
  <1> QED
    BY <1>1, BusyIsFinite DEF SlotsHeld

-----------------------------------------------------------------------------
(* Every step keeps the invariant.                                         *)

\* The program starts without jobs, claims and occupied slots.
LEMMA InitIInv == Init => IInv
  <1> SUFFICES ASSUME Init PROVE IInv
    OBVIOUS
  <1>1. TypeOK
    BY DEF Init, TypeOK
  <1>2. Busy = {}
    BY DEF Init, Busy
  <1>3. SlotsHeld
    BY <1>2, FS_EmptySet DEF Init, SlotsHeld
  <1>4. ClaimHeld /\ WholeParts /\ PlaceFilled /\ OverwriteChecked /\ PlaceEmpty
    BY DEF Init, ClaimHeld, Active, WholeParts, PlaceFilled, OverwriteChecked, PlaceEmpty
  <1>5. BackupsHeld /\ WholeFiles /\ ModelSurvives
    BY DEF Init, BackupsHeld, WholeFiles, ModelSurvives
  <1>6. HandlersGone
    BY DEF Init, HandlersGone, StoppedIsQuiet
  <1>7. NotYet
    BY DEF Init, NotYet
  <1> QED
    BY <1>1, <1>3, <1>4, <1>5, <1>6, <1>7 DEF IInv

\* A request that looks, is refused or spawns its goroutine.
LEMMA RequestIInv ==
  ASSUME IInv, NEW j \in Job, Check(j) \/ RegisterRefused(j) \/ Spawn(j)
  PROVE  IInv'
  <1> USE DEF IInv, TypeOK, Check, RegisterRefused, Spawn
  <1>1. Busy' = Busy
    BY DEF Busy
  <1>2. SlotsHeld'
    BY <1>1, SlotsKept
  <1>3. TypeOK'
    OBVIOUS
  <1>4. ClaimHeld'
    BY DEF ClaimHeld, Active
  <1>5. WholeParts' /\ BackupsHeld' /\ OverwriteChecked'
    BY DEF WholeParts, BackupsHeld, WholeFiles, OverwriteChecked, MayReplace
  <1>6. PlaceFilled' /\ PlaceEmpty'
    BY DEF PlaceFilled, PlaceEmpty, WholeParts, ClaimHeld, Active
  <1>7. WholeFiles' /\ ModelSurvives'
    BY DEF WholeFiles, ModelSurvives, WholeParts, BackupsHeld, PlaceFilled
  <1>8. HandlersGone'
    BY DEF HandlersGone, StoppedIsQuiet, Waited
  <1>9. NotYet'
    BY DEF NotYet, WholeParts
  <1> QED
    BY <1>2, <1>3, <1>4, <1>5, <1>6, <1>7, <1>8, <1>9

\* A registration takes a destination that no active job holds.
LEMMA RegisterIInv ==
  ASSUME IInv, NEW j \in Job, Register(j)
  PROVE  IInv'
  <1> USE DEF IInv, TypeOK, Register, Pruned, Finished, Listed
  <1>1. Busy' = Busy
    BY DEF Busy
  <1>2. SlotsHeld'
    BY <1>1, SlotsKept
  <1>3. TypeOK'
    OBVIOUS
  <1>4. ClaimHeld'
    BY DEF ClaimHeld, Active
  <1>5. WholeParts' /\ BackupsHeld' /\ OverwriteChecked'
    BY DEF WholeParts, BackupsHeld, WholeFiles, OverwriteChecked, MayReplace
  <1>6. PlaceFilled' /\ PlaceEmpty'
    BY DEF PlaceFilled, PlaceEmpty, WholeParts, ClaimHeld, Active
  <1>7. WholeFiles' /\ ModelSurvives'
    BY DEF WholeFiles, ModelSurvives, WholeParts, BackupsHeld, PlaceFilled
  <1>8. HandlersGone'
    BY DEF HandlersGone, StoppedIsQuiet, Waited
  <1>9. NotYet'
    BY DEF NotYet, WholeParts
  <1> QED
    BY <1>2, <1>3, <1>4, <1>5, <1>6, <1>7, <1>8, <1>9

\* Cancelling touches the listed state and the context only.
LEMMA CancelIInv ==
  ASSUME IInv, NEW j \in Job, Cancel(j) \/ CancelContext(j)
  PROVE  IInv'
  <1> USE DEF IInv, TypeOK, Cancel, CancelContext
  <1>1. Busy' = Busy
    BY DEF Busy
  <1>2. SlotsHeld'
    BY <1>1, SlotsKept
  <1>3. TypeOK'
    OBVIOUS
  <1>4. ClaimHeld'
    BY DEF ClaimHeld, Active
  <1>5. WholeParts' /\ BackupsHeld' /\ OverwriteChecked'
    BY DEF WholeParts, BackupsHeld, WholeFiles, OverwriteChecked, MayReplace
  <1>6. PlaceFilled' /\ PlaceEmpty'
    BY DEF PlaceFilled, PlaceEmpty, WholeParts, ClaimHeld, Active
  <1>7. WholeFiles' /\ ModelSurvives'
    BY DEF WholeFiles, ModelSurvives, WholeParts, BackupsHeld, PlaceFilled
  <1>8. HandlersGone'
    BY DEF HandlersGone, StoppedIsQuiet, Waited
  <1>9. NotYet'
    BY DEF NotYet, WholeParts
  <1> QED
    BY <1>2, <1>3, <1>4, <1>5, <1>6, <1>7, <1>8, <1>9

\* The job waits no longer and is counted.
LEMMA TakeSlotIInv ==
  ASSUME IInv, NEW j \in Job, TakeSlot(j)
  PROVE  IInv'
  <1> USE DEF IInv, TypeOK, TakeSlot
  <1>1. j \notin Busy /\ Busy' = Busy \cup {j}
    BY DEF Busy
  <1>2. SlotsHeld'
    BY <1>1, SlotTaken
  <1>3. TypeOK'
    OBVIOUS
  <1>4. ClaimHeld'
    BY DEF ClaimHeld, Active
  <1>5. WholeParts' /\ BackupsHeld' /\ OverwriteChecked'
    BY DEF WholeParts, BackupsHeld, WholeFiles, OverwriteChecked, MayReplace
  <1>6. PlaceFilled' /\ PlaceEmpty'
    BY DEF PlaceFilled, PlaceEmpty, WholeParts, ClaimHeld, Active
  <1>7. WholeFiles' /\ ModelSurvives'
    BY DEF WholeFiles, ModelSurvives, WholeParts, BackupsHeld, PlaceFilled
  <1>8. HandlersGone'
    BY DEF HandlersGone, StoppedIsQuiet, Waited
  <1>9. NotYet'
    BY DEF NotYet, WholeParts
  <1> QED
    BY <1>2, <1>3, <1>4, <1>5, <1>6, <1>7, <1>8, <1>9

\* A job that never had a slot returns its claim.
LEMMA CancelWaitingIInv ==
  ASSUME IInv, NEW j \in Job, CancelWaiting(j)
  PROVE  IInv'
  <1> USE DEF IInv, TypeOK, CancelWaiting, Forget, Free
  <1>1. Busy' = Busy
    BY DEF Busy
  <1>2. SlotsHeld'
    BY <1>1, SlotsKept
  <1>3. TypeOK'
    OBVIOUS
  <1>4. ClaimHeld'
    BY DEF ClaimHeld, Active
  <1>5. WholeParts' /\ BackupsHeld' /\ OverwriteChecked'
    BY DEF WholeParts, BackupsHeld, WholeFiles, OverwriteChecked, MayReplace
  <1>6. PlaceFilled' /\ PlaceEmpty'
    BY DEF PlaceFilled, PlaceEmpty, WholeParts, ClaimHeld, Active
  <1>7. WholeFiles' /\ ModelSurvives'
    BY DEF WholeFiles, ModelSurvives, WholeParts, BackupsHeld, PlaceFilled
  <1>8. HandlersGone'
    BY DEF HandlersGone, StoppedIsQuiet, Waited
  <1>9. NotYet'
    BY DEF NotYet, WholeParts
  <1> QED
    BY <1>2, <1>3, <1>4, <1>5, <1>6, <1>7, <1>8, <1>9

\* The job reports its download and opens its part file.
LEMMA DownloadingIInv ==
  ASSUME IInv, NEW j \in Job, Downloading(j) \/ OpenPart(j)
  PROVE  IInv'
  <1> USE DEF IInv, TypeOK, Downloading, OpenPart
  <1>1. Busy' = Busy
    BY DEF Busy
  <1>2. SlotsHeld'
    BY <1>1, SlotsKept
  <1>3. TypeOK'
    OBVIOUS
  <1>4. ClaimHeld'
    BY DEF ClaimHeld, Active
  <1>5. WholeParts' /\ BackupsHeld' /\ OverwriteChecked'
    BY DEF WholeParts, BackupsHeld, WholeFiles, OverwriteChecked, MayReplace
  <1>6. PlaceFilled' /\ PlaceEmpty'
    BY DEF PlaceFilled, PlaceEmpty, WholeParts, ClaimHeld, Active
  <1>7. WholeFiles' /\ ModelSurvives'
    BY DEF WholeFiles, ModelSurvives, WholeParts, BackupsHeld, PlaceFilled
  <1>8. HandlersGone'
    BY DEF HandlersGone, StoppedIsQuiet, Waited
  <1>9. NotYet'
    BY DEF NotYet, WholeParts
  <1> QED
    BY <1>2, <1>3, <1>4, <1>5, <1>6, <1>7, <1>8, <1>9

\* A failed step keeps the claim and leaves.
LEMMA FailIInv ==
  ASSUME IInv, NEW j \in Job, OpenFails(j) \/ FileStepFails(j)
  PROVE  IInv'
  <1> USE DEF IInv, TypeOK, OpenFails, FileStepFails, Fail
  <1>1. Busy' = Busy
    BY DEF Busy
  <1>2. SlotsHeld'
    BY <1>1, SlotsKept
  <1>3. TypeOK'
    OBVIOUS
  <1>4. ClaimHeld'
    BY DEF ClaimHeld, Active
  <1>5. WholeParts' /\ BackupsHeld' /\ OverwriteChecked'
    BY DEF WholeParts, BackupsHeld, WholeFiles, OverwriteChecked, MayReplace
  <1>6. PlaceFilled' /\ PlaceEmpty'
    BY DEF PlaceFilled, PlaceEmpty, WholeParts, ClaimHeld, Active
  <1>7. WholeFiles' /\ ModelSurvives'
    BY DEF WholeFiles, ModelSurvives, WholeParts, BackupsHeld, PlaceFilled
  <1>8. HandlersGone'
    BY DEF HandlersGone, StoppedIsQuiet, Waited
  <1>9. NotYet'
    BY DEF NotYet, WholeParts
  <1> QED
    BY <1>2, <1>3, <1>4, <1>5, <1>6, <1>7, <1>8, <1>9

\* A finished transfer fills the part file.
LEMMA ReceiveIInv ==
  ASSUME IInv, NEW j \in Job, Receive(j)
  PROVE  IInv'
  <1> USE DEF IInv, TypeOK, Receive
  <1>1. Busy' = Busy
    BY DEF Busy
  <1>2. SlotsHeld'
    BY <1>1, SlotsKept
  <1>3. TypeOK'
    OBVIOUS
  <1>4. ClaimHeld'
    BY DEF ClaimHeld, Active
  <1>5. WholeParts' /\ BackupsHeld' /\ OverwriteChecked'
    BY DEF WholeParts, BackupsHeld, WholeFiles, OverwriteChecked, MayReplace
  <1>6. PlaceFilled' /\ PlaceEmpty'
    BY DEF PlaceFilled, PlaceEmpty, WholeParts, ClaimHeld, Active
  <1>7. WholeFiles' /\ ModelSurvives'
    BY DEF WholeFiles, ModelSurvives, WholeParts, BackupsHeld, PlaceFilled
  <1>8. HandlersGone'
    BY DEF HandlersGone, StoppedIsQuiet, Waited
  <1>9. NotYet'
    BY DEF NotYet, WholeParts
  <1> QED
    BY <1>2, <1>3, <1>4, <1>5, <1>6, <1>7, <1>8, <1>9

\* A broken or cancelled transfer leaves.
LEMMA AbortIInv ==
  ASSUME IInv, NEW j \in Job, Break(j) \/ Abort(j)
  PROVE  IInv'
  <1> USE DEF IInv, TypeOK, Break, Abort, Fail, Forget, Free
  <1>1. Busy' = Busy
    BY DEF Busy
  <1>2. SlotsHeld'
    BY <1>1, SlotsKept
  <1>3. TypeOK'
    OBVIOUS
  <1>4. ClaimHeld'
    BY DEF ClaimHeld, Active
  <1>5. WholeParts' /\ BackupsHeld' /\ OverwriteChecked'
    BY DEF WholeParts, BackupsHeld, WholeFiles, OverwriteChecked, MayReplace
  <1>6. PlaceFilled' /\ PlaceEmpty'
    BY DEF PlaceFilled, PlaceEmpty, WholeParts, ClaimHeld, Active
  <1>7. WholeFiles' /\ ModelSurvives'
    BY DEF WholeFiles, ModelSurvives, WholeParts, BackupsHeld, PlaceFilled
  <1>8. HandlersGone'
    BY DEF HandlersGone, StoppedIsQuiet, Waited
  <1>9. NotYet'
    BY DEF NotYet, WholeParts
  <1> QED
    BY <1>2, <1>3, <1>4, <1>5, <1>6, <1>7, <1>8, <1>9

\* The checks of the context and the flush.
LEMMA ProceedIInv ==
  ASSUME IInv, NEW j \in Job, Proceed(j) \/ Flush(j)
  PROVE  IInv'
  <1> USE DEF IInv, TypeOK, Proceed, Flush
  <1>1. Busy' = Busy
    BY DEF Busy
  <1>2. SlotsHeld'
    BY <1>1, SlotsKept
  <1>3. TypeOK'
    OBVIOUS
  <1>4. ClaimHeld'
    BY DEF ClaimHeld, Active
  <1>5. WholeParts' /\ BackupsHeld' /\ OverwriteChecked'
    BY DEF WholeParts, BackupsHeld, WholeFiles, OverwriteChecked, MayReplace
  <1>6. PlaceFilled' /\ PlaceEmpty'
    BY DEF PlaceFilled, PlaceEmpty, WholeParts, ClaimHeld, Active
  <1>7. WholeFiles' /\ ModelSurvives'
    BY DEF WholeFiles, ModelSurvives, WholeParts, BackupsHeld, PlaceFilled
  <1>8. HandlersGone'
    BY DEF HandlersGone, StoppedIsQuiet, Waited
  <1>9. NotYet'
    BY DEF NotYet, WholeParts
  <1> QED
    BY <1>2, <1>3, <1>4, <1>5, <1>6, <1>7, <1>8, <1>9

\* Examine decides between moving in, replacing and failing.
LEMMA ExamineIInv ==
  ASSUME IInv, NEW j \in Job, Examine(j)
  PROVE  IInv'
  <1> USE DEF IInv, TypeOK, Examine, Fail, MayReplace
  <1>1. Busy' = Busy
    BY DEF Busy
  <1>2. SlotsHeld'
    BY <1>1, SlotsKept
  <1>3. TypeOK'
    OBVIOUS
  <1>4. ClaimHeld'
    BY DEF ClaimHeld, Active
  <1>5. WholeParts' /\ BackupsHeld' /\ OverwriteChecked'
    BY DEF WholeParts, BackupsHeld, WholeFiles, OverwriteChecked, MayReplace
  <1>6. PlaceFilled' /\ PlaceEmpty'
    BY DEF PlaceFilled, PlaceEmpty, WholeParts, ClaimHeld, Active
  <1>7. WholeFiles' /\ ModelSurvives'
    BY DEF WholeFiles, ModelSurvives, WholeParts, BackupsHeld, PlaceFilled
  <1>8. HandlersGone'
    BY DEF HandlersGone, StoppedIsQuiet, Waited
  <1>9. NotYet'
    BY DEF NotYet, WholeParts
  <1> QED
    BY <1>2, <1>3, <1>4, <1>5, <1>6, <1>7, <1>8, <1>9

\* The old model moves to the backup; nobody else works on the destination.
LEMMA BackUpIInv ==
  ASSUME IInv, NEW j \in Job, BackUp(j)
  PROVE  IInv'
  <1> USE DEF IInv, TypeOK, BackUp
  <1>1. Busy' = Busy
    BY DEF Busy
  <1>2. SlotsHeld'
    BY <1>1, SlotsKept
  <1>3. TypeOK'
    OBVIOUS
  <1>4. ClaimHeld'
    BY DEF ClaimHeld, Active
  <1>5. WholeParts' /\ BackupsHeld' /\ OverwriteChecked'
    BY DEF WholeParts, BackupsHeld, WholeFiles, OverwriteChecked, MayReplace
  <1>6. PlaceFilled' /\ PlaceEmpty'
    BY DEF PlaceFilled, PlaceEmpty, WholeParts, ClaimHeld, Active
  <1>7. WholeFiles' /\ ModelSurvives'
    BY DEF WholeFiles, ModelSurvives, WholeParts, BackupsHeld, PlaceFilled
  <1>8. HandlersGone'
    BY DEF HandlersGone, StoppedIsQuiet, Waited
  <1>9. NotYet'
    BY DEF NotYet, WholeParts
  <1> QED
    BY <1>2, <1>3, <1>4, <1>5, <1>6, <1>7, <1>8, <1>9

\* A whole part file becomes the destination.
LEMMA InstallIInv ==
  ASSUME IInv, NEW j \in Job, Install(j)
  PROVE  IInv'
  <1> USE DEF IInv, TypeOK, Install
  <1>1. Busy' = Busy
    BY DEF Busy
  <1>2. SlotsHeld'
    BY <1>1, SlotsKept
  <1>3. TypeOK'
    OBVIOUS
  <1>4. ClaimHeld'
    BY DEF ClaimHeld, Active
  <1>5. WholeParts' /\ BackupsHeld' /\ OverwriteChecked'
    BY DEF WholeParts, BackupsHeld, WholeFiles, OverwriteChecked, MayReplace
  <1>6. PlaceFilled' /\ PlaceEmpty'
    BY DEF PlaceFilled, PlaceEmpty, WholeParts, ClaimHeld, Active
  <1>7. WholeFiles' /\ ModelSurvives'
    BY DEF WholeFiles, ModelSurvives, WholeParts, BackupsHeld, PlaceFilled
  <1>8. HandlersGone'
    BY DEF HandlersGone, StoppedIsQuiet, Waited
  <1>9. NotYet'
    BY DEF NotYet, WholeParts
  <1> QED
    BY <1>2, <1>3, <1>4, <1>5, <1>6, <1>7, <1>8, <1>9

\* A failed replacement brings the old model back, or keeps it as a backup.
LEMMA RestoreIInv ==
  ASSUME IInv, NEW j \in Job, InstallFails(j) \/ Restore(j)
  PROVE  IInv'
  <1> USE DEF IInv, TypeOK, InstallFails, Restore, Fail
  <1>1. Busy' = Busy
    BY DEF Busy
  <1>2. SlotsHeld'
    BY <1>1, SlotsKept
  <1>3. TypeOK'
    OBVIOUS
  <1>4. ClaimHeld'
    BY DEF ClaimHeld, Active
  <1>5. WholeParts' /\ BackupsHeld' /\ OverwriteChecked'
    BY DEF WholeParts, BackupsHeld, WholeFiles, OverwriteChecked, MayReplace
  <1>6. PlaceFilled' /\ PlaceEmpty'
    BY DEF PlaceFilled, PlaceEmpty, WholeParts, ClaimHeld, Active
  <1>7. WholeFiles' /\ ModelSurvives'
    BY DEF WholeFiles, ModelSurvives, WholeParts, BackupsHeld, PlaceFilled
  <1>8. HandlersGone'
    BY DEF HandlersGone, StoppedIsQuiet, Waited
  <1>9. NotYet'
    BY DEF NotYet, WholeParts
  <1> QED
    BY <1>2, <1>3, <1>4, <1>5, <1>6, <1>7, <1>8, <1>9

\* The backup goes when the new model is in place.
LEMMA RemoveBackupIInv ==
  ASSUME IInv, NEW j \in Job, RemoveBackup(j)
  PROVE  IInv'
  <1> USE DEF IInv, TypeOK, RemoveBackup
  <1>1. Busy' = Busy
    BY DEF Busy
  <1>2. SlotsHeld'
    BY <1>1, SlotsKept
  <1>3. TypeOK'
    OBVIOUS
  <1>4. ClaimHeld'
    BY DEF ClaimHeld, Active
  <1>5. WholeParts' /\ BackupsHeld' /\ OverwriteChecked'
    BY DEF WholeParts, BackupsHeld, WholeFiles, OverwriteChecked, MayReplace
  <1>6. PlaceFilled' /\ PlaceEmpty'
    BY DEF PlaceFilled, PlaceEmpty, WholeParts, ClaimHeld, Active
  <1>7. WholeFiles' /\ ModelSurvives'
    BY DEF WholeFiles, ModelSurvives, WholeParts, BackupsHeld, PlaceFilled
  <1>8. HandlersGone'
    BY DEF HandlersGone, StoppedIsQuiet, Waited
  <1>9. NotYet'
    BY DEF NotYet, WholeParts
  <1> QED
    BY <1>2, <1>3, <1>4, <1>5, <1>6, <1>7, <1>8, <1>9

\* Completion gives the destination back.
LEMMA CompleteIInv ==
  ASSUME IInv, NEW j \in Job, Complete(j)
  PROVE  IInv'
  <1> USE DEF IInv, TypeOK, Complete, Forget, Free
  <1>1. Busy' = Busy
    BY DEF Busy
  <1>2. SlotsHeld'
    BY <1>1, SlotsKept
  <1>3. TypeOK'
    OBVIOUS
  <1>4. ClaimHeld'
    BY DEF ClaimHeld, Active
  <1>5. WholeParts' /\ BackupsHeld' /\ OverwriteChecked'
    BY DEF WholeParts, BackupsHeld, WholeFiles, OverwriteChecked, MayReplace
  <1>6. PlaceFilled' /\ PlaceEmpty'
    BY DEF PlaceFilled, PlaceEmpty, WholeParts, ClaimHeld, Active
  <1>7. WholeFiles' /\ ModelSurvives'
    BY DEF WholeFiles, ModelSurvives, WholeParts, BackupsHeld, PlaceFilled
  <1>8. HandlersGone'
    BY DEF HandlersGone, StoppedIsQuiet, Waited
  <1>9. NotYet'
    BY DEF NotYet, WholeParts
  <1> QED
    BY <1>2, <1>3, <1>4, <1>5, <1>6, <1>7, <1>8, <1>9

\* The deferred calls give the slot back.
LEMMA LeaveIInv ==
  ASSUME IInv, NEW j \in Job, Leave(j)
  PROVE  IInv'
  <1> USE DEF IInv, TypeOK, Leave
  <1>1. j \in Busy /\ Busy' = Busy \ {j}
    BY DEF Busy
  <1>2. SlotsHeld' /\ slots' \in Nat /\ slots' <= slots
    BY <1>1, SlotLeft
  <1>3. TypeOK'
    BY <1>2
  <1>4. ClaimHeld'
    BY DEF ClaimHeld, Active
  <1>5. WholeParts' /\ BackupsHeld' /\ OverwriteChecked'
    BY DEF WholeParts, BackupsHeld, WholeFiles, OverwriteChecked, MayReplace
  <1>6. PlaceFilled' /\ PlaceEmpty'
    BY DEF PlaceFilled, PlaceEmpty, WholeParts, ClaimHeld, Active
  <1>7. WholeFiles' /\ ModelSurvives'
    BY DEF WholeFiles, ModelSurvives, WholeParts, BackupsHeld, PlaceFilled
  <1>8. HandlersGone'
    BY DEF HandlersGone, StoppedIsQuiet, Waited
  <1>9. NotYet'
    BY DEF NotYet, WholeParts
  <1> QED
    BY <1>2, <1>3, <1>4, <1>5, <1>6, <1>7, <1>8, <1>9

\* A job that ended late releases nothing that another job claimed.
LEMMA ReleaseIInv ==
  ASSUME IInv, NEW j \in Job, Release(j)
  PROVE  IInv'
  <1> USE DEF IInv, TypeOK, Release, Free
  <1>1. Busy' = Busy
    BY DEF Busy
  <1>2. SlotsHeld'
    BY <1>1, SlotsKept
  <1>3. TypeOK'
    OBVIOUS
  <1>4. ClaimHeld'
    BY DEF ClaimHeld, Active
  <1>5. WholeParts' /\ BackupsHeld' /\ OverwriteChecked'
    BY DEF WholeParts, BackupsHeld, WholeFiles, OverwriteChecked, MayReplace
  <1>6. PlaceFilled' /\ PlaceEmpty'
    BY DEF PlaceFilled, PlaceEmpty, WholeParts, ClaimHeld, Active
  <1>7. WholeFiles' /\ ModelSurvives'
    BY DEF WholeFiles, ModelSurvives, WholeParts, BackupsHeld, PlaceFilled
  <1>8. HandlersGone'
    BY DEF HandlersGone, StoppedIsQuiet, Waited
  <1>9. NotYet'
    BY DEF NotYet, WholeParts
  <1> QED
    BY <1>2, <1>3, <1>4, <1>5, <1>6, <1>7, <1>8, <1>9

\* Shutdown, and the wait that ends with no job left.
LEMMA ServiceIInv ==
  ASSUME IInv, Shutdown \/ HandlersDone \/ WaitReturns
  PROVE  IInv'
  <1> USE DEF IInv, TypeOK, Shutdown, HandlersDone, WaitReturns, jobVars
  <1>1. Busy' = Busy
    BY DEF Busy
  <1>2. SlotsHeld'
    BY <1>1, SlotsKept
  <1>3. TypeOK'
    OBVIOUS
  <1>4. ClaimHeld'
    BY DEF ClaimHeld, Active
  <1>5. WholeParts' /\ BackupsHeld' /\ OverwriteChecked'
    BY DEF WholeParts, BackupsHeld, WholeFiles, OverwriteChecked, MayReplace
  <1>6. PlaceFilled' /\ PlaceEmpty'
    BY DEF PlaceFilled, PlaceEmpty, WholeParts, ClaimHeld, Active
  <1>7. WholeFiles' /\ ModelSurvives'
    BY DEF WholeFiles, ModelSurvives, WholeParts, BackupsHeld, PlaceFilled
  <1>8. HandlersGone'
    BY DEF HandlersGone, StoppedIsQuiet, Waited
  <1>9. NotYet'
    BY DEF NotYet, WholeParts
  <1> QED
    BY <1>2, <1>3, <1>4, <1>5, <1>6, <1>7, <1>8, <1>9

\* A crash ends every job; the disk is as it was.
LEMMA RelaunchIInv ==
  ASSUME IInv, Relaunch
  PROVE  IInv'
  <1> USE DEF IInv, TypeOK, Relaunch
  <1>1. Busy' = {}
    BY DEF Busy
  <1>2. SlotsHeld'
    BY <1>1, FS_EmptySet DEF SlotsHeld
  <1>3. TypeOK'
    OBVIOUS
  <1>4. ClaimHeld'
    BY DEF ClaimHeld, Active
  <1>5. WholeParts' /\ BackupsHeld' /\ OverwriteChecked'
    BY DEF WholeParts, BackupsHeld, WholeFiles, OverwriteChecked, MayReplace
  <1>6. PlaceFilled' /\ PlaceEmpty'
    BY DEF PlaceFilled, PlaceEmpty, WholeParts, ClaimHeld, Active
  <1>7. WholeFiles' /\ ModelSurvives'
    BY DEF WholeFiles, ModelSurvives, WholeParts, BackupsHeld, PlaceFilled
  <1>8. HandlersGone'
    BY DEF HandlersGone, StoppedIsQuiet, Waited
  <1>9. NotYet'
    BY DEF NotYet, WholeParts
  <1> QED
    BY <1>2, <1>3, <1>4, <1>5, <1>6, <1>7, <1>8, <1>9

\* Another program fills an empty place.
LEMMA AppearIInv ==
  ASSUME IInv, NEW f \in File, Appear(f)
  PROVE  IInv'
  <1> USE DEF IInv, TypeOK, Appear, jobVars
  <1>1. Busy' = Busy
    BY DEF Busy
  <1>2. SlotsHeld'
    BY <1>1, SlotsKept
  <1>3. TypeOK'
    OBVIOUS
  <1>4. ClaimHeld'
    BY DEF ClaimHeld, Active
  <1>5. WholeParts' /\ BackupsHeld' /\ OverwriteChecked'
    BY DEF WholeParts, BackupsHeld, WholeFiles, OverwriteChecked, MayReplace
  <1>6. PlaceFilled' /\ PlaceEmpty'
    BY DEF PlaceFilled, PlaceEmpty, WholeParts, ClaimHeld, Active
  <1>7. WholeFiles' /\ ModelSurvives'
    BY DEF WholeFiles, ModelSurvives, WholeParts, BackupsHeld, PlaceFilled
  <1>8. HandlersGone'
    BY DEF HandlersGone, StoppedIsQuiet, Waited
  <1>9. NotYet'
    BY DEF NotYet, WholeParts
  <1> QED
    BY <1>2, <1>3, <1>4, <1>5, <1>6, <1>7, <1>8, <1>9

\* The invariant is inductive.
LEMMA NextIInv == IInv /\ [Next]_vars => IInv'
  <1> SUFFICES ASSUME IInv, [Next]_vars PROVE IInv'
    OBVIOUS
  <1>1. ASSUME NEW j \in Job, Request(j) \/ Cancel(j) \/ CancelContext(j) PROVE IInv'
    BY <1>1, RequestIInv, RegisterIInv, CancelIInv DEF Request
  <1>2. ASSUME NEW j \in Job, Receive(j) PROVE IInv'
    BY <1>2, ReceiveIInv
  <1>3. ASSUME NEW j \in Job, Run(j) PROVE IInv'
    <2>1. CASE TakeSlot(j) \/ CancelWaiting(j) \/ Downloading(j) \/ OpenPart(j)
      BY <2>1, TakeSlotIInv, CancelWaitingIInv, DownloadingIInv
    <2>2. CASE OpenFails(j) \/ FileStepFails(j) \/ Break(j) \/ Abort(j) \/ Proceed(j) \/ Flush(j)
      BY <2>2, FailIInv, AbortIInv, ProceedIInv
    <2>3. CASE Examine(j) \/ BackUp(j) \/ Install(j) \/ InstallFails(j) \/ Restore(j)
      BY <2>3, ExamineIInv, BackUpIInv, InstallIInv, RestoreIInv
    <2>4. CASE RemoveBackup(j) \/ Complete(j) \/ Leave(j) \/ Release(j)
      BY <2>4, RemoveBackupIInv, CompleteIInv, LeaveIInv, ReleaseIInv
    <2> QED
      BY <1>3, <2>1, <2>2, <2>3, <2>4 DEF Run
  <1>4. CASE Shutdown \/ HandlersDone \/ WaitReturns
    BY <1>4, ServiceIInv
  <1>5. CASE Relaunch
    BY <1>5, RelaunchIInv
  <1>6. ASSUME NEW f \in File, Appear(f) PROVE IInv'
    BY <1>6, AppearIInv
  <1>7. CASE UNCHANGED vars
    <2>1. Busy' = Busy
      BY <1>7 DEF vars, jobVars, Busy
    <2>2. SlotsHeld'
      BY <1>7, <2>1, SlotsKept DEF vars, IInv
    <2>3. TypeOK' /\ ClaimHeld' /\ WholeParts' /\ BackupsHeld' /\ PlaceFilled'
      BY <1>7 DEF vars, jobVars, IInv, TypeOK, ClaimHeld, Active, WholeParts, BackupsHeld, PlaceFilled
    <2>4. WholeFiles' /\ ModelSurvives' /\ OverwriteChecked' /\ PlaceEmpty'
      BY <1>7 DEF vars, jobVars, IInv, WholeFiles, ModelSurvives, OverwriteChecked, PlaceEmpty
    <2>5. HandlersGone'
      BY <1>7 DEF vars, jobVars, IInv, HandlersGone, StoppedIsQuiet
    <2>6. NotYet'
      BY <1>7 DEF vars, jobVars, IInv, NotYet
    <2> QED
      BY <2>2, <2>3, <2>4, <2>5, <2>6 DEF IInv
  <1> QED
    BY <1>1, <1>2, <1>3, <1>4, <1>5, <1>6, <1>7 DEF Next

-----------------------------------------------------------------------------
(* The theorems.                                                           *)

\* The inductive invariant holds in every reachable state.
THEOREM DownloadInvariant == Spec => []IInv
  BY InitIInv, NextIInv, PTL DEF Spec

\* The slots are counted right: a semaphore is never given back twice or overrun.
THEOREM DownloadTypes == Spec => []TypeOK
  <1>1. IInv => TypeOK
    BY DEF IInv
  <1> QED
    BY <1>1, DownloadInvariant, PTL

\* A job at work holds the claim of its destination.
THEOREM ClaimsAreKept == Spec => []ClaimHeld
  <1>1. IInv => ClaimHeld
    BY DEF IInv
  <1> QED
    BY <1>1, DownloadInvariant, PTL

\* Two jobs are never at work on one destination, by the claim each of them holds.
THEOREM JobsKeepApart == Spec => []OneJobPerFile
  <1>1. IInv => OneJobPerFile
    BY DEF IInv, ClaimHeld, OneJobPerFile, TypeOK
  <1> QED
    BY <1>1, DownloadInvariant, PTL

\* No destination ever holds a part of a model.
THEOREM FilesAreWhole == Spec => []WholeFiles
  <1>1. IInv => WholeFiles
    BY DEF IInv
  <1> QED
    BY <1>1, DownloadInvariant, PTL

\* A model that was there is never lost, whatever fails and whenever a crash comes.
THEOREM OldModelSurvives == Spec => []ModelSurvives
  <1>1. IInv => ModelSurvives
    BY DEF IInv
  <1> QED
    BY <1>1, DownloadInvariant, PTL

\* No goroutine is left when the wait of an orderly shutdown has returned.
THEOREM WaitMeansQuiet == Spec => []StoppedIsQuiet
  <1>1. IInv => StoppedIsQuiet
    BY DEF IInv, HandlersGone
  <1> QED
    BY <1>1, DownloadInvariant, PTL

\* Only a job that may overwrite takes a model from its place: the claim closes the
\* gap between Lstat and Rename, except for files that other programs put there.
THEOREM ReplacementsAreAllowed == Spec => OnlyOverwriteReplaces
  <1> DEFINE A == \A f \in File : file[f] \notin {"absent", "foreign"} /\ file'[f] # file[f] =>
                    \E j \in Overwrite : Target[j] = f /\ pc'[j] # pc[j]
  <1>1. IInv /\ [Next]_vars => [A]_vars
    <2> SUFFICES ASSUME IInv, [Next]_vars, NEW f \in File,
                        file[f] \notin {"absent", "foreign"}, file'[f] # file[f]
                 PROVE  \E j \in Overwrite : Target[j] = f /\ pc'[j] # pc[j]
      OBVIOUS
    <2>1. ~(UNCHANGED vars) /\ ~Shutdown /\ ~HandlersDone /\ ~WaitReturns /\ ~Relaunch
      BY DEF vars, Shutdown, HandlersDone, WaitReturns, Relaunch
    <2>2. \A g \in File : ~Appear(g)
      BY DEF Appear, TypeOK, IInv
    <2>3. \A j \in Job : ~(Request(j) \/ Cancel(j) \/ CancelContext(j) \/ Receive(j))
      BY DEF Request, Check, Register, RegisterRefused, Spawn, Cancel, CancelContext, Receive
    <2>4. PICK j \in Job : Run(j)
      BY <2>1, <2>2, <2>3 DEF Next
    <2>5. BackUp(j) \/ Install(j) \/ Restore(j)
      BY <2>4 DEF Run, TakeSlot, CancelWaiting, Downloading, OpenPart, OpenFails, Break, Abort,
                  Proceed, Flush, FileStepFails, Examine, InstallFails, RemoveBackup, Complete,
                  Leave, Release
    <2>6. Target[j] = f /\ pc'[j] # pc[j]
      BY <2>5 DEF BackUp, Install, Restore, IInv, TypeOK
    <2>7. j \in Overwrite
      BY <2>5, <2>6 DEF BackUp, Install, Restore, IInv, OverwriteChecked, PlaceEmpty
    <2> QED
      BY <2>6, <2>7
  <1> QED
    BY <1>1, DownloadInvariant, PTL DEF Spec, OnlyOverwriteReplaces

-----------------------------------------------------------------------------
(* Cancelled downloads.                                                    *)

\* Few steps touch what is at a destination or moved aside from it.
LEMMA OnlyFileStepsMove ==
  ASSUME Next, ~UNCHANGED <<file, backup>>
  PROVE  \/ \E k \in Job : BackUp(k) \/ Install(k) \/ Restore(k) \/ RemoveBackup(k)
         \/ \E f \in File : Appear(f)
  <1>1. ~Shutdown /\ ~HandlersDone /\ ~WaitReturns /\ ~Relaunch
    BY DEF Shutdown, HandlersDone, WaitReturns, Relaunch
  <1>2. \A j \in Job : ~(Request(j) \/ Cancel(j) \/ CancelContext(j) \/ Receive(j))
    BY DEF Request, Check, Register, RegisterRefused, Spawn, Cancel, CancelContext, Receive
  <1>3. ASSUME NEW k \in Job, Run(k) PROVE BackUp(k) \/ Install(k) \/ Restore(k) \/ RemoveBackup(k)
    BY <1>3 DEF Run, TakeSlot, CancelWaiting, Downloading, OpenPart, OpenFails, Break, Abort,
                Proceed, Flush, FileStepFails, Examine, InstallFails, Complete, Leave, Release
  <1> QED
    BY <1>1, <1>2, <1>3 DEF Next

\* A job that was cancelled early, or is past its file steps ...
Ending(j) == (Early(j) /\ Cancelled(j)) \/ pc[j] \in {"leave", "release", "done"}

\* ... and whose model is nowhere will never put it anywhere.
Barred(j) ==
  /\ Ending(j)
  /\ \A f \in File : file[f] # j
  /\ \A k \in Job : backup[k] # j

\* A context once cancelled stays so until the job is over, and a cancelled job
\* goes nowhere but to its end.
LEMMA CancelledStays ==
  ASSUME IInv, Next, NEW j \in Job, Ending(j)
  PROVE  Ending(j)'
  <1> USE DEF IInv, TypeOK, Ending, Early, Cancelled
  <1>1. ASSUME NEW k \in Job, Request(k) \/ Cancel(k) \/ CancelContext(k) PROVE Ending(j)'
    BY <1>1 DEF Request, Check, Register, RegisterRefused, Spawn, Cancel, CancelContext
  <1>2. ASSUME NEW k \in Job, Run(k) \/ Receive(k) PROVE Ending(j)'
    <2>1. CASE k # j
      BY <1>2, <2>1 DEF Run, Receive, TakeSlot, CancelWaiting, Downloading, OpenPart, OpenFails,
         Break, Abort, Proceed, Flush, FileStepFails, Examine, BackUp, Install, InstallFails, Restore,
         RemoveBackup, Complete, Leave, Release
    <2>2. CASE k = j
      BY <1>2, <2>2 DEF Run, Receive, TakeSlot, CancelWaiting, Downloading, OpenPart, OpenFails,
         Break, Abort, Proceed, Flush, FileStepFails, Examine, BackUp, Install, InstallFails, Restore,
         RemoveBackup, Complete, Leave, Release
    <2> QED
      BY <2>1, <2>2
  <1>3. CASE Shutdown \/ HandlersDone \/ WaitReturns
    BY <1>3 DEF Shutdown, HandlersDone, WaitReturns, jobVars
  <1>4. CASE Relaunch
    BY <1>4 DEF Relaunch
  <1>5. ASSUME NEW f \in File, Appear(f) PROVE Ending(j)'
    BY <1>5 DEF Appear, jobVars
  <1> QED
    BY <1>1, <1>2, <1>3, <1>4, <1>5 DEF Next

\* Nobody else brings the model of a job to any place.
LEMMA BarredStays ==
  ASSUME NEW j \in Job
  PROVE  IInv /\ Barred(j) /\ [Next]_vars => Barred(j)'
  <1> SUFFICES ASSUME IInv, Barred(j), [Next]_vars PROVE Barred(j)'
    OBVIOUS
  <1>1. CASE UNCHANGED vars
    BY <1>1 DEF Barred, Ending, Early, Cancelled, vars, jobVars
  <1>2. CASE Next
    <2>1. Ending(j)'
      BY <1>2, CancelledStays DEF Barred
    <2> DEFINE Absent == (\A f \in File : file[f] # j) /\ (\A k \in Job : backup[k] # j)
    <2>2. Absent'
      <3> USE DEF IInv, TypeOK, Barred, Ending
      <3>1. ASSUME NEW k \in Job, BackUp(k) PROVE Absent'
        BY <3>1 DEF BackUp
      <3>2. ASSUME NEW k \in Job, Install(k) PROVE Absent'
        BY <3>2 DEF Install, WholeParts, Early
      <3>3. ASSUME NEW k \in Job, Restore(k) PROVE Absent'
        BY <3>3 DEF Restore
      <3>4. ASSUME NEW k \in Job, RemoveBackup(k) PROVE Absent'
        BY <3>4 DEF RemoveBackup
      <3>5. ASSUME NEW f \in File, Appear(f) PROVE Absent'
        BY <3>5 DEF Appear
      <3>6. CASE UNCHANGED <<file, backup>>
        BY <3>6
      <3> QED
        BY <1>2, <3>1, <3>2, <3>3, <3>4, <3>5, <3>6, OnlyFileStepsMove
    <2> QED
      BY <2>1, <2>2 DEF Barred
  <1> QED
    BY <1>1, <1>2

\* Cancelling a download before its file steps began keeps it from its destination
\* for ever, whatever other jobs, crashes and launches follow.
THEOREM CancelIsFinal == Spec => CancelledNeverInstalls
  <1>1. ASSUME NEW j \in Job
        PROVE  Spec => [](Early(j) /\ Cancelled(j) => [](file[Target[j]] # j))
    <2>1. IInv /\ Early(j) /\ Cancelled(j) => Barred(j)
      BY DEF IInv, NotYet, Barred, Ending, Early
    <2>2. Barred(j) => file[Target[j]] # j
      BY DEF Barred
    <2> QED
      BY <2>1, <2>2, BarredStays, DownloadInvariant, PTL DEF Spec
  <1> QED
    BY <1>1 DEF CancelledNeverInstalls

-----------------------------------------------------------------------------
(* The manager implements the store.                                       *)

\* What every destination has in store, as a function.
StockMap == [f \in File |-> Stock(f)]

\* A job past its file steps does not come back to them.
LEMMA PastStays ==
  ASSUME TypeOK, Next, NEW j \in Job, pc[j] \in Past
  PROVE  pc'[j] \in Past
  <1> USE DEF TypeOK
  <1>1. ASSUME NEW k \in Job, Request(k) \/ Cancel(k) \/ CancelContext(k) PROVE pc'[j] \in Past
    BY <1>1 DEF Request, Check, Register, RegisterRefused, Spawn, Cancel, CancelContext
  <1>2. ASSUME NEW k \in Job, Run(k) \/ Receive(k) PROVE pc'[j] \in Past
    BY <1>2 DEF Run, Receive, TakeSlot, CancelWaiting, Downloading, OpenPart, OpenFails,
       Break, Abort, Proceed, Flush, FileStepFails, Examine, BackUp, Install, InstallFails, Restore,
       RemoveBackup, Complete, Leave, Release
  <1>3. CASE Shutdown \/ HandlersDone \/ WaitReturns \/ Relaunch
    BY <1>3 DEF Shutdown, HandlersDone, WaitReturns, Relaunch, jobVars
  <1>4. ASSUME NEW f \in File, Appear(f) PROVE pc'[j] \in Past
    BY <1>4 DEF Appear, jobVars
  <1> QED
    BY <1>1, <1>2, <1>3, <1>4 DEF Next

\* No job becomes one whose model may come.
LEMMA PendingShrinks ==
  ASSUME IInv, Next PROVE Pending' \in SUBSET Pending
  <1>1. ASSUME NEW j \in Job, j \notin Pending PROVE j \notin Pending'
    <2>1. CASE pc[j] \in Past
      BY <2>1, PastStays DEF IInv, Pending
    <2>2. CASE Early(j) /\ Cancelled(j)
      <3>1. Ending(j)'
        BY <2>2, CancelledStays DEF Ending
      <3> QED
        BY <3>1 DEF Ending, Pending
    <2> QED
      BY <1>1, <2>1, <2>2 DEF Pending
  <1> QED
    BY <1>1 DEF Pending

\* A step that changes the store of one destination.
LEMMA StockOfOne ==
  ASSUME NEW g \in File, NEW X, Stock(g)' = X, \A f \in File \ {g} : Stock(f)' = Stock(f)
  PROVE  StockMap' = [StockMap EXCEPT ![g] = X]
  BY DEF StockMap

\* At first the store is what the directory holds.
LEMMA InitStore == Init => Store!Init
  <1> SUFFICES ASSUME Init PROVE Store!Init
    OBVIOUS
  <1>1. ASSUME NEW f \in File PROVE Stock(f) = IF f \in Present THEN {"old"} ELSE {}
    BY DEF Init, Stock
  <1>2. Pending = Job
    BY DEF Init, Pending, Early
  <1> QED
    BY <1>1, <1>2 DEF Store!Init

\* A model moved aside stays in store.
LEMMA BackUpStore ==
  ASSUME IInv, NEW j \in Job, BackUp(j)
  PROVE  StockMap' = StockMap
  <1> USE DEF IInv, TypeOK, BackUp
  <1>1. backup[j] = "absent"
    BY DEF NotYet
  <1>2. ASSUME NEW f \in File PROVE Stock(f)' = Stock(f)
    <2>1. ASSUME NEW c \in Content \ {"absent"}
          PROVE  (file'[f] = c \/ \E k \in Job : Target[k] = f /\ backup'[k] = c)
                   <=> (file[f] = c \/ \E k \in Job : Target[k] = f /\ backup[k] = c)
      <3>1. CASE f # Target[j]
        BY <3>1
      <3>2. CASE f = Target[j]
        <4>1. file'[f] = "absent" /\ backup'[j] = file[f]
          BY <3>2
        <4>2. \A k \in Job : k # j => backup'[k] = backup[k]
          OBVIOUS
        <4> QED
          BY <1>1, <3>2, <4>1, <4>2
      <3> QED
        BY <3>1, <3>2
    <2> QED
      BY <2>1 DEF Stock
  <1> QED
    BY <1>2 DEF StockMap

\* A whole model comes into the store of its own destination.
LEMMA InstallStore ==
  ASSUME IInv, NEW j \in Job, Install(j)
  PROVE  Store!Arrive(j)
  <1> USE DEF IInv, TypeOK, Install
  <1> DEFINE g == Target[j]
  <1>0. g \in File
    OBVIOUS
  <1>1. part[j] = j
    BY DEF WholeParts
  <1>2. file[g] \in {"absent", "foreign"}
    BY DEF PlaceEmpty
  <1>3. j \in Pending
    BY DEF Pending, Early
  <1>4. Pending' = Pending \ {j}
    BY DEF Pending, Early, Cancelled
  <1>5. file' = [file EXCEPT ![g] = j] /\ backup' = backup
    BY <1>1
  <1>6. ASSUME NEW f \in File \ {g} PROVE Stock(f)' = Stock(f)
    BY <1>5 DEF Stock
  <1> DEFINE moved == {c \in Content \ {"absent"} : \E k \in Job : Target[k] = g /\ backup[k] = c}
  <1>7. Stock(g)' = moved \cup {j}
    BY <1>5 DEF Stock
  <1>8. Stock(g) = moved \/ Stock(g) = moved \cup {"foreign"}
    BY <1>2 DEF Stock
  <1>9. PICK s \in Store!Unprotected(Stock(g)) : Stock(g)' = s \cup {j}
    BY <1>7, <1>8 DEF Store!Unprotected
  <1>10. StockMap' = [StockMap EXCEPT ![g] = s \cup {j}]
    BY <1>0, <1>6, <1>9, StockOfOne
  <1>11. StockMap[g] = Stock(g)
    BY <1>0 DEF StockMap
  <1> QED
    BY <1>3, <1>4, <1>9, <1>10, <1>11 DEF Store!Arrive, StockMap

\* The old model is put back, or stays where it was moved.
LEMMA RestoreStore ==
  ASSUME IInv, NEW j \in Job, Restore(j)
  PROVE  StockMap' = StockMap \/ Store!PutBack(j)
  <1> USE DEF IInv, TypeOK, Restore
  <1> DEFINE g == Target[j]
             old == backup[j]
  <1>0. g \in File
    OBVIOUS
  <1>1. CASE UNCHANGED <<file, backup>>
    BY <1>1 DEF StockMap, Stock
  <1>2. CASE file' = [file EXCEPT ![g] = old] /\ backup' = [backup EXCEPT ![j] = "absent"]
    <2>1. file[g] \in {"absent", "foreign"} /\ old # "absent"
      BY DEF PlaceEmpty, BackupsHeld
    <2>2. j \in Overwrite \cap Pending
      BY DEF OverwriteChecked, Pending, Early
    <2>3. Pending' = Pending \ {j}
      BY DEF Pending, Early, Cancelled
    <2>4. ASSUME NEW f \in File \ {g} PROVE Stock(f)' = Stock(f)
      <3>1. file'[f] = file[f] /\ \A k \in Job : Target[k] = f => backup'[k] = backup[k]
        BY <1>2
      <3> QED
        BY <3>1 DEF Stock
    <2> DEFINE moved == {c \in Content \ {"absent"} : \E k \in Job \ {j} : Target[k] = g /\ backup[k] = c}
    <2>5. Stock(g)' = moved \cup {old}
      <3>1. file'[g] = old /\ backup'[j] = "absent" /\ \A k \in Job \ {j} : backup'[k] = backup[k]
        BY <1>0, <1>2
      <3>2. old \in Content \ {"absent"}
        BY <2>1
      <3> QED
        BY <3>1, <3>2 DEF Stock
    <2>6. Stock(g) = moved \cup {old} \/ Stock(g) = moved \cup {old, "foreign"}
      <3>1. old \in Content \ {"absent"} /\ "foreign" \in Content
        BY <2>1
      <3> QED
        BY <2>1, <3>1 DEF Stock
    <2>7. CASE Stock(g)' = Stock(g)
      BY <1>0, <2>4, <2>7 DEF StockMap
    <2>8. CASE Stock(g)' # Stock(g)
      <3>1. PICK s \in Store!Unprotected(Stock(g)) \ {{}} : Stock(g)' = s
        BY <2>5, <2>6, <2>8 DEF Store!Unprotected
      <3>2. StockMap' = [StockMap EXCEPT ![g] = s]
        BY <1>0, <2>4, <3>1, StockOfOne
      <3>3. StockMap[g] = Stock(g)
        BY <1>0 DEF StockMap
      <3> QED
        BY <2>2, <2>3, <3>1, <3>2, <3>3 DEF Store!PutBack, StockMap
    <2> QED
      BY <2>7, <2>8
  <1> QED
    BY <1>1, <1>2

\* The old model leaves the store when the new one is in it.
LEMMA RemoveBackupStore ==
  ASSUME IInv, NEW j \in Job, RemoveBackup(j)
  PROVE  StockMap' = StockMap \/ Store!Replace(j)
  <1> USE DEF IInv, TypeOK, RemoveBackup
  <1> DEFINE g == Target[j]
             old == backup[j]
  <1>0. g \in File
    OBVIOUS
  <1>1. file[g] = j /\ j \in Overwrite
    BY DEF PlaceFilled, OverwriteChecked
  <1>2. Pending' = Pending
    BY DEF Pending, Early, Cancelled
  <1>3. ASSUME NEW f \in File \ {g} PROVE Stock(f)' = Stock(f)
    <2>1. file'[f] = file[f] /\ \A k \in Job : Target[k] = f => backup'[k] = backup[k]
      BY <1>3
    <2> QED
      BY <2>1 DEF Stock
  <1> DEFINE others == {c \in Content \ {"absent"} : file[g] = c \/ \E k \in Job \ {j} : Target[k] = g /\ backup[k] = c}
  <1>4. Stock(g)' = others
    <2>1. file' = file /\ backup'[j] = "absent" /\ \A k \in Job \ {j} : backup'[k] = backup[k]
      OBVIOUS
    <2> QED
      BY <2>1 DEF Stock
  <1>5. Stock(g) = others \cup ({old} \ {"absent"})
    BY DEF Stock
  <1>6. j \in others
    BY <1>1
  <1>7. CASE Stock(g)' = Stock(g)
    BY <1>0, <1>3, <1>7 DEF StockMap
  <1>8. CASE Stock(g)' # Stock(g)
    <2>1. old \in Stock(g) \ {j} /\ Stock(g)' = Stock(g) \ {old}
      BY <1>4, <1>5, <1>6, <1>8
    <2>2. StockMap' = [StockMap EXCEPT ![g] = Stock(g) \ {old}]
      BY <1>0, <1>3, <2>1, StockOfOne
    <2>3. StockMap[g] = Stock(g) /\ j \in Stock(g)
      BY <1>0, <1>5, <1>6 DEF StockMap
    <2> QED
      BY <1>1, <1>2, <2>1, <2>2, <2>3 DEF Store!Replace, StockMap
  <1> QED
    BY <1>7, <1>8

\* Another program's file comes into the store.
LEMMA AppearStore ==
  ASSUME IInv, NEW f \in File, Appear(f)
  PROVE  Store!Appear(f)
  <1> USE DEF IInv, TypeOK, Appear
  <1>1. Pending' = Pending
    BY DEF Pending, Early, Cancelled, jobVars
  <1>2. ASSUME NEW g \in File \ {f} PROVE Stock(g)' = Stock(g)
    BY <1>2 DEF Stock
  <1>3. Stock(f)' = Stock(f) \cup {"foreign"}
    BY DEF Stock
  <1>4. StockMap' = [StockMap EXCEPT ![f] = Stock(f) \cup {"foreign"}]
    BY <1>2, <1>3, StockOfOne
  <1> QED
    BY <1>1, <1>4 DEF Store!Appear, StockMap

\* Every step of the manager is one of the store, or none.
LEMMA NextStore == IInv /\ [Next]_vars => [Store!Next]_Store!vars
  <1> SUFFICES ASSUME IInv, [Next]_vars PROVE [Store!Next]_Store!vars
    OBVIOUS
  <1>1. CASE UNCHANGED vars
    BY <1>1 DEF vars, jobVars, Store!vars, Stock, Pending, Early, Cancelled
  <1>2. CASE Next
    <2>1. Pending' \in SUBSET Pending
      BY <1>2, PendingShrinks
    <2>2. CASE StockMap' = StockMap
      BY <2>1, <2>2 DEF Store!Next, Store!GiveUp, StockMap
    <2>3. CASE UNCHANGED <<file, backup>>
      BY <2>2, <2>3 DEF StockMap, Stock
    <2>4. ASSUME NEW j \in Job, BackUp(j) \/ Install(j) \/ Restore(j) \/ RemoveBackup(j)
          PROVE  [Store!Next]_Store!vars
      BY <2>2, <2>4, BackUpStore, InstallStore, RestoreStore, RemoveBackupStore DEF Store!Next
    <2>5. ASSUME NEW f \in File, Appear(f) PROVE [Store!Next]_Store!vars
      BY <2>5, AppearStore DEF Store!Next
    <2> QED
      BY <1>2, <2>3, <2>4, <2>5, OnlyFileStepsMove
  <1> QED
    BY <1>1, <1>2

\* The manager is a store, through failures, cancellations, crashes and launches.
THEOREM ManagerIsAStore == Spec => ImplementsModelStore
  BY InitStore, NextStore, DownloadInvariant, PTL DEF Spec, ImplementsModelStore, Store!Spec
-----------------------------------------------------------------------------
(* The transfer that a job runs.                                           *)

\* A job has no whole file before its transfer.
NothingYet == \A j \in Job : pc[j] \in Before => part[j] = "absent"

\* Only OpenPart makes the part file of a job that has not begun its transfer.
LEMMA NothingYetStays == IInv /\ NothingYet /\ [Next]_vars => NothingYet'
  <1> SUFFICES ASSUME IInv, NothingYet, [Next]_vars, NEW j \in Job, pc'[j] \in Before
               PROVE  part'[j] = "absent"
    BY DEF NothingYet
  <1> USE DEF IInv, TypeOK, NothingYet, Before
  <1>1. CASE UNCHANGED vars
    BY <1>1 DEF vars, jobVars
  <1>2. ASSUME NEW k \in Job, Request(k) \/ Cancel(k) \/ CancelContext(k) PROVE part'[j] = "absent"
    BY <1>2 DEF Request, Check, Register, RegisterRefused, Spawn, Cancel, CancelContext
  <1>3. ASSUME NEW k \in Job,
               TakeSlot(k) \/ CancelWaiting(k) \/ Downloading(k) \/ OpenPart(k) \/ OpenFails(k)
        PROVE  part'[j] = "absent"
    BY <1>3 DEF TakeSlot, CancelWaiting, Downloading, OpenPart, OpenFails
  <1>4. ASSUME NEW k \in Job,
               Receive(k) \/ Break(k) \/ Abort(k) \/ Proceed(k) \/ Flush(k) \/ FileStepFails(k)
        PROVE  part'[j] = "absent"
    BY <1>4 DEF Receive, Break, Abort, Proceed, Flush, FileStepFails
  <1>5. ASSUME NEW k \in Job,
               Examine(k) \/ BackUp(k) \/ Install(k) \/ InstallFails(k) \/ Restore(k)
        PROVE  part'[j] = "absent"
    BY <1>5 DEF Examine, BackUp, Install, InstallFails, Restore
  <1>6. ASSUME NEW k \in Job, RemoveBackup(k) \/ Complete(k) \/ Leave(k) \/ Release(k)
        PROVE  part'[j] = "absent"
    BY <1>6 DEF RemoveBackup, Complete, Leave, Release
  <1>7. CASE Shutdown \/ HandlersDone \/ WaitReturns \/ Relaunch \/ \E f \in File : Appear(f)
    BY <1>7 DEF Shutdown, HandlersDone, WaitReturns, Relaunch, Appear, jobVars
  <1> QED
    BY <1>1, <1>2, <1>3, <1>4, <1>5, <1>6, <1>7 DEF Next, Run

\* The part file of a job stays as it is ...
Kept(j) == part'[j] = part[j]

\* ... while the job goes on, or is done with it.
LEMMA GoesOn ==
  ASSUME NEW j \in Job, Kept(j), Progress(j)' = Progress(j) \/ Progress(j)' = "over"
  PROVE  [Call(j)!Next]_(Call(j)!vars)
  BY DEF Kept, Progress, Call!vars, Call!Next, Call!Fail, Call!Dispose

\* Every step is one of the transfer of a job, or none.
LEMMA NextTransfers ==
  ASSUME IInv, NothingYet, [Next]_vars, NEW j \in Job
  PROVE  [Call(j)!Next]_(Call(j)!vars)
  <1> DEFINE Goal == [Call(j)!Next]_(Call(j)!vars)
  <1> USE DEF IInv, TypeOK
  <1>1. ASSUME UNCHANGED <<pc, part>> PROVE Goal
    BY <1>1, GoesOn DEF Kept, Progress
  <1>2. ASSUME NEW k \in Job, j # k, pc'[j] = pc[j], part'[j] = part[j] PROVE Goal
    BY <1>2, GoesOn DEF Kept, Progress
  <1>3. ASSUME NEW k \in Job, Request(k) \/ Cancel(k) \/ CancelContext(k) PROVE Goal
    BY <1>3, GoesOn DEF Kept, Progress, Before, Request, Check, Register, RegisterRefused, Spawn, Cancel, CancelContext
  <1>4. ASSUME NEW k \in Job, TakeSlot(k) \/ CancelWaiting(k) \/ Downloading(k) \/ OpenFails(k) PROVE Goal
    BY <1>4, GoesOn DEF Kept, Progress, Before, TakeSlot, CancelWaiting, Downloading, OpenFails
  <1>5. ASSUME NEW k \in Job, OpenPart(k) PROVE Goal
    <2>1. CASE j # k
      BY <1>2, <1>5, <2>1 DEF OpenPart
    <2>2. CASE j = k
      <3>1. part[j] # j /\ part'[j] # j
        BY <1>5, <2>2, JobsHaveTargets DEF OpenPart, NothingYet, Before
      <3>2. Progress(j) = "before" /\ Progress(j)' = "running"
        BY <1>5, <2>2 DEF OpenPart, Progress, Before
      <3> QED
        BY <3>1, <3>2 DEF Call!Next, Call!Begin
    <2> QED
      BY <2>1, <2>2
  <1>6. ASSUME NEW k \in Job, Receive(k) PROVE Goal
    <2>1. CASE j # k
      BY <1>2, <1>6, <2>1 DEF Receive
    <2>2. CASE j = k
      <3>1. part'[j] = j /\ Progress(j) = "running" /\ Progress(j)' = "nil"
        BY <1>6, <2>2 DEF Receive, Progress, Before
      <3> QED
        BY <3>1 DEF Call!Next, Call!Succeed
    <2> QED
      BY <2>1, <2>2
  <1>7. ASSUME NEW k \in Job, Break(k) \/ Abort(k) \/ Proceed(k) \/ Flush(k) \/ FileStepFails(k) PROVE Goal
    BY <1>7, GoesOn DEF Kept, Progress, Before, Break, Abort, Proceed, Flush, FileStepFails
  <1>8. ASSUME NEW k \in Job, Examine(k) \/ BackUp(k) \/ InstallFails(k) \/ Restore(k) PROVE Goal
    BY <1>8, GoesOn DEF Kept, Progress, Before, Examine, BackUp, InstallFails, Restore
  <1>9. ASSUME NEW k \in Job, RemoveBackup(k) \/ Complete(k) \/ Release(k) PROVE Goal
    BY <1>9, GoesOn DEF Kept, Progress, Before, RemoveBackup, Complete, Release
  <1>10. ASSUME NEW k \in Job, Install(k) \/ Leave(k) PROVE Goal
    <2>1. CASE j # k
      BY <1>2, <1>10, <2>1 DEF Install, Leave
    <2>2. CASE j = k
      <3>1. part'[j] # j
        BY <1>10, <2>2, JobsHaveTargets DEF Install, Leave
      <3>2. Progress(j) \in {"nil", "over"} /\ Progress(j)' = "over"
        BY <1>10, <2>2 DEF Install, Leave, Progress, Before
      <3> QED
        BY <3>1, <3>2 DEF Call!Next, Call!Dispose
    <2> QED
      BY <2>1, <2>2
  <1>11. ASSUME Relaunch PROVE Goal
    <2>1. Kept(j) /\ (pc'[j] = pc[j] \/ pc'[j] = "done")
      BY <1>11 DEF Relaunch, Kept
    <2> QED
      BY <2>1, GoesOn DEF Progress, Before
  <1>12. ASSUME UNCHANGED vars \/ Shutdown \/ HandlersDone \/ WaitReturns \/ \E f \in File : Appear(f) PROVE Goal
    BY <1>1, <1>12 DEF vars, Shutdown, HandlersDone, WaitReturns, Appear, jobVars
  <1> HIDE DEF Goal
  <1>13. Goal
    BY <1>3, <1>4, <1>5, <1>6, <1>7, <1>8, <1>9, <1>10, <1>11, <1>12 DEF Next, Run
  <1> QED
    BY <1>13 DEF Goal

\* The manager needs no more of a transfer than downloadChunked was shown to keep.
THEOREM ManagerUsesTransfer == Spec => UsesTransfer
  <1>1. Init => NothingYet /\ \A j \in Job : Call(j)!Init
    BY JobsHaveTargets DEF Init, NothingYet, Call!Init, Progress, Before
  <1>2. IInv /\ NothingYet /\ [Next]_vars => [\A j \in Job : [Call(j)!Next]_(Call(j)!vars)]_vars
    BY NextTransfers
  <1> QED
    BY <1>1, <1>2, NothingYetStays, DownloadInvariant, PTL DEF Spec, UsesTransfer
=============================================================================
