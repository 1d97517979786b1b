-------------------------- MODULE DownloadManager --------------------------
(***************************************************************************)
(* download.Manager: background jobs that fetch one model file each into a *)
(* private part file and then move it over the destination.  A claim per   *)
(* destination keeps two jobs off the same file, a fixed number of slots   *)
(* bounds the transfers, and a context per job carries cancellation and    *)
(* shutdown.  A crash may stop the program between any two file steps.     *)
(***************************************************************************)
EXTENDS Naturals, FiniteSets

CONSTANTS
  Job,        \* job identifiers; bounds the number of downloads
  File,       \* destinations
  Target,     \* the destination of each job
  Overwrite,  \* the jobs that may replace an existing file
  Present,    \* destinations that hold a model from the start
  Shared,     \* destinations where somebody else may put a file
  Stalled,    \* jobs whose remote never sends the last byte
  Slots,      \* maxConcurrent
  Remember,   \* maxRememberedJobs
  None

ASSUME JobsHaveTargets ==
  /\ Target \in [Job -> File]
  /\ Overwrite \subseteq Job
  /\ Present \subseteq File /\ Shared \subseteq File /\ Stalled \subseteq Job
  /\ Slots \in Nat \ {0} /\ Remember \in Nat \ {0}
  /\ IsFiniteSet(Job) /\ None \notin Job
  /\ {"absent", "partial", "old", "foreign"} \cap Job = {}

VARIABLES
  state,    \* m.jobs: the listed state of a job, none when it is not listed
  pc,       \* where the request or the goroutine of the job is
  asked,    \* Cancel calls that have marked the job and not yet its context
  ctx,      \* jobs whose own context is cancelled
  claim,    \* m.activeTargets
  slots,    \* occupied m.slots
  part,     \* the part file of a job
  file,     \* what is at a destination
  backup,   \* what a job moved out of the way
  mode      \* the life of the program

jobVars == <<state, pc, asked, ctx>>
diskVars == <<part, file, backup>>
vars == <<jobVars, claim, slots, diskVars, mode>>

State == {"none", "queued", "downloading", "cancelling", "failed"}
Starting == {"new", "checked", "registered"}
Working == {"starting", "opening", "transfer", "received", "flushing", "closed",
            "replace", "backup", "swap", "install", "restore", "cleanup", "complete", "leave"}
Step == Starting \cup {"waiting"} \cup Working \cup {"release", "done"}
Mode == {"up", "stopping", "waiting", "stopped"}
Content == {"absent", "partial", "old", "foreign"} \cup Job

TypeOK ==
  /\ state \in [Job -> State]
  /\ pc \in [Job -> Step]
  /\ asked \subseteq Job
  /\ ctx \subseteq Job
  /\ claim \in [File -> Job \cup {None}]
  /\ slots \in 0..Slots
  /\ part \in [Job -> Content]
  /\ file \in [File -> Content]
  /\ backup \in [Job -> Content]
  /\ mode \in Mode

Init ==
  /\ state = [j \in Job |-> "none"]
  /\ pc = [j \in Job |-> "new"]
  /\ asked = {}
  /\ ctx = {}
  /\ claim = [f \in File |-> None]
  /\ slots = 0
  /\ part = [j \in Job |-> "absent"]
  /\ file = [f \in File |-> IF f \in Present THEN "old" ELSE "absent"]
  /\ backup = [j \in Job |-> "absent"]
  /\ mode = "up"

-----------------------------------------------------------------------------
(* Starting and cancelling a job.                                          *)

Go(j, next) == pc' = [pc EXCEPT ![j] = next]
Step1(j, here, next) == pc[j] = here /\ Go(j, next)

\* The job's context descends from the service's, which a shutdown cancels.
Cancelled(j) == j \in ctx \/ mode # "up"

\* startValidated looks at the destination before it takes the lock.
Check(j) ==
  /\ mode \in {"up", "stopping"}
  /\ file[Target[j]] = "absent" \/ j \in Overwrite
  /\ Step1(j, "new", "checked")
  /\ UNCHANGED <<state, asked, ctx, claim, slots, diskVars, mode>>

Listed == {j \in Job : state[j] # "none"}
Finished == {j \in Listed : state[j] \notin {"queued", "downloading"}}

\* pruneLocked forgets one entry, the oldest, when the list is full.
Pruned(s) ==
  IF Cardinality(Listed) < Remember \/ Finished = {}
  THEN s = state
  ELSE \E old \in Finished : s = [state EXCEPT ![old] = "none"]

Register(j) ==
  /\ claim[Target[j]] = None
  /\ Step1(j, "checked", "registered")
  /\ claim' = [claim EXCEPT ![Target[j]] = j]
  /\ \E s \in [Job -> State] : Pruned(s) /\ state' = [s EXCEPT ![j] = "queued"]
  /\ UNCHANGED <<asked, ctx, slots, diskVars, mode>>

\* Another job holds the destination; the request may be repeated later.
RegisterRefused(j) ==
  /\ claim[Target[j]] # None
  /\ Step1(j, "checked", "new")
  /\ UNCHANGED <<state, asked, ctx, claim, slots, diskVars, mode>>

\* wg.Add and the goroutine, after the lock was given back.
Spawn(j) ==
  /\ Step1(j, "registered", "waiting")
  /\ UNCHANGED <<state, asked, ctx, claim, slots, diskVars, mode>>

Cancel(j) ==
  /\ state[j] \in {"queued", "downloading"}
  /\ state' = [state EXCEPT ![j] = "cancelling"]
  /\ asked' = asked \cup {j}
  /\ UNCHANGED <<pc, ctx, claim, slots, diskVars, mode>>

\* cancel() comes after the lock: the job may have run on, or ended.
CancelContext(j) ==
  /\ j \in asked
  /\ asked' = asked \ {j}
  /\ ctx' = IF pc[j] = "done" THEN ctx ELSE ctx \cup {j}
  /\ UNCHANGED <<state, pc, claim, slots, diskVars, mode>>

-----------------------------------------------------------------------------
(* run.                                                                    *)

\* Faulty: whoever holds the destination loses it.
FreeAnyones(j) == [claim EXCEPT ![Target[j]] = None]

\* A job gives back only its own claim.
Free(j) == IF claim[Target[j]] = j THEN [claim EXCEPT ![Target[j]] = None] ELSE claim

\* cancelled and complete: the job leaves the list and the destination.
Forget(j) == state' = [state EXCEPT ![j] = "none"] /\ claim' = Free(j)

\* fail: a job that is still listed stays listed, as failed.
Fail(j) ==
  /\ state' = [state EXCEPT ![j] = IF @ = "none" THEN @ ELSE "failed"]
  /\ UNCHANGED claim

TakeSlot(j) ==
  /\ slots < Slots
  /\ Step1(j, "waiting", "starting")
  /\ slots' = slots + 1
  /\ UNCHANGED <<state, asked, ctx, claim, diskVars, mode>>

\* Faulty: only a free slot ends the wait.
CancelWaitingNever(j) == FALSE /\ UNCHANGED vars

CancelWaiting(j) ==
  /\ Cancelled(j)
  /\ Step1(j, "waiting", "release")
  /\ Forget(j)
  /\ UNCHANGED <<asked, ctx, slots, diskVars, mode>>

\* The state is set without a look at it: "cancelling" is lost, the context is not.
Downloading(j) ==
  /\ Step1(j, "starting", "opening")
  /\ state' = [state EXCEPT ![j] = IF @ = "none" THEN @ ELSE "downloading"]
  /\ UNCHANGED <<asked, ctx, claim, slots, diskVars, mode>>

OpenPart(j) ==
  /\ Step1(j, "opening", "transfer")
  /\ part' = [part EXCEPT ![j] = "partial"]
  /\ UNCHANGED <<state, asked, ctx, claim, slots, file, backup, mode>>

\* Directories, the part file or the URL cannot be made.
OpenFails(j) ==
  /\ Step1(j, "opening", "leave")
  /\ Fail(j)
  /\ UNCHANGED <<asked, ctx, slots, diskVars, mode>>

\* downloadSequential or downloadChunked returned nil.
Receive(j) ==
  /\ j \notin Stalled
  /\ Step1(j, "transfer", "received")
  /\ part' = [part EXCEPT ![j] = j]
  /\ UNCHANGED <<state, asked, ctx, claim, slots, file, backup, mode>>

\* The connection broke, or it was cut by the context.
Break(j) ==
  /\ Step1(j, "transfer", "leave")
  /\ IF Cancelled(j) THEN Forget(j) ELSE Fail(j)
  /\ UNCHANGED <<asked, ctx, slots, diskVars, mode>>

\* The two looks at the context, before Sync and after Close.
Abort(j) ==
  /\ pc[j] \in {"received", "closed"}
  /\ Cancelled(j)
  /\ Go(j, "leave")
  /\ Forget(j)
  /\ UNCHANGED <<asked, ctx, slots, diskVars, mode>>

\* Faulty: the context is not looked at again after Close.
ProceedRegardless(j) ==
  /\ (Step1(j, "received", "flushing") /\ ~Cancelled(j)) \/ Step1(j, "closed", "replace")
  /\ UNCHANGED <<state, asked, ctx, claim, slots, diskVars, mode>>

Proceed(j) ==
  /\ ~Cancelled(j)
  /\ Step1(j, "received", "flushing") \/ Step1(j, "closed", "replace")
  /\ UNCHANGED <<state, asked, ctx, claim, slots, diskVars, mode>>

Flush(j) ==
  /\ Step1(j, "flushing", "closed")
  /\ UNCHANGED <<state, asked, ctx, claim, slots, diskVars, mode>>

\* Sync, Close, or a rename failed and there is nothing to undo.
FileStepFails(j) ==
  /\ pc[j] \in {"flushing", "backup", "install", "cleanup"}
  /\ Go(j, "leave")
  /\ Fail(j)
  /\ UNCHANGED <<asked, ctx, slots, diskVars, mode>>

-----------------------------------------------------------------------------
(* replaceFile.                                                            *)

\* Faulty: the check of startValidated is relied upon.
MayReplaceAlways(j) == TRUE

MayReplace(j) == j \in Overwrite

Examine(j) ==
  /\ \/ /\ file[Target[j]] = "absent"
        /\ Step1(j, "replace", "install")
        /\ UNCHANGED <<state, claim>>
     \/ /\ file[Target[j]] # "absent" /\ MayReplace(j)
        /\ Step1(j, "replace", "backup")
        /\ UNCHANGED <<state, claim>>
     \/ /\ file[Target[j]] # "absent" /\ ~MayReplace(j)
        /\ Step1(j, "replace", "leave")
        /\ Fail(j)
  /\ UNCHANGED <<asked, ctx, slots, diskVars, mode>>

BackUp(j) ==
  /\ file[Target[j]] # "absent"
  /\ Step1(j, "backup", "swap")
  /\ backup' = [backup EXCEPT ![j] = file[Target[j]]]
  /\ file' = [file EXCEPT ![Target[j]] = "absent"]
  /\ UNCHANGED <<state, asked, ctx, claim, slots, part, mode>>

\* The part file becomes the destination, whatever is there by now.
Install(j) ==
  /\ Step1(j, "install", "complete") \/ Step1(j, "swap", "cleanup")
  /\ file' = [file EXCEPT ![Target[j]] = part[j]]
  /\ part' = [part EXCEPT ![j] = "absent"]
  /\ UNCHANGED <<state, asked, ctx, claim, slots, backup, mode>>

\* Faulty: the second rename is taken for done.
InstallFailsUnnoticed(j) ==
  /\ Step1(j, "swap", "cleanup")
  /\ UNCHANGED <<state, asked, ctx, claim, slots, diskVars, mode>>

InstallFails(j) ==
  /\ Step1(j, "swap", "restore")
  /\ UNCHANGED <<state, asked, ctx, claim, slots, diskVars, mode>>

\* The old model comes back; when even that fails it stays in the backup.
Restore(j) ==
  /\ Step1(j, "restore", "leave")
  /\ Fail(j)
  /\ \/ /\ file' = [file EXCEPT ![Target[j]] = backup[j]]
        /\ backup' = [backup EXCEPT ![j] = "absent"]
     \/ UNCHANGED <<file, backup>>
  /\ UNCHANGED <<asked, ctx, slots, part, mode>>

RemoveBackup(j) ==
  /\ Step1(j, "cleanup", "complete")
  /\ backup' = [backup EXCEPT ![j] = "absent"]
  /\ UNCHANGED <<state, asked, ctx, claim, slots, part, file, mode>>

Complete(j) ==
  /\ Step1(j, "complete", "leave")
  /\ Forget(j)
  /\ UNCHANGED <<asked, ctx, slots, diskVars, mode>>

\* The deferred calls: the part file goes, then the slot ...
Leave(j) ==
  /\ Step1(j, "leave", "release")
  /\ part' = [part EXCEPT ![j] = "absent"]
  /\ slots' = slots - 1
  /\ UNCHANGED <<state, asked, ctx, claim, file, backup, mode>>

\* ... then releaseDestination and wg.Done; nobody looks at the context any more.
Release(j) ==
  /\ Step1(j, "release", "done")
  /\ claim' = Free(j)
  /\ ctx' = ctx \ {j}
  /\ UNCHANGED <<state, asked, slots, diskVars, mode>>

-----------------------------------------------------------------------------
(* The program around it.                                                  *)

Shutdown ==
  /\ mode = "up"
  /\ mode' = "stopping"
  /\ UNCHANGED <<jobVars, claim, slots, diskVars>>

\* http.Server.Shutdown returned: no request is being handled any more.
HandlersDone ==
  /\ mode = "stopping"
  /\ \A j \in Job : pc[j] \notin {"checked", "registered"}
  /\ asked = {}
  /\ mode' = "waiting"
  /\ UNCHANGED <<jobVars, claim, slots, diskVars>>

\* Faulty: a job counts once it has a slot.
WaitedWorking(j) == pc[j] \notin Working

\* wg counts a job from Spawn to its last deferred call.
Waited(j) == pc[j] \in Starting \cup {"done"}

WaitReturns ==
  /\ mode = "waiting"
  /\ \A j \in Job : Waited(j)
  /\ mode' = "stopped"
  /\ UNCHANGED <<jobVars, claim, slots, diskVars>>

\* The process ends, by itself, by force or after a wait that timed out, and is
\* launched again; what is on disk stays.
Relaunch ==
  /\ mode' = "up"
  /\ state' = [j \in Job |-> "none"]
  /\ pc' = [j \in Job |-> IF pc[j] = "new" THEN "new" ELSE "done"]
  /\ asked' = {} /\ ctx' = {}
  /\ claim' = [f \in File |-> None]
  /\ slots' = 0
  /\ UNCHANGED diskVars

\* Somebody copies a model into the directory while no file is there.
Appear(f) ==
  /\ f \in Shared
  /\ file[f] = "absent"
  /\ file' = [file EXCEPT ![f] = "foreign"]
  /\ UNCHANGED <<jobVars, claim, slots, part, backup, mode>>

Request(j) == Check(j) \/ Register(j) \/ RegisterRefused(j) \/ Spawn(j)

Run(j) ==
  \/ TakeSlot(j) \/ CancelWaiting(j) \/ Downloading(j) \/ OpenPart(j) \/ OpenFails(j)
  \/ Break(j) \/ Abort(j) \/ Proceed(j) \/ Flush(j) \/ FileStepFails(j)
  \/ Examine(j) \/ BackUp(j) \/ Install(j) \/ InstallFails(j) \/ Restore(j)
  \/ RemoveBackup(j) \/ Complete(j) \/ Leave(j) \/ Release(j)

Next ==
  \/ \E j \in Job : Request(j) \/ Cancel(j) \/ CancelContext(j)
  \/ \E j \in Job : Run(j) \/ Receive(j)
  \/ Shutdown \/ HandlersDone \/ WaitReturns \/ Relaunch
  \/ \E f \in File : Appear(f)

Spec == Init /\ [][Next]_vars

\* A goroutine runs, a file step returns, a call reaches its context and an HTTP
\* transfer notices its context; a transfer nobody cancels may stall for ever.
Local(j) ==
  /\ WF_vars(CancelContext(j))
  /\ WF_vars(Spawn(j))
  /\ WF_vars(Run(j) /\ (pc[j] = "transfer" => Cancelled(j)))

FairSpec == Spec /\ \A j \in Job : Local(j)

-----------------------------------------------------------------------------
(* Properties.                                                             *)

Active(j) == pc[j] \in {"registered", "waiting"} \cup (Working \ {"leave"})

\* A job at work holds the claim of its destination: the deferred release of a job
\* that ends late never frees the claim another job has taken since.
ClaimHeld == \A j \in Job : Active(j) => claim[Target[j]] = j

\* Two jobs are never at work on one destination.
OneJobPerFile ==
  \A j, k \in Job : j # k /\ Active(j) /\ Active(k) => Target[j] # Target[k]

\* A destination never holds half a model, whatever broke or was cancelled.
WholeFiles == \A f \in File : file[f] # "partial"

\* A model that was there stays available, at its place or as a backup, through
\* failed renames, failed restores and crashes, until a new one took its place.
ModelSurvives ==
  \A f \in Present :
    \/ file[f] # "absent"
    \/ \E j \in Job : Target[j] = f /\ backup[j] # "absent"

\* Only a job that was allowed to overwrite takes a model from its place, although
\* the first look for one was before the job existed and other jobs ran since.  A
\* file that another program puts there between Lstat and Rename is not protected.
OnlyOverwriteReplaces ==
  [][\A f \in File : file[f] \notin {"absent", "foreign"} /\ file'[f] # file[f] =>
       \E j \in Overwrite : Target[j] = f /\ pc'[j] # pc[j]]_vars

\* A download cancelled before its file steps began leaves the destination alone.
Early(j) == pc[j] \in {"registered", "waiting", "starting", "opening", "transfer", "received", "flushing", "closed"}
CancelledNeverInstalls ==
  \A j \in Job : [](Early(j) /\ Cancelled(j) => [](file[Target[j]] # j))

\* When Wait returned after the HTTP server stopped, no job is left.
StoppedIsQuiet == mode = "stopped" => \A j \in Job : pc[j] \in {"new", "done"}

\* Pressing cancel once, or shutting down, ends a job wherever it is and however
\* many stalled transfers hold the slots.
CancelEnds == \A j \in Job : Cancelled(j) /\ ~Waited(j) ~> Waited(j)

\* What a destination has in store is at its place or in a backup, and a job that
\* ended or was cancelled early brings nothing more.
Past == {"cleanup", "complete", "leave", "release", "done"}
Stock(f) ==
  {c \in Content \ {"absent"} :
     file[f] = c \/ \E j \in Job : Target[j] = f /\ backup[j] = c}
Pending == {j \in Job : pc[j] \notin Past /\ ~(Early(j) /\ Cancelled(j))}

Store == INSTANCE ModelStore WITH
           stock <- [f \in File |-> Stock(f)],
           pending <- Pending

\* The manager keeps the models directory as a store: whole models only, each once
\* and never after a cancel, and none is gone before its replacement is in place.
ImplementsModelStore == Store!Spec

\* What a job sees of the transfer it runs: Receive is the return of nil.
Whole == {"received", "flushing", "closed", "replace", "backup", "swap", "install"}
Before == Starting \cup {"waiting", "starting", "opening"}
Progress(j) ==
  IF pc[j] \in Before THEN "before"
  ELSE IF pc[j] = "transfer" THEN "running"
  ELSE IF pc[j] \in Whole THEN "nil" ELSE "over"

Call(j) == INSTANCE Transfer WITH
  call <- Progress(j), whole <- part[j] = j

\* Of the transfer that a job runs the manager asks nothing but what a Transfer does,
\* and it touches the part file only before and after.
UsesTransfer ==
  /\ \A j \in Job : Call(j)!Init
  /\ [][\A j \in Job : [Call(j)!Next]_(Call(j)!vars)]_vars

-----------------------------------------------------------------------------
(* The inductive invariant behind the safety properties.                   *)

\* The occupied slots are those of the jobs past TakeSlot.
Busy == {j \in Job : pc[j] \in Working}
SlotsHeld == slots = Cardinality(Busy)

WholeParts == \A j \in Job : pc[j] \in Whole => part[j] = j

BackupsHeld ==
  /\ \A j \in Job : backup[j] # "partial"
  /\ \A j \in Job : pc[j] \in {"swap", "restore"} => backup[j] # "absent"

\* A backup is removed only while the new model is in place.
PlaceFilled == \A j \in Job : pc[j] = "cleanup" => file[Target[j]] = j

HandlersGone ==
  /\ mode \in {"waiting", "stopped"} => \A j \in Job : pc[j] \notin {"checked", "registered"}
  /\ StoppedIsQuiet

OverwriteChecked ==
  \A j \in Job : pc[j] \in {"backup", "swap", "restore", "cleanup"} => j \in Overwrite

\* Nobody but another program fills a place that was found empty.
PlaceEmpty ==
  \A j \in Job : pc[j] \in {"install", "swap", "restore"} => file[Target[j]] \in {"absent", "foreign"}

\* No backup is overwritten, and no model is anywhere before its job put it in place.
NotYet ==
  \A j \in Job :
    /\ pc[j] \notin {"swap", "restore"} \cup Past => backup[j] = "absent"
    /\ pc[j] \notin Past => (\A f \in File : file[f] # j) /\ (\A k \in Job : backup[k] # j)

IInv ==
  /\ TypeOK /\ ClaimHeld /\ SlotsHeld /\ WholeParts /\ BackupsHeld /\ PlaceFilled /\ NotYet
  /\ WholeFiles /\ ModelSurvives /\ HandlersGone /\ OverwriteChecked /\ PlaceEmpty

=============================================================================
