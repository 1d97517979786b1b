----------------------------- MODULE AppUpdate -----------------------------
(***************************************************************************)
(* Self update (package appupdate, macOS and Linux): the program prepares  *)
(* an update in the background, a detached helper process takes over,      *)
(* waits for the program to end, exchanges the installation directory and  *)
(* launches the new version, or goes back to the old one.  An advisory     *)
(* lock that the helper inherits keeps updates apart, the uploaded ZIP of  *)
(* older clients included.  Any process may die at any step.               *)
(***************************************************************************)
EXTENDS Naturals, FiniteSets

CONSTANTS
  Update,    \* updates that may be started, each with a version of its own
  Zip,       \* those started by an upload (Manager), the others are Automatic
  Faults,    \* what may go wrong, a subset of Fault
  Patient,   \* nobody launches the program by hand while a helper works
  MaxData,   \* bound on the changes of user data
  None, Base \* no content; the version installed first

\* A preparation, a file operation, the launch of the new or of the old version
\* fails, a deadline passes, the helper is killed, the program crashes.
Fault == {"prepare", "files", "launch", "relaunch", "deadline", "kill", "crash"}

ASSUME UpdatesAreNew ==
  /\ IsFiniteSet(Update) /\ Zip \subseteq Update
  /\ Faults \subseteq Fault /\ Patient \in BOOLEAN /\ MaxData \in Nat
  /\ None \notin Update /\ Base \notin Update /\ None # Base
  /\ None \notin [ver : Update \cup {Base}, data : 0 .. MaxData]
  /\ None \notin [step : {"fetch", "await"}, of : Update]
  /\ "app" \notin Update

VARIABLES
  app,      \* the life of the management program
  starter,  \* the helper that launched it and still watches it
  parent,   \* updates that this very process started
  worker,   \* the update whose prepare goroutine runs, and its step
  busy,     \* Manager.active
  helper,   \* the step of the helper process of an update
  ready,    \* updates whose launched process reported ready
  lock,     \* processes that hold the update lock open
  target,   \* the installation directory
  payload,  \* the prepared new version of an update
  backup,   \* what an update moved out of the installation directory
  status,   \* the two status files
  seen      \* status files that a Status call found active, not yet probed

appVars == <<app, starter, parent, busy, ready>>
diskVars == <<target, payload, backup>>
vars == <<appVars, worker, helper, lock, diskVars, status, seen>>

Version == Update \cup {Base}
Content == [ver : Version, data : 0 .. MaxData] \cup {None}
Kind == {"automatic", "zip"}
KindOf(u) == IF u \in Zip THEN "zip" ELSE "automatic"

\* Steps of the helper while the installation is in its hands ...
Install == {"copy", "backup", "swap", "undo", "launch", "watch", "setaside", "restore", "relaunch", "rewatch"}
Working == {"verify", "prepare", "wait", "finish", "failing", "installed", "failed"} \cup Install
\* ... and once it ended, with its update installed or not.
Ended == {"done", "gone"}

TypeOK ==
  /\ app \in {"down", "starting", "up", "closing"}
  /\ starter \in Update \cup {None}
  /\ parent \subseteq Update /\ ready \subseteq Update
  /\ worker \in [step : {"fetch", "await"}, of : Update] \cup {None}
  /\ busy \in BOOLEAN
  /\ helper \in [Update -> {"none"} \cup Working \cup Ended]
  /\ lock \subseteq Update \cup {"app"}
  /\ target \in Content
  /\ payload \in [Update -> Content] /\ backup \in [Update -> Content]
  /\ status \in [Kind -> [state : {"idle", "active", "completed", "failed"}, of : Update \cup {None}]]
  /\ seen \subseteq Kind

Init ==
  /\ app = "up" /\ starter = None /\ parent = {} /\ ready = {}
  /\ worker = None /\ busy = FALSE
  /\ helper = [u \in Update |-> "none"]
  /\ lock = {}
  /\ target = [ver |-> Base, data |-> 0]
  /\ payload = [u \in Update |-> None] /\ backup = [u \in Update |-> None]
  /\ status = [k \in Kind |-> [state |-> "idle", of |-> None]]
  /\ seen = {}

May(fault) == fault \in Faults
At(u, here, next) == helper[u] = here /\ helper' = [helper EXCEPT ![u] = next]
Tell(k, state, u) == status' = [status EXCEPT ![k] = [state |-> state, of |-> u]]

-----------------------------------------------------------------------------
(* The program.                                                            *)

Helping == \E u \in Update : helper[u] \in Working

\* A process that ends gives up what it held in memory and its lock.
Die ==
  /\ app' = "down" /\ starter' = None /\ parent' = {} /\ busy' = FALSE
  /\ worker' = None /\ lock' = lock \ {"app"} /\ seen' = {}
  /\ UNCHANGED <<ready, helper, diskVars, status>>

\* The user launches it, the port being free.
UserStart ==
  /\ app = "down" /\ target # None
  /\ Patient => ~Helping
  /\ app' = "up"
  /\ UNCHANGED <<starter, parent, busy, ready, worker, helper, lock, diskVars, status, seen>>

Quit ==
  /\ app = "up"
  /\ app' = "closing"
  /\ UNCHANGED <<starter, parent, busy, ready, worker, helper, lock, diskVars, status, seen>>

\* main returns without waiting for the goroutine of an automatic update.
Exit == app = "closing" /\ Die
Crash == May("crash") /\ app # "down" /\ Die

SaveData ==
  /\ app = "up" /\ target # None /\ target.data < MaxData
  /\ target' = [target EXCEPT !.data = @ + 1]
  /\ UNCHANGED <<appVars, worker, helper, lock, payload, backup, status, seen>>

\* ReportReady: initialised, listening and healthy.
Report ==
  /\ app = "starting"
  /\ app' = "up" /\ ready' = ready \cup ({starter} \ {None})
  /\ UNCHANGED <<starter, parent, busy, worker, helper, lock, diskVars, status, seen>>

-----------------------------------------------------------------------------
(* Starting an update.                                                     *)

\* Automatic.Start; a.mu keeps it apart from Automatic.Status.
Start(u) ==
  /\ app = "up" /\ u \notin Zip /\ helper[u] = "none"
  /\ worker = None /\ "automatic" \notin seen
  /\ lock = {}
  /\ lock' = {"app"}
  /\ worker' = [step |-> "fetch", of |-> u]
  /\ parent' = parent \cup {u}
  /\ Tell("automatic", "active", None)
  /\ UNCHANGED <<app, starter, busy, ready, helper, diskVars, seen>>

\* The goroutine returns: an error is written, the lock is closed.
PrepareEnds ==
  /\ worker' = None
  /\ lock' = lock \ {"app"}

\* No release, no space, a broken download, a cancelled context.
FetchFails ==
  /\ worker # None /\ worker.step = "fetch"
  /\ May("prepare") \/ app = "closing"
  /\ PrepareEnds
  /\ Tell("automatic", "failed", None)
  /\ helper' = [helper EXCEPT ![worker.of] = "gone"]
  /\ UNCHANGED <<appVars, diskVars, seen>>

\* Faulty: the helper opens no lock of its own.
SpawnUnlocked ==
  /\ worker # None /\ worker.step = "fetch"
  /\ worker' = [worker EXCEPT !.step = "await"]
  /\ helper' = [helper EXCEPT ![worker.of] = "verify"]
  /\ UNCHANGED <<appVars, lock, diskVars, status, seen>>

\* The helper inherits the open lock file.
Spawn ==
  /\ worker # None /\ worker.step = "fetch"
  /\ worker' = [worker EXCEPT !.step = "await"]
  /\ helper' = [helper EXCEPT ![worker.of] = "verify"]
  /\ lock' = lock \cup {worker.of}
  /\ UNCHANGED <<appVars, diskVars, status, seen>>

HelperEnded ==
  /\ worker # None /\ worker.step = "await" /\ helper[worker.of] \in Ended
  /\ PrepareEnds
  /\ Tell("automatic", "failed", None)
  /\ UNCHANGED <<appVars, helper, diskVars, seen>>

\* Quitting, or a preparation that takes too long, kills the helper.
KillHelper ==
  /\ worker # None /\ worker.step = "await"
  /\ app = "closing" \/ May("deadline")
  /\ worker' = None
  /\ lock' = lock \ {"app", worker.of}
  /\ helper' = [helper EXCEPT ![worker.of] = "gone"]
  /\ Tell("automatic", "failed", None)
  /\ UNCHANGED <<appVars, diskVars, seen>>

\* The helper has left its handoff: the program shuts itself down.
Handoff ==
  /\ worker # None /\ worker.step = "await" /\ helper[worker.of] = "wait"
  /\ PrepareEnds
  /\ app' = "closing"
  /\ UNCHANGED <<starter, parent, busy, ready, helper, diskVars, status, seen>>

\* Manager.Start runs under m.mu to the end; its own lock is closed with it.
StartZip(u) ==
  /\ app = "up" /\ u \in Zip /\ helper[u] = "none"
  /\ ~busy /\ "zip" \notin seen
  /\ lock = {}
  /\ Tell("zip", "active", u)
  /\ \/ /\ busy' = TRUE /\ lock' = {u} /\ parent' = parent \cup {u}
        /\ helper' = [helper EXCEPT ![u] = "verify"]
     \/ /\ May("prepare")
        /\ helper' = [helper EXCEPT ![u] = "gone"]
        /\ UNCHANGED <<busy, lock, parent>>
  /\ UNCHANGED <<app, starter, ready, worker, diskVars, seen>>

-----------------------------------------------------------------------------
(* The helper before the exchange.                                         *)

\* It ends, and the last descriptor of the lock is closed with the process.
End(u, how) == helper' = [helper EXCEPT ![u] = how] /\ lock' = lock \ {u}

\* The deferred status of a failure, and the end of the process.
Fail(u) ==
  /\ At(u, "failing", "failed")
  /\ Tell(KindOf(u), "failed", u)
  /\ UNCHANGED <<appVars, worker, lock, diskVars, seen>>

FailEnds(u) ==
  /\ helper[u] = "failed"
  /\ End(u, "gone")
  /\ UNCHANGED <<appVars, worker, diskVars, status, seen>>

\* The release and the download are verified a second time.
Verify(u) ==
  /\ \/ /\ At(u, "verify", "prepare")
        /\ Tell(KindOf(u), "active", u)
     \/ /\ May("prepare")
        /\ At(u, "verify", "failing") /\ UNCHANGED status
  /\ UNCHANGED <<appVars, worker, lock, diskVars, seen>>

\* The payload stands beside the installation; the program is told to stop, by
\* the handoff file or, after an upload, by a signal.
Prepare(u) ==
  /\ \/ /\ At(u, "prepare", "wait")
        /\ payload' = [payload EXCEPT ![u] = [ver |-> u, data |-> 0]]
        /\ Tell(KindOf(u), "active", u)
        /\ app' = IF u \in Zip \cap parent /\ app = "up" THEN "closing" ELSE app
     \/ /\ May("prepare")
        /\ At(u, "prepare", "failing")
        /\ UNCHANGED <<app, payload, status>>
  /\ UNCHANGED <<starter, parent, busy, ready, worker, lock, target, backup, seen>>

\* Faulty: the end of the program is not waited for.
ParentGoneAnyway(u) ==
  /\ At(u, "wait", "copy")
  /\ UNCHANGED <<appVars, worker, lock, diskVars, status, seen>>

ParentGone(u) ==
  /\ u \notin parent
  /\ At(u, "wait", "copy")
  /\ UNCHANGED <<appVars, worker, lock, diskVars, status, seen>>

ParentStays(u) ==
  /\ May("deadline") /\ u \in parent
  /\ At(u, "wait", "failing")
  /\ UNCHANGED <<appVars, worker, lock, diskVars, status, seen>>

-----------------------------------------------------------------------------
(* The exchange.                                                           *)

\* Faulty: the new version starts with the data of its package.
CopyDataNot(u) ==
  /\ At(u, "copy", "backup")
  /\ UNCHANGED <<appVars, worker, lock, diskVars, status, seen>>

CopyData(u) ==
  /\ \/ /\ At(u, "copy", "backup")
        /\ payload' = [payload EXCEPT ![u].data = IF target = None THEN 0 ELSE target.data]
     \/ /\ May("files")
        /\ At(u, "copy", "relaunch") /\ UNCHANGED payload
  /\ UNCHANGED <<appVars, worker, lock, target, backup, status, seen>>

BackUp(u) ==
  /\ \/ /\ target # None
        /\ At(u, "backup", "swap")
        /\ backup' = [backup EXCEPT ![u] = target] /\ target' = None
     \/ /\ May("files") \/ target = None
        /\ At(u, "backup", "relaunch") /\ UNCHANGED <<target, backup>>
  /\ UNCHANGED <<appVars, worker, lock, payload, status, seen>>

\* Faulty: the backup is dropped when the new version is in place.
SwapDroppingBackup(u) ==
  /\ At(u, "swap", "launch")
  /\ target' = payload[u] /\ payload' = [payload EXCEPT ![u] = None]
  /\ backup' = [backup EXCEPT ![u] = None]
  /\ UNCHANGED <<appVars, worker, lock, status, seen>>

Swap(u) ==
  /\ \/ /\ At(u, "swap", "launch")
        /\ target' = payload[u] /\ payload' = [payload EXCEPT ![u] = None]
     \/ /\ May("files")
        /\ At(u, "swap", "undo") /\ UNCHANGED <<target, payload>>
  /\ UNCHANGED <<appVars, worker, lock, backup, status, seen>>

\* A backup that cannot be moved back stays where it is; after an upload the
\* status is left as it was.
GiveUp(u) ==
  /\ May("files")
  /\ \/ At(u, "setaside", "failing")
     \/ \E here \in {"undo", "restore"} : At(u, here, IF u \in Zip THEN "failed" ELSE "failing")
  /\ UNCHANGED <<appVars, worker, lock, diskVars, status, seen>>

\* Faulty: the files are put back and nobody starts them.
MoveBackQuietly(u) ==
  /\ At(u, "undo", "failing") \/ At(u, "restore", "failing")
  /\ target' = backup[u] /\ backup' = [backup EXCEPT ![u] = None]
  /\ UNCHANGED <<appVars, worker, lock, payload, status, seen>>

MoveBack(u) ==
  /\ At(u, "undo", "relaunch") \/ At(u, "restore", "relaunch")
  /\ target' = backup[u] /\ backup' = [backup EXCEPT ![u] = None]
  /\ UNCHANGED <<appVars, worker, lock, payload, status, seen>>

\* launchReadyCommand: the process starts, or finds the port taken and ends.
Launch(u) ==
  /\ At(u, "launch", "watch") \/ At(u, "relaunch", "rewatch")
  /\ ready' = ready \ {u}
  /\ IF app = "down" /\ target # None
     THEN app' = "starting" /\ starter' = u
     ELSE UNCHANGED <<app, starter>>
  /\ UNCHANGED <<parent, busy, worker, lock, diskVars, status, seen>>

\* The launched process ends by itself before it was accepted.
Stumble ==
  /\ starter # None /\ app \in {"starting", "up"}
  /\ May(IF helper[starter] = "watch" THEN "launch" ELSE "relaunch")
  /\ Die

\* Faulty: a process that lives is taken for one that works.
AcceptUnasked(u) ==
  /\ starter = u
  /\ At(u, "watch", "finish") \/ At(u, "rewatch", "failing")
  /\ starter' = None
  /\ UNCHANGED <<app, parent, busy, ready, worker, lock, diskVars, status, seen>>

Accept(u) ==
  /\ u \in ready /\ starter = u
  /\ At(u, "watch", "finish") \/ At(u, "rewatch", "failing")
  /\ starter' = None
  /\ UNCHANGED <<app, parent, busy, ready, worker, lock, diskVars, status, seen>>

Missed(u) == May(IF helper[u] = "watch" THEN "launch" ELSE "relaunch")

\* Faulty: a version that ended by itself is left installed.
RejectLeavingIt(u) ==
  /\ starter # u
  /\ At(u, "watch", "failing") \/ At(u, "rewatch", "failing")
  /\ UNCHANGED <<appVars, worker, lock, diskVars, status, seen>>

\* It ended, or did not report in time and is killed with its whole group.
Reject(u) ==
  /\ \/ /\ starter # u
        /\ UNCHANGED <<app, starter, parent, busy, worker, lock, seen>>
     \/ /\ starter = u /\ Missed(u)
        /\ app' = "down" /\ starter' = None /\ parent' = {} /\ busy' = FALSE
        /\ worker' = None /\ lock' = lock \ {"app"} /\ seen' = {}
  /\ At(u, "watch", "setaside") \/ At(u, "rewatch", "failing")
  /\ UNCHANGED <<ready, diskVars, status>>

\* The new version is kept aside for inspection.
SetAside(u) ==
  /\ At(u, "setaside", "restore")
  /\ payload' = [payload EXCEPT ![u] = target] /\ target' = None
  /\ UNCHANGED <<appVars, worker, lock, backup, status, seen>>

Finish(u) ==
  /\ At(u, "finish", "installed")
  /\ Tell(KindOf(u), "completed", u)
  /\ UNCHANGED <<appVars, worker, lock, diskVars, seen>>

InstalledEnds(u) ==
  /\ helper[u] = "installed"
  /\ End(u, "done")
  /\ UNCHANGED <<appVars, worker, diskVars, status, seen>>

HelperKilled(u) ==
  /\ May("kill") /\ helper[u] \in Working
  /\ End(u, "gone")
  /\ starter' = IF starter = u THEN None ELSE starter
  /\ UNCHANGED <<app, parent, busy, ready, worker, diskVars, status, seen>>

-----------------------------------------------------------------------------
(* Status: an update that seems to go on is failed when nobody holds its   *)
(* lock.  The file is read first and the lock probed after.                *)

LooksActive(k) == IF k = "automatic" THEN worker = None ELSE TRUE

ReadStatus(k) ==
  /\ app = "up" /\ k \notin seen
  /\ status[k].state = "active" /\ LooksActive(k)
  /\ seen' = seen \cup {k}
  /\ UNCHANGED <<appVars, worker, helper, lock, diskVars, status>>

\* Manager.Status notices the end of its own helper.
ReadEnd ==
  /\ app = "up" /\ busy
  /\ status["zip"].state \in {"completed", "failed"}
  /\ busy' = FALSE
  /\ UNCHANGED <<app, starter, parent, ready, worker, helper, lock, diskVars, status, seen>>

\* Faulty: the lock is taken for held by whoever probes it.
ProbeNothing(k) ==
  /\ k \in seen /\ seen' = seen \ {k}
  /\ UNCHANGED <<appVars, worker, helper, lock, diskVars, status>>

Probe(k) ==
  /\ k \in seen /\ seen' = seen \ {k}
  /\ IF lock = {}
     THEN /\ status' = [status EXCEPT ![k].state = "failed"]
          /\ busy' = IF k = "zip" THEN FALSE ELSE busy
     ELSE UNCHANGED <<busy, status>>
  /\ UNCHANGED <<app, starter, parent, ready, worker, helper, lock, diskVars>>

-----------------------------------------------------------------------------
Program ==
  \/ UserStart \/ Quit \/ SaveData \/ Crash \/ Stumble
  \/ \E u \in Update : Start(u) \/ StartZip(u)

Background ==
  \/ Exit \/ Report \/ FetchFails \/ Spawn \/ HelperEnded \/ KillHelper \/ Handoff
  \/ ReadEnd \/ \E k \in Kind : ReadStatus(k) \/ Probe(k)

Help(u) ==
  \/ Fail(u) \/ FailEnds(u) \/ Verify(u) \/ Prepare(u) \/ ParentGone(u) \/ ParentStays(u)
  \/ CopyData(u) \/ BackUp(u) \/ Swap(u) \/ GiveUp(u) \/ MoveBack(u) \/ Launch(u)
  \/ Accept(u) \/ Reject(u) \/ SetAside(u) \/ Finish(u) \/ InstalledEnds(u)

Next ==
  \/ Program \/ Background
  \/ \E u \in Update : Help(u) \/ HelperKilled(u)

Spec == Init /\ [][Next]_vars

\* Processes run, the page keeps asking for the status; users and faults need not act.
FairSpec ==
  /\ Spec
  /\ WF_vars(Exit) /\ WF_vars(Report) /\ WF_vars(HelperEnded) /\ WF_vars(KillHelper)
  /\ WF_vars(Handoff) /\ WF_vars(Spawn) /\ WF_vars(ReadEnd)
  /\ \A k \in Kind : SF_vars(ReadStatus(k)) /\ WF_vars(Probe(k))
  /\ \A u \in Update : WF_vars(Help(u))

-----------------------------------------------------------------------------
(* Properties.                                                             *)

\* At most one installer works at a time, whichever way the updates were
\* started and whatever died meanwhile: the lock lives as long as any process
\* that holds it open (acquireUpdateLock).
OneInstaller == \A u, v \in Update : helper[u] \in Working /\ helper[v] \in Working => u = v

Holds(content, v) == content # None /\ content.ver = v

\* The version installed first, and those that started and were confirmed.
Proven == {Base} \cup {u \in Update : helper[u] \in {"finish", "installed", "done"}}

\* A version that once worked is never lost: it is installed, or an update
\* moved it aside where it can be put back, after any failure, kill or crash.
ProvenIsKept ==
  \A v \in Proven : Holds(target, v) \/ \E u \in Update : Holds(backup[u], v)

\* Where no file operation fails, an update that says it failed has put the
\* version it found back, or never moved it, and one that ended well is installed.
AllOrNothing ==
  /\ \A u \in Update : helper[u] \in {"failing", "failed"} => target # None /\ target.ver # u
  /\ \A u \in Update : helper[u] \in {"finish", "installed"} => Holds(target, u)

\* The new version goes in place with the user data the old one left there,
\* though they are copied two steps earlier (copyPath, then the two renames).
DataIsCarried ==
  [][\A u \in Update : helper[u] = "swap" /\ helper'[u] = "launch" =>
       target'.data = backup[u].data]_vars

\* The installation is exchanged, or exchanged back, only while no process runs
\* from it.
NeverUnderARunningProgram ==
  [][(target = None) # (target' = None) => app = "down"]_vars

\* A status file says completed only while the version is installed, ran, and
\* reported for itself.
CompletedRan ==
  [][\A u \in Update, k \in Kind :
       status'[k] = [state |-> "completed", of |-> u] /\ status'[k] # status[k] =>
         Holds(target, u) /\ u \in ready]_vars

\* An update reported completed is not reported failed afterwards.
CompletedStays ==
  [][\A u \in Update, k \in Kind :
       status[k] = [state |-> "completed", of |-> u] => status'[k] # [state |-> "failed", of |-> u]]_vars

\* No update seems to go on for ever: whatever killed its helper, a program
\* that runs tells in the end (Status probes the lock).
UpdateResolves ==
  \A k \in Kind : (app = "up" /\ status[k].state = "active") ~> (app # "up" \/ status[k].state # "active")

\* Once the helper took over, the program runs again: the new version, or the
\* old one when the new one does not start.
ProgramComesBack == \A u \in Update : helper[u] = "copy" ~> app = "up"

-----------------------------------------------------------------------------
(* The inductive invariant: who holds the lock, and what each step of a     *)
(* helper knows of the disk and of the program.                             *)

LockIsHeld ==
  /\ \A u \in Update : helper[u] \in Working => u \in lock
  /\ \A u, v \in lock \cap Update : u = v
  /\ worker # None => /\ app # "down" /\ "app" \in lock
                      /\ worker.of \in parent
                      /\ worker.step = "fetch" => lock = {"app"} /\ helper[worker.of] = "none"
                      /\ lock \subseteq {"app", worker.of}

Before == {"none", "verify", "prepare", "wait", "copy", "backup"}

DiskOfStep(u) ==
  /\ helper[u] \in Before => backup[u] = None
  /\ helper[u] \in {"wait", "copy", "backup", "swap"} => Holds(payload[u], u)
  /\ helper[u] \in {"swap", "undo", "restore"} => target = None
  /\ helper[u] \in {"swap", "undo", "launch", "watch", "setaside", "restore"} => backup[u] # None
  /\ helper[u] \in {"launch", "watch", "setaside", "finish", "installed"} => Holds(target, u)

OnDisk == \A u \in Update : DiskOfStep(u)

\* Nobody installs a version before its own update does.
VersionsAreNew ==
  /\ \A u \in Update : helper[u] \in Before => ~Holds(target, u)
  /\ \A u, v \in Update : helper[u] \in Before \/ u = v => ~Holds(backup[v], u)

\* What a patient user leaves alone.
Undisturbed ==
  Patient =>
    /\ \A u \in Update :
         /\ helper[u] \in {"verify", "prepare", "wait"} => app = "down" \/ u \in parent
         /\ helper[u] \in {"copy", "backup", "swap", "undo", "launch", "setaside", "restore", "relaunch"} => app = "down"
         /\ helper[u] \in {"watch", "rewatch"} => app = "down" \/ starter = u
         /\ helper[u] = "backup" => target # None /\ payload[u].data = target.data
         /\ helper[u] = "swap" => payload[u].data = backup[u].data
    /\ target = None =>
         /\ app = "down"
         /\ \A u \in Update : helper[u] \in Working => helper[u] \in {"swap", "undo", "restore", "failing", "failed"}

\* Where files can be moved, an update that goes back goes back to the old version.
GoesBack ==
  Patient /\ "files" \notin Faults =>
    /\ AllOrNothing
    /\ \A u \in Update : helper[u] \in {"relaunch", "rewatch"} => target # None /\ target.ver # u

\* Whoever was accepted has reported, and nobody takes the report back before the end.
AcceptedReported == \A u \in Update : helper[u] = "finish" => u \in ready

IInv == TypeOK /\ LockIsHeld /\ OnDisk /\ VersionsAreNew /\ ProvenIsKept /\ Undisturbed /\ GoesBack

\* The old version is out of its place, or the new one in it on trial.
Moving == {"swap", "undo", "restore"}
Trial == {"launch", "watch", "setaside"}

\* Who watches the program and who waits for it; while nothing is installed a
\* helper that goes on holds what was.
HandsOn ==
  /\ starter # None => app # "down"
  /\ \A u \in parent : helper[u] \in {"none", "verify", "prepare", "wait", "failing", "failed", "gone"}
  /\ Patient /\ {"files", "kill"} \cap Faults = {} /\ target = None =>
       \E u \in Update : helper[u] \in Moving

\* What the helper at one of these steps moved aside.
MovedAside(steps) == backup[CHOOSE u \in Update : helper[u] \in steps]

Current == IF target # None THEN target ELSE MovedAside(Moving)
Fallback == IF \E u \in Update : helper[u] \in Trial THEN MovedAside(Trial) ELSE None

\* Where files can be moved, no helper is killed and nobody launches the program by
\* hand, an update is one exchange that is confirmed or taken back.
Installed == INSTANCE Installation WITH
  installed <- Current, running <- app # "down", fallback <- Fallback
ImplementsInstallation == Installed!Spec
=============================================================================
