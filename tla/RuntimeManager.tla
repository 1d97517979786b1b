--------------------------- MODULE RuntimeManager ---------------------------
(***************************************************************************)
(* llamacpp.Manager: one managed inference runtime (llama-server or        *)
(* mlx-server) as a child process of Tanpopo.  Every operation runs under  *)
(* the manager's mutex, but a stop releases it while it waits, and three   *)
(* goroutines per child (wait, monitorReady and the callers of stop)       *)
(* interleave with later starts.  runtime-state.json survives a crash and  *)
(* decides what Restore loads at the next launch.                          *)
(***************************************************************************)
EXTENDS Naturals

CONSTANTS
  Proc,     \* child processes (one exec.Cmd each); bounds the number of starts
  Model,    \* model paths
  Session,  \* cluster sessions that may reserve the runtime
  Caller,   \* concurrent callers of Stop and Shutdown
  None

ASSUME NoneIsFresh == None \notin Proc \cup Model \cup Session

VARIABLES
  status,     \* m.status: what the API reports
  cmd,        \* m.cmd
  stopping,   \* m.stopping
  owner,      \* m.distributedOwner
  disk,       \* runtime-state.json
  proc,       \* the operating system's view of each child
  monitor,    \* the monitorReady goroutine of each child
  stopper,    \* each call of Stop or Shutdown
  before,     \* history: the children alive when that call began
  present,    \* model files on disk
  phase       \* the program: before, during and after Restore

vars == <<status, cmd, stopping, owner, disk, proc, monitor, stopper, before,
          present, phase>>

Role == {"single", "coordinator", "worker"}

Status == [running : BOOLEAN, ready : BOOLEAN, desired : BOOLEAN,
           failed : BOOLEAN, role : Role, model : Model \cup {None}]

Saved == [desired : BOOLEAN, model : Model \cup {None}]

ProcState ==
  {"unused", "loading", "listening", "killed", "exited", "reaped", "orphan"}
MonitorState == {"off", "check", "probe", "answer", "ready"}
StopState == [pc : {"idle", "waiting", "killing", "ok", "deadline"},
              target : Proc \cup {None}]
Phase == {"restoring", "failing", "serving", "down"}

TypeOK ==
  /\ status \in Status
  /\ cmd \in Proc \cup {None}
  /\ stopping \in BOOLEAN
  /\ owner \in Session \cup {None}
  /\ disk \in Saved
  /\ proc \in [Proc -> ProcState]
  /\ monitor \in [Proc -> MonitorState]
  /\ stopper \in [Caller -> StopState]
  /\ before \in [Caller -> SUBSET Proc]
  /\ present \in SUBSET Model
  /\ phase \in Phase

Idle == [pc |-> "idle", target |-> None]
AliveStates == {"loading", "listening"}
Alive == {p \in Proc : proc[p] \in AliveStates}

\* What NewManager reports from the state file before anything runs.
Reported(saved) ==
  [running |-> FALSE, ready |-> FALSE, desired |-> saved.desired,
   failed |-> FALSE, role |-> "single", model |-> saved.model]

Init ==
  /\ disk = [desired |-> FALSE, model |-> None]
  /\ status = Reported(disk)
  /\ cmd = None
  /\ stopping = FALSE
  /\ owner = None
  /\ proc = [p \in Proc |-> "unused"]
  /\ monitor = [p \in Proc |-> "off"]
  /\ stopper = [c \in Caller |-> Idle]
  /\ before = [c \in Caller |-> {}]
  /\ present = Model
  /\ phase = "restoring"

-----------------------------------------------------------------------------
(* Starting.  A refused start (validation, memory protection, a conversion *)
(* not confirmed, exec failing) changes nothing.                           *)

\* Faulty: the status keeps the wish although it could not be saved.
StartedStatusWishful(m, role, written) ==
  [running |-> TRUE, ready |-> FALSE, desired |-> TRUE, failed |-> FALSE,
   role |-> IF written THEN role ELSE "single", model |-> m]

StartedStatus(m, role, written) ==
  [running |-> TRUE, ready |-> FALSE, desired |-> written, failed |-> FALSE,
   role |-> IF written THEN role ELSE "single", model |-> m]

\* startLocked once the child is created; written is the outcome of
\* persistStatusLocked, whose failure cancels the start by killing the child.
StartLocked(p, m, role, written) ==
  /\ ~status.running
  /\ m \in present
  /\ proc[p] = "unused"
  /\ cmd' = p
  /\ stopping' = ~written
  /\ proc' = [proc EXCEPT ![p] = IF written THEN "loading" ELSE "killed"]
  /\ monitor' = [monitor EXCEPT ![p] = IF role = "worker" THEN "off" ELSE "check"]
  /\ status' = StartedStatus(m, role, written)
  /\ disk' = IF written THEN [desired |-> role = "single", model |-> m] ELSE disk
  /\ UNCHANGED <<owner, stopper, before, present>>

Start(p, m, written) ==
  /\ phase = "serving"
  /\ owner = None
  /\ StartLocked(p, m, "single", written)
  /\ UNCHANGED phase

StartRing(s, p, m, role, written) ==
  /\ phase = "serving"
  /\ owner = s
  /\ role # "single"
  /\ StartLocked(p, m, role, written)
  /\ UNCHANGED phase

ReserveRing(s) ==
  /\ phase = "serving"
  /\ owner = None
  /\ owner' = s
  /\ UNCHANGED <<status, cmd, stopping, disk, proc, monitor, stopper, before,
                 present, phase>>

ReleaseRing(s) ==
  /\ phase = "serving"
  /\ owner = s
  /\ owner' = None
  /\ UNCHANGED <<status, cmd, stopping, disk, proc, monitor, stopper, before,
                 present, phase>>

\* Faulty: a model still loading counts as unused.
InUseWhenReady(m) == status.ready /\ status.model = m

\* ActiveModelMatches, under the lock.
InUse(m) == status.running /\ status.model = m

\* A model may be deleted while the manager's lock shows it is not running.
DeleteStoredModel(m) ==
  /\ phase = "serving"
  /\ m \in present
  /\ ~InUse(m)
  /\ present' = present \ {m}
  /\ UNCHANGED <<status, cmd, stopping, owner, disk, proc, monitor, stopper,
                 before, phase>>

-----------------------------------------------------------------------------
(* Stopping.                                                               *)

Running == status.running /\ cmd # None

\* The locked part of stop: clear is TRUE for Stop and FALSE for Shutdown.
\* The state file is written before anything is stopped; when it cannot be
\* written, the call returns the error and everything is as it was.
StopBegin(c, clear, written) ==
  /\ phase = "serving"
  /\ stopper[c].pc = "idle"
  /\ clear => written
  /\ status' = IF clear THEN [status EXCEPT !.desired = FALSE] ELSE status
  /\ disk' = IF clear THEN [desired |-> FALSE, model |-> status.model] ELSE disk
  /\ stopping' = (stopping \/ Running)
  /\ stopper' = [stopper EXCEPT
       ![c] = IF Running THEN [pc |-> "waiting", target |-> cmd]
                         ELSE [pc |-> "ok", target |-> None]]
  /\ before' = [before EXCEPT ![c] = Alive]
  /\ UNCHANGED <<cmd, owner, proc, monitor, present, phase>>

Killed(p) == [proc EXCEPT ![p] = IF @ \in AliveStates THEN "killed" ELSE @]

\* wait closed the done channel of the command this call captured.
StopDone(c) ==
  /\ stopper[c].pc \in {"waiting", "killing"}
  /\ proc[stopper[c].target] = "reaped"
  /\ stopper' = [stopper EXCEPT ![c].pc = "ok"]
  /\ UNCHANGED <<status, cmd, stopping, owner, disk, proc, monitor, before,
                 present, phase>>

\* Faulty: the context ends and the child is left alone.
StopDeadlineWithoutKill(c) ==
  /\ stopper[c].pc \in {"waiting", "killing"}
  /\ stopper' = [stopper EXCEPT ![c].pc = "deadline"]
  /\ UNCHANGED <<status, cmd, stopping, owner, disk, proc, monitor, before,
                 present, phase>>

\* The caller's context ends first: kill if the timer has not done so already.
StopDeadline(c) ==
  /\ stopper[c].pc \in {"waiting", "killing"}
  /\ proc' = IF stopper[c].pc = "waiting" THEN Killed(stopper[c].target) ELSE proc
  /\ stopper' = [stopper EXCEPT ![c].pc = "deadline"]
  /\ UNCHANGED <<status, cmd, stopping, owner, disk, monitor, before, present,
                 phase>>

\* Faulty: the timer only starts the second wait.
StopTimerWithoutKill(c) ==
  /\ stopper[c].pc = "waiting"
  /\ stopper' = [stopper EXCEPT ![c].pc = "killing"]
  /\ UNCHANGED <<status, cmd, stopping, owner, disk, proc, monitor, before,
                 present, phase>>

\* Eight seconds after the interrupt.
StopTimer(c) ==
  /\ stopper[c].pc = "waiting"
  /\ proc' = Killed(stopper[c].target)
  /\ stopper' = [stopper EXCEPT ![c].pc = "killing"]
  /\ UNCHANGED <<status, cmd, stopping, owner, disk, monitor, before, present,
                 phase>>

StopReturn(c) ==
  /\ stopper[c].pc \in {"ok", "deadline"}
  /\ stopper' = [stopper EXCEPT ![c] = Idle]
  /\ before' = [before EXCEPT ![c] = {}]
  /\ UNCHANGED <<status, cmd, stopping, owner, disk, proc, monitor, present,
                 phase>>

-----------------------------------------------------------------------------
(* The child process and its two goroutines.                               *)

\* The model is loaded and the child's server accepts connections.
Listen(p) ==
  /\ proc[p] = "loading"
  /\ proc' = [proc EXCEPT ![p] = "listening"]
  /\ UNCHANGED <<status, cmd, stopping, owner, disk, monitor, stopper, before,
                 present, phase>>

\* The child ends by itself, after an interrupt or after a kill.
Exit(p) ==
  /\ phase # "down"
  /\ proc[p] \in AliveStates \cup {"killed"}
  /\ proc' = [proc EXCEPT ![p] = "exited"]
  /\ UNCHANGED <<status, cmd, stopping, owner, disk, monitor, stopper, before,
                 present, phase>>

\* Faulty: wait does not ask whether its command is still the current one.
WaitsForAny(p) == cmd # None

WaitsForCurrent(p) == cmd = p

\* wait: failure is whether command.Wait returned an error.
Reap(p, failure) ==
  /\ proc[p] = "exited"
  /\ proc' = [proc EXCEPT ![p] = "reaped"]
  /\ IF WaitsForCurrent(p)
     THEN /\ status' = [status EXCEPT !.running = FALSE, !.ready = FALSE,
                                      !.failed = failure /\ ~stopping]
          /\ cmd' = None
          /\ stopping' = FALSE
     ELSE UNCHANGED <<status, cmd, stopping>>
  /\ UNCHANGED <<owner, disk, monitor, stopper, before, present, phase>>

MonitorCheck(p) ==
  /\ monitor[p] = "check"
  /\ monitor' = [monitor EXCEPT ![p] =
                   IF cmd = p /\ status.running THEN "probe" ELSE "off"]
  /\ UNCHANGED <<status, cmd, stopping, owner, disk, proc, stopper, before,
                 present, phase>>

\* Whoever listens on the configured address answers the health request: the
\* child itself, or a runtime left over from an earlier launch.
Answers(p) == proc[p] = "listening" \/ \E q \in Proc : proc[q] = "orphan"

MonitorProbe(p) ==
  /\ monitor[p] = "probe"
  /\ \/ Answers(p) /\ monitor' = [monitor EXCEPT ![p] = "answer"]
     \/ monitor' = [monitor EXCEPT ![p] = "check"]
  /\ UNCHANGED <<status, cmd, stopping, owner, disk, proc, stopper, before,
                 present, phase>>

\* Faulty: the health answer is believed without a second look at m.cmd.
MonitorSettleUnchecked(p) ==
  /\ monitor[p] = "answer"
  /\ status' = [status EXCEPT !.ready = TRUE]
  /\ monitor' = [monitor EXCEPT ![p] = "ready"]
  /\ UNCHANGED <<cmd, stopping, owner, disk, proc, stopper, before, present,
                 phase>>

MonitorSettle(p) ==
  /\ monitor[p] = "answer"
  /\ IF cmd = p /\ status.running
     THEN /\ status' = [status EXCEPT !.ready = TRUE]
          /\ monitor' = [monitor EXCEPT ![p] = "ready"]
     ELSE /\ monitor' = [monitor EXCEPT ![p] = "off"]
          /\ UNCHANGED status
  /\ UNCHANGED <<cmd, stopping, owner, disk, proc, stopper, before, present,
                 phase>>

-----------------------------------------------------------------------------
(* Launch, Restore and the end of the program.                             *)

\* The program ends, orderly or not.  A ring runtime sees its standard input
\* close; a single one has no tie to its parent and lives on.
Down ==
  /\ phase # "down"
  /\ phase' = "down"
  /\ status' = Reported(disk)
  /\ cmd' = None
  /\ stopping' = FALSE
  /\ owner' = None
  /\ proc' = [p \in Proc |->
                CASE proc[p] \in {"unused", "orphan"} -> proc[p]
                  [] proc[p] \in AliveStates /\ status.role = "single" -> "orphan"
                  [] OTHER -> "reaped"]
  /\ monitor' = [p \in Proc |-> "off"]
  /\ stopper' = [c \in Caller |-> Idle]
  /\ before' = [c \in Caller |-> {}]
  /\ UNCHANGED <<disk, present>>

\* NewManager reads the state file.
Up ==
  /\ phase = "down"
  /\ phase' = "restoring"
  /\ UNCHANGED <<status, cmd, stopping, owner, disk, proc, monitor, stopper,
                 before, present>>

OrphanExit(p) ==
  /\ proc[p] = "orphan"
  /\ proc' = [proc EXCEPT ![p] = "reaped"]
  /\ UNCHANGED <<status, cmd, stopping, owner, disk, monitor, stopper, before,
                 present, phase>>

RestoreNothing ==
  /\ phase = "restoring"
  /\ ~disk.desired
  /\ phase' = "serving"
  /\ UNCHANGED <<status, cmd, stopping, owner, disk, proc, monitor, stopper,
                 before, present>>

RestoreStart(p, written) ==
  /\ phase = "restoring"
  /\ disk.desired
  /\ StartLocked(p, disk.model, "single", written)
  /\ phase' = IF written THEN "serving" ELSE "failing"

\* The profile is gone or changed, the model is missing, or Start refused.
RestoreRefused ==
  /\ phase = "restoring"
  /\ disk.desired
  /\ phase' = "failing"
  /\ UNCHANGED <<status, cmd, stopping, owner, disk, proc, monitor, stopper,
                 before, present>>

\* Faulty: the child of the failed start is reported as if it were running on.
RestoreGiveUpKeepsRunning(written) ==
  /\ phase = "failing"
  /\ phase' = "serving"
  /\ stopping' = FALSE
  /\ status' = [status EXCEPT !.desired = FALSE, !.failed = TRUE]
  /\ disk' = IF written THEN [desired |-> FALSE, model |-> status.model] ELSE disk
  /\ UNCHANGED <<cmd, owner, proc, monitor, stopper, before, present>>

\* The second critical section of Restore, after Start returned an error.
RestoreGiveUp(written) ==
  /\ phase = "failing"
  /\ phase' = "serving"
  /\ status' = [status EXCEPT !.running = FALSE, !.desired = FALSE, !.failed = TRUE]
  /\ disk' = IF written THEN [desired |-> FALSE, model |-> status.model] ELSE disk
  /\ UNCHANGED <<cmd, stopping, owner, proc, monitor, stopper, before, present>>

-----------------------------------------------------------------------------
Next ==
  \/ \E p \in Proc, m \in Model, written \in BOOLEAN : Start(p, m, written)
  \/ \E s \in Session, p \in Proc, m \in Model, role \in Role, written \in BOOLEAN :
        StartRing(s, p, m, role, written)
  \/ \E s \in Session : ReserveRing(s) \/ ReleaseRing(s)
  \/ \E m \in Model : DeleteStoredModel(m)
  \/ \E c \in Caller, clear, written \in BOOLEAN : StopBegin(c, clear, written)
  \/ \E c \in Caller : StopDone(c) \/ StopDeadline(c) \/ StopTimer(c) \/ StopReturn(c)
  \/ \E p \in Proc : Listen(p) \/ Exit(p) \/ OrphanExit(p)
  \/ \E p \in Proc, failure \in BOOLEAN : Reap(p, failure)
  \/ \E p \in Proc : MonitorCheck(p) \/ MonitorProbe(p) \/ MonitorSettle(p)
  \/ Down
  \/ Up
  \/ RestoreNothing
  \/ \E p \in Proc, written \in BOOLEAN : RestoreStart(p, written)
  \/ RestoreRefused
  \/ \E written \in BOOLEAN : RestoreGiveUp(written)

Spec == Init /\ [][Next]_vars

\* The operating system ends a killed child, the wait goroutine runs, and the
\* eight-second timer of a stop fires.
Fairness ==
  /\ \A p \in Proc : WF_vars(proc[p] = "killed" /\ Exit(p))
  /\ \A p \in Proc : WF_vars(\E failure \in BOOLEAN : Reap(p, failure))
  /\ \A c \in Caller : WF_vars(StopTimer(c)) /\ WF_vars(StopDone(c))

FairSpec == Spec /\ Fairness

-----------------------------------------------------------------------------
(* Properties.                                                             *)

\* No runtime is ever leaked by the running program: a child that nobody has
\* killed is the one m.cmd points at and the status reports, so Stop reaches
\* it and a second Start is refused.  A stale wait or a start racing a restore
\* would break it.
OneLiveRuntime ==
  \A p \in Alive : cmd = p /\ status.running

\* Readiness belongs to the child now in charge: a health answer obtained for
\* an earlier child must not mark a later one ready.
ReadyIsCurrent ==
  status.ready => cmd # None /\ monitor[cmd] = "ready"

\* When Stop or Shutdown returns (nil, or its deadline), none of the children
\* that were alive when it was called is still running undisturbed.
StopReturnsStopped ==
  \A c \in Caller :
    stopper[c].pc \in {"ok", "deadline"} => before[c] \cap Alive = {}

\* The state the API calls desired is durable: while a single-machine runtime
\* is desired, the state file would restore exactly the model in the status.
DesiredIsDurable ==
  status.desired /\ status.role = "single" /\ phase # "down" =>
    disk = [desired |-> TRUE, model |-> status.model]

\* The file of the model in use stays: DeleteStoredModel checks and deletes
\* under the lock Start and Stop take.
ModelInUseIsPresent == status.running => status.model \in present

\* A runtime asked to stop does stop: the call that set m.stopping kills it
\* after eight seconds even if it ignores the interrupt.  No call of Stop or
\* Shutdown hangs, the later one that finds the stop under way included.
StoppingEnds ==
  /\ (status.running /\ stopping) ~> ~status.running
  /\ \A c \in Caller : stopper[c].pc = "waiting" ~> stopper[c].pc \notin {"waiting", "killing"}

\* monitorReady takes an answer, even 401 or 403, as proof that the service it
\* watches is listening: then no child still loading its model is ever ready.
ReadyProvesListening ==
  status.ready => proc[cmd] # "loading"

-----------------------------------------------------------------------------
(* The inductive invariant behind the safety properties.                   *)

CommandIsPending ==
  /\ cmd # None => proc[cmd] \in AliveStates \cup {"killed", "exited"}
  /\ status.running => cmd # None

\* Nothing runs before Restore starts it, and a restore that failed has killed
\* what it started.
QuietPhases ==
  /\ phase \in {"restoring", "down"} =>
       /\ cmd = None /\ ~status.running /\ ~status.ready
       /\ status.desired = disk.desired /\ status.model = disk.model
  /\ phase # "serving" => Alive = {}
  /\ phase = "failing" /\ status.running => stopping

StopCalls ==
  \A c \in Caller :
    /\ \A p \in before[c] : proc[p] # "unused"
    /\ stopper[c].pc \in {"waiting", "killing"} =>
         /\ stopper[c].target \in Proc
         /\ before[c] \cap Alive \subseteq {stopper[c].target}
    /\ stopper[c].pc # "waiting" => before[c] \cap Alive = {}

\* No reservation is taken before the service serves, so a restore may start.
ReservedWhileServing == phase # "serving" => owner = None

IInv ==
  /\ TypeOK
  /\ CommandIsPending
  /\ OneLiveRuntime
  /\ QuietPhases
  /\ StopCalls
  /\ ReadyIsCurrent
  /\ DesiredIsDurable
  /\ ModelInUseIsPresent

\* The manager seen from outside: a child that is being stopped counts as
\* ending whatever its monitor reports, and the state file as what it restores.
Service == INSTANCE ModelService WITH
  service <- IF phase = "down" THEN "down"
             ELSE IF ~status.running THEN "idle"
             ELSE IF stopping THEN "ending"
             ELSE IF status.ready THEN "ready" ELSE "loading",
  saved <- IF disk.desired THEN disk.model ELSE None

\* The manager with its goroutines, lost stops and restarts implements the
\* simple service: nothing that is ending comes back, and what the next launch
\* loads changes only where the service says so.
ImplementsModelService == Service!Spec

\* What the manager lends to the cluster: a child that nobody has killed yet.
Lent ==
  IF cmd = None \/ proc[cmd] \notin AliveStates THEN "none"
  ELSE IF status.role = "single" THEN "single" ELSE "ring"

Backend == INSTANCE RingBackend WITH
  runtime <- Lent, ready <- status.ready /\ Lent # "none"

\* Through its goroutines, failed writes, restores and restarts the manager keeps
\* what the cluster relies on.
ImplementsRingBackend == Backend!Spec
=============================================================================
