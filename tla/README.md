# Tanpopo in TLA+

Tanpopo is a local service that loads language models: a Go program with a web
page, which starts one `llama-server` or `mlx-server` process at a time,
downloads models, joins several machines into one TCP Ring, and updates itself.
This directory holds specifications of the parts whose correctness depends on
the order of events, the TLC runs that check small instances of them, and
proofs, checked by TLAPS, that hold for every instance.

Paths below are relative to the repository; the Go sources are under `src/`.

## The system

| Component | State it keeps | Operations | Talks to | Module |
|---|---|---|---|---|
| Runtime manager `src/llamacpp/manager.go`, `ring.go`, `state.go` | the child process, its status, the ring reservation, `runtime-state.json` | Start, StartRing, Stop, Shutdown, Restore, model deletion; goroutines `wait` and `monitorReady` per child | child process (signals, `/health`), cluster, API | `RuntimeManager`, `ModelService`, `RingBackend` |
| TCP Ring `src/cluster` | the session of this node, its phase and lease, preparation goroutine | Begin, control messages prepare, arm, commit, lease, stop; Stop, maintain | the same service on other nodes (HTTP), runtime manager | `ClusterRing`, `RingGroup`, `RingBackend` |
| Downloads `src/download/manager.go` | jobs, claims on destinations, slots; part, backup and model files | Start, Cancel, Wait; one goroutine per job, workers per segmented transfer | remote servers, file system, API | `DownloadManager`, `ModelStore`, `RangeDownload`, `Transfer` |
| Self update `src/appupdate` | update lock, status files, prepared versions, backups | Start, Status, the helper process, ReportReady | file system, its own earlier and later processes | `AppUpdate`, `Installation` |
| Login `src/session/store.go`, `src/config/store.go` | tokens in memory, the remembered ones also in a file; the security settings in memory and in `agent.properties` | Login, Logout, UpdateSecurityWith, NewPersistentStore | API, tunnel | `LoginSessions`, `LoginService` |
| Access control `src/accesscontrol/store.go` | keys, the policy, file | UpdatePolicy, IssueKey, RevokeKey | inference servers (read the file), API, tunnel | `Tunnel` (what the tunnel asks of it) |
| NetPass tunnel `src/netpass/manager.go`, its handlers in `src/api/server.go` | the client process, its configuration | Start, Shutdown, `wait`; status, start and stop requests; UpdateConfig | child process, API, login, access control | `Tunnel` |
| Fast-GGUF `src/llamacpp/manager.go`, `mlx-server/.../MLXGGUFConversionCache.swift` | packages beside a GGUF (shards, assets, manifest), the original file, the pending removal | convert, upgrade, load and invalidate (mlx-server); start, remove the original, delete packages (manager) | runtime manager, file system, downloads | `FastGGUF` |
| Model bundle `src/modelbundle/bundle.go` | snapshots, staging directory | CreateSelection, Ensure, Open | cluster | not modelled |
| Startup commands, settings `src/startupcommand`, `src/config` | JSON files | create, update, delete | API | not modelled |
| Calibration `src/api/calibration.go` | measured profiles, kept in the settings | plan, save | the page, which starts and measures the runtimes itself | not modelled |
| Update check `src/updatecheck` | last result | Check | remote server | not modelled |
| API `src/api` | none of its own besides two mutexes | HTTP handlers | everything | its calls are the actions of the other modules |
| Web pages, native windows, metrics, directory browser | display | | | not modelled: no decision of the system rests on them |
| Inference in `mlx-server` | queue of a connection, reservations of generation slots | requests, cancellation | its clients | not modelled |
| `llama-server`, `mlx-server/Vendor` | | | | third party: seen as a child that listens and exits |

What makes the system hard: goroutines that outlive the operation that started
them (a `wait` of an old child, a download that was cancelled, a preparation
whose session is over); locks that are left during a wait and taken again;
state that must be on disk before it counts; two machines that call each other
while each holds a lock; requests that arrive after the caller gave up;
processes that are killed between two renames; timeouts that race the answer.
`PROJECT.json` lists these hazards at their lines with the properties that
would catch them.

## How to read the modules

One action is one step that the code takes without giving others a chance: what
a function does under its mutex, one file operation, one message. Where code
leaves the mutex, waits, or runs on another goroutine or process, the model has
another action, and everything else may come in between. Definitions bear the
names of the functions they stand for. A definition marked "Faulty" is no part
of the system: it is a plausible mistake in the definition after it, and the
property named for it in `PROJECT.json` must fail when it takes that place.

Every module with proofs has a companion `...Proofs`; every module has `MC...`
with the values of the runs. Constants are sets of arbitrary size; TLC gets two
or three members, the proofs hold for all.

Seven modules are abstract: `ModelService`, `RingBackend`, `RingGroup`, `ModelStore`,
`Transfer`, `Installation` and `LoginService` say what a component promises, with
neither locks nor processes nor files in between, and the detailed module
implements it (`INSTANCE ... WITH`). They are specifications of their own, not
translations of a source, and are written to be read first.

## Runtime manager: `RuntimeManager`, `ModelService`

State: `cmd` is `m.cmd`, `status` is `m.status`, `stopping` is `m.stopping`,
`owner` the ring reservation, `disk` is `runtime-state.json`, `proc` and
`monitor` follow each child and its `monitorReady` goroutine, `stopper` each
call of Stop or Shutdown (with `before`, the children it found), `phase` the
life of the program, `present` the model files. `StartLocked` covers the whole of
`startLocked`: validation (as a guard), creation of the child, persisting, the
two goroutines, and the kill of the child when the state cannot be written. A
stop is split where the code leaves `m.mu`. A crash (`Crash`) keeps `disk` and
leaves the child behind as an orphan that may still answer on the address.

Properties: `OneLiveRuntime`, `ReadyIsCurrent`, `StopReturnsStopped`,
`DesiredIsDurable`, `ModelInUseIsPresent`, and, under fairness,
`StoppingEnds`: a stopping child ends and every stop call returns. `ModelService` says what the manager promises
from outside, without children, goroutines or locks; `ImplementsModelService` is
the refinement.

Run `runtime`: three children, one model, one ring session and one stop call at
a time, with every property. Three children are an old one whose `wait` is late,
a current one and one that is started after it; a second model changes nothing
that a property sees. Fairness: the operating system ends a killed child, `wait`
reaps it, a stop call's timer fires; nothing is assumed of users or of a child
that ignores an interrupt. `runtime_ready_finding`: see Findings.

Proved for every number of children, models, sessions and callers: the safety
properties, `ModelInUseIsPresent` and type correctness among them, and the
refinement (`ManagerImplementsService`). The inductive
invariant adds to them that `cmd` is a child that was started (`CommandIsPending`), that nothing
runs before Restore or after shutdown (`QuietPhases`), and that a stop call holds
the only child that lived when it began (`StopCalls`); without the last one
`StopReturnsStopped` is not inductive, since nothing would link a waiting call
to the child that is alive.

The manager also has a second customer, the cluster, which borrows the runtime
through the interface `Backend`. `RingBackend` is that contract: one reservation at
a time, a single-machine runtime only without one and a ring runtime only with
one, never two at once, ready means running. `ManagerImplementsBackend` proves
that the manager keeps it (`ImplementsRingBackend`); the runtime seen from there is
a live `cmd`, whatever orphans and late goroutines there are. It is a theorem
only, no run repeats it.

## TCP Ring: `ClusterRing`, `RingGroup`

Nodes with a session (`active`), its `phase`, the step of the preparation
goroutine (`step`), what holds `opMu` (`op`), the answers it waits for
(`answer`), the runtime and its reservation (`runtime`, `owner`), the age of the
lease, and `net`, the requests on their way: never removed until received or
lost, so that they come late, in any order, and after their sender gave up.
`Begin`, `coordinate` and `prepareWorker` are cut where they call peers or leave
`opMu`; the handlers, `stopLocked` and `maintain` are whole, but for the wait for
their peers. Discovery and the transfer of the model are calls that may fail.

Properties: `RingHasSession`, `NoLeakedReservation`, `SingleStaysAway`,
`NobodyServesAlone`, the liveness property `GroupEnds` (leases reclaim whoever was not told), and the refinement
of `RingGroup`, the barrier without messages and locks. `UsesRingBackend`: on every
node the cluster asks of the runtime only what `RingBackend` allows. `CoordinatorLast`, the
start barrier itself, is a theorem; the runs check it as a part of the refinement.

Runs. `ring_group`: one session over three nodes with a local user at the
coordinator, crashes and losses; `RingHasSession`, the refinement and
`GroupEnds`. Fairness: goroutines run, calls time out, the ticker of `maintain`
fires and leases age; no message needs to arrive. `ring_again`: two sessions of
one coordinator over two nodes, so that requests of the first arrive during the
second; `NobodyServesAlone`, `NoLeakedReservation`, `SingleStaysAway` and
`UsesRingBackend`. `ring_unsaved_stop`: see Findings. Two nodes that invite each other make
an instance too large to check in full beside these; the proofs cover it, since
they fix neither coordinators nor sessions.

Proved for every set of nodes, sessions and groups: all the safety properties and
the refinement. The invariant `IInv` relates the goroutine's step, the phase and
`opMu` (`SessionShape`), counts on whose start whom (`StartShape`), and says that a
session is offered once to each worker (`OfferShape`). `RingHasSession` needs the assumption that
state files can be written (`FailingNodes = {}`), and the refinement `OnceShape`.

`ClusterRing` abstracts the runtime manager of each node to a reservation, a
runtime and its readiness. That this is no wishful thinking takes two halves with
one contract between them: `RingUsesBackend` proves that whatever the cluster
lets happen to a node is a step of `RingBackend`, and `ManagerImplementsBackend`
that the real manager has no other steps. The first half needs `ReadyShape` (no
readiness without a runtime) and the cluster's own invariant: a reservation is
made by a node that has no session yet (`ReservedOnce`), and a runtime starts where
none was left (`StartedAlone`), since the preparation stopped it before.

## Downloads: `DownloadManager`, `RangeDownload`

`DownloadManager` follows a job from the request handler (`Check`, `Register`,
`Spawn`) through the goroutine (`TakeSlot` ... `Leave`, `Release`) with its
claim on the destination, its slot, its part file and its backup; users cancel at
any time, the program shuts down or crashes, and other programs may put files at
shared destinations. Content is one of `"absent"`, `"partial"`, or the job
whose bytes a file holds. `replaceFile` is cut at every file operation.

Properties: `ClaimHeld` (a job at work holds the claim of its destination, through
releases that come late), `OnlyOverwriteReplaces`, `StoppedIsQuiet`,
`CancelledNeverInstalls`, the refinement of `ModelStore`, and under fairness
`CancelEnds`: a cancelled job reaches its end wherever it is. `ModelStore` forgets
part files, slots, claims and goroutines, and has for each destination only the
models that are in store, at their place or in a backup where they can be found,
and the jobs that may still bring one. A model arrives once and whole, and drives
no other one out; only a job that may overwrite, and whose own model is in
store, removes another one; a job that gave up brings nothing. `WholeFiles` and
`ModelSurvives` (a destination with a model is never left without one) are
theorems about the detailed state; the run checks them as parts of the
refinement. It assumes nothing of transfers that
nobody cancels; whether these end is up to the remote server.

Run `download`: two jobs for one destination, where a model is already, other
programs write too and one of the two may replace it; a third job for another
destination, whose transfer stalls in the only slot. That is every way in which
requests, goroutines and file operations of two jobs for one file interleave, with
failures of each file step, a shutdown and a crash, while a job waits for a slot
that only a cancellation will free. The claim admits
one job at a time, so two jobs for the file are enough for a late release to meet
a new claim; the proofs cover any number. Fairness: goroutines run, a cancelled transfer ends, and the Go
runtime serves waiting senders of the slot channel in turn.

`RangeDownload` is `downloadChunked`: a producer, workers, range slots shared by
all transfers, an error that cancels the rest, and the join before the return.
`ImplementsTransfer`, `QuietAfterReturn`, `SlotsReturned`, and the
liveness property `CallReturns`: a call that was cancelled or whose range failed
returns, although ranges of another job may hold slots. Run `range_download`: two
transfers, of five bytes in ranges of two (the last one short) and of one byte
(less than a range), two workers each, two slots between them.

Proved for all jobs, destinations, slots, lengths and range sizes: the safety
properties of both modules, and that two jobs are never at work on one destination
(`JobsKeepApart`) and two writes of a transfer never overlap (`WritesStayApart`).
The invariants count the occupied slots
(`SlotsHeld`, with the cardinality lemmas of the library) and say what part,
backup and destination hold at each step; that writes stay apart rests on the
arithmetic of the ranges.

Two results need more than the safety properties do. `CancelIsFinal`
(`CancelledNeverInstalls`) is not about one state: a job that was cancelled before
it began to replace anything stays on the way to its end, and its model, which is
nowhere, stays nowhere (`Barred`, an invariant from that moment on). `ManagerIsAStore`
maps every file operation to a step of `ModelStore` or to none, so it must know that
the model of a job is nowhere before its rename (`NotYet`, without which a job could
"arrive" twice), that the place is filled with the job's own model when the backup
is removed (`PlaceFilled`), and that it is empty, or holds what another program
copied there meanwhile, when the model or its backup is renamed to it
(`PlaceEmpty`). The claim is what makes these inductive.

`DownloadManager` has the whole of `downloadChunked` in two steps, `Receive` (nil)
and `Break`. `Transfer` is the contract that stands between the two modules: the part
file is filled by the call while it runs, nil is returned for the whole file
only, and afterwards the file is the caller's. `RangesAreATransfer` proves that
`RangeDownload` keeps it for every length, range size and number of workers;
the step for a return is `NilMeansWhole`, which needs to know where every
planned byte is (`BytesAccounted`), and the one for a write that no worker
outlives its call (`HoldersRun`). `ManagerUsesTransfer` proves that `DownloadManager`
asks no more (`UsesTransfer`, a theorem only) and touches the part file only before and after
the call (`NothingYet`: there is none before). `downloadSequential` is one
range and one writer, and is taken to keep the contract as well.

## Self update: `AppUpdate`

The program (`app`, and `starter`, the helper that launched it and watches it),
the goroutine of an automatic update (`worker`), one helper process per update
(`helper` is its step), the processes that hold the update lock (`lock`), the
installation (`target`), the prepared versions (`payload`), the backups, and
the two status files. Versions are named after their updates; user data are a
number that changes. The lock is an open file that the helper inherits, so it
outlives the program that took it (`lock_unix.go`).

The helper of an automatic update (`RunAutomaticHelper`, `swapAndRestart`) and
that of an uploaded ZIP (`Apply`) take the same steps; where they differ (who
tells the program to end, what a failed way back reports) the action says so.
The program may be closed, crash or be launched by hand at any moment, the
helper may be killed, files may refuse to move, versions may refuse to start:
`Faults` chooses which. `Patient` says that nobody launches the program by hand
while a helper works; `main` never looks at the update lock.

Properties: `OneInstaller`, `ProvenIsKept`, `CompletedRan` with every fault;
`AllOrNothing`, `NeverUnderARunningProgram` and the refinement of `Installation`
for patient users; `UpdateResolves` and `ProgramComesBack` under fairness: processes run,
and the page polls the status (`website/assets/app-update.js` every 1.5 s while
an update is on; strong fairness of `ReadStatus`, since the program restarts in
between). Users, faults and launches by hand are never fair.

`Installation` is an update as its user sees it: what a launch would find, with its
data; whether the program runs; and what a version on trial replaced. The new
version comes in one step, while nothing runs, with the data of the old one; it
confirms itself by running, or is taken back to exactly what was there. Between
the two renames of the helper nothing is installed; there a launch "would find" what
the helper just moved aside (`Current`), so an exchange is the second rename, and a
way back is the rename that puts the old version back.

Runs: three updates, one of them uploaded, which is what it takes for an update
to begin while another one ends and to find the disk as a third left it.
`update_safety` has every fault and impatient users and checks `OneInstaller`,
`ProvenIsKept`, `CompletedRan` and `UpdateResolves`; `update_exchange` has patient users
and the faults that a way back exists for (`Survivable`), and checks the others:
`AllOrNothing`, `NeverUnderARunningProgram`, `ImplementsInstallation` and
`ProgramComesBack`.
`CHECK_DEADLOCK FALSE` stands in these: a helper killed between the two renames
leaves nothing installed, and the system stops there.

Proved for any number of updates: `OneInstaller`, `ProvenIsKept`, `AllOrNothing`,
`NeverUnderARunningProgram`, `CompletedRan`, the refinement of `Installation`, and
`DataIsCarried` (the data that a version finds are those of the one it replaced),
which the refinement contains. The invariant says
who holds the lock (`LockIsHeld`: only one helper can, and a goroutine shares it
with its helper only), what each step of a helper knows of the disk
(`OnDisk`, `VersionsAreNew`), for patient users of the program (`Undisturbed`),
and who watches and who waits for whom (`HandsOn`).

`CompletedIsEarned` (an update is reported completed only after its version ran and
reported ready) rests on `AcceptedReported`: a version that the helper accepted has
written its ready file, and nobody takes that back before the helper is done.
`UpdateIsOneExchange` has the hypotheses of the run `update_exchange` that it needs:
`Patient`, no fault `"files"` (a rename that fails may leave the program set
aside, with a status that says so) and no fault `"kill"` (a helper killed between
the renames leaves nothing installed). Versions that refuse to start, the old one
on its way back included, crashes and closed windows are all allowed. That the code
does not promise more is visible from `update_safety`, where these faults occur
and only the first group of properties is checked. The proof shows that
at most one helper has hands on the installation (`TheOnlyOne`), so what it moved
aside is well defined, and then one lemma per group of actions: those that leave
installed, running and fallback alone (`NothingMoves`), those of the helper
(`HelpInstalls`) and the rest (`NextInstalls`).

## Fast GGUF: `FastGGUF`

An mlx-server that starts a GGUF stores the converted weights as a package
beside it and loads that package the next time. When the user asks for it, the
manager removes the original once the package has been loaded, and the package
is all that is left of the model. Two programs write the directory, in file
operations that anything may come between.

State: `source` is the content of the GGUF file, as the version that was
downloaded; `pkg` has a package per version, since the key of a package is
computed from the content (`makePlan`), and each package has `shards`, `assets`
and the schema of its `manifest`; `run` is the step of each mlx-server, with the
key it works with and whether its weights are mapped from the package; `cmd`,
`ready`, `pending` (`m.pendingGGUFRemoval`) and `monitor` are the manager's side;
`deleter` is a call of `DeleteGGUFConversionCache`, which holds the mutex from
file to file. `Plan`, `Ensure`, `Upgrade`, `Load`, `Invalidate`, `Convert`,
`Store`, `Reload` follow `loadOrConvert` of the Swift source one file operation at
a time, with `End` for a process that dies at any of them; `Output`, `Wait`,
`MonitorSettle` are the manager's goroutines, `RemovalIdentity`,
`RemovalPackage`, `RemovalRemove` the three file operations of
`removeOriginalGGUF`. Downloads replace the source, Tanpopo crashes and leaves its
mlx-server behind.

Properties: `LatestSurvives` (what was downloaded last can be loaded, with or
without its GGUF, until the user deletes it), `MappedStays` (shards that are mapped are not deleted) and `PublishedIsWhole` (a
manifest of the present schema appears last).

Two assumptions are written into guards. `Prompt`: no request comes between the
three file operations of a removal. The code has no such guarantee; with
`Prompt = FALSE` a download that replaces the file, or a deletion of the package,
in that window loses the model, and `LatestSurvives` fails while the others hold
(the theorem `ModelIsNotLost` assumes `Prompt`, the others do not). The hazard is
listed at `manager.go:1204`. `Settled`: an mlx-server left behind by a crash that
still prepares its model ends, its output pipe being closed, or finishes its
renames, before the next program starts one or deletes.

Run `fastgguf`: three mlx-servers, two versions, `Prompt = TRUE`; one process that
converts, one that loads what the first stored or was killed at, one more that
starts from the package alone; a second version to replace the file while the
first is being loaded. The processes are symmetric. Only safety: nothing here
waits for another actor.

Proved for every number of processes and versions: the three properties, and
`OnlyLoadedIsRemoved` (a removal goes on only for the version that its mlx-server
loaded from the package). The
inductive invariant says that one mlx-server prepares at a time and none during a
deletion (`OneAtATime`), what each step of a process knows of its package
(`ProcessShape`), that a package loses its parts in order (`PackageShape`), that
what is mapped is there (`MappedShape`), what a pending removal stands on from the
start of its process (`RemovalShape`), that packages of schema 3 belong to the
first version (`LegacyIsOld`) and, for `Prompt`, that a removal finds what it
checked (`Undisturbed`). `LatestSurvives` alone is far from inductive: it needs
to know of every process that could still remove the file or drop the package.

Left out: packages of schema 3 with a Hugging Face configuration beside them,
the older cache directory, several strategies (one is used), removals of
an invalidation that fail for some files and not for others, and starts that
name a manifest instead of the GGUF; `ActiveModelMatches` (`manager.go:2188`) does
not recognise such a start when its package is to be deleted. Once the source is
gone, the request that deletes a package finds no model to list it under, so it
stays until the user removes it by hand, although `README.zh-TW.md:189` describes
the deletion; the model has no action for it.

## Login: `LoginSessions`, `LoginService`

`session.Store` knows two kinds of tokens: `sessions`, which live in memory, and
`remembered`, which are signed with the credentials in force and listed in a
`file`. `login` is the security settings in memory, `properties` those in
`agent.properties`. Login and Logout are one action each: they hold `s.mu` from
the first look to the last write, and a write that fails undoes what memory had
done (`LoginUnsaved`). `UpdateSecurityWith` also holds the lock throughout, but the
program may be killed between its writes, so it is cut at each: the empty list
(`ChangeBegin`), the new properties (`Commit` or `CommitFails`), then memory
(`Adopt`) or the old list (`Restore`, `RestoreFails`). `LoginRelaunch` is the end
of the program at any of these points and `NewPersistentStore` after it. A token
is a name with what it was signed with (`signed`).

`LoginService` is what a user is promised: a token that ended never opens a
session again, whatever is restarted, and a change of the settings ends all of
them in one step, the step that takes effect. `ImplementsLogin` is the refinement;
the change takes effect with `Commit`, although memory follows later, since the
lock keeps everybody from looking in between. `MemoryIsDisk`: whenever the lock is
free, memory and disk agree on the settings and on the remembered sessions.

Proved for any number of tokens and credentials: both. The invariant `LoginIInv`
adds that whatever is listed was signed with the credentials in force
(`SignedNow`) and what holds between the writes of a change (`Phases`). Without
`SignedNow` a restored list could hold a token of other credentials, which the
abstract service has already ended.

## Tunnel: `Tunnel`

A tunnel makes the computer reachable from outside, and may exist only while the
login is on and the model API asks for a key. `Tunnel` EXTENDS `LoginSessions` with
the key check (`keyCheck`, `keys`), the client process of `netpass.Manager`
(`client`, `stopping`, and `holder`, who keeps `lifecycleMu` over a wait), the
handlers that combine the three (`task` is what each actor does next and what it
has read), and the life of the program (`phase`). No lock spans the protections and
the client. A handler reads the login (`ReadAuth`), the key check (`ReadAccess`)
and the client (`ReadStatus`) under three locks and decides on what it read; a
change of the settings is made first and stops the client afterwards
(`KeyCheckOff`, `RevokeKey` and `CountKeys`, `AdoptAndStop`). `Start` is followed by
another status, which looks again. `Shutdown` kills the client and waits for it, or
gives up at its deadline (`StopKills`, `StopReturns`, `StopGivesUp`).

Properties: `UnprotectedIsWatched`: a live client that lacks a protection always
has an actor on the way that will notice, one that is about to stop it, or
whose look at the protections is still to come or has found them missing.
`UnprotectedEnds`: such a client ends, or is protected again. `NothingLeft`: an
orderly end of the program leaves no client, although requests are served while
it closes. `MemoryIsDisk` and `ImplementsLogin` hold here as well.

Run `tunnel`: two requests at a time beside the handler that changes the
credentials and main, one token, one pair of credentials, one key. Two requests
are what it takes for one to start the client on protections that the other takes
away; one key suffices, since the only number anything depends on is whether there
is one; with one pair of credentials the settings can still be switched on and
off and be set anew, and the proofs cover more. Fairness: goroutines run, a killed
process is reaped, and a mutex that is free again and again is given to each
goroutine that waits for it (strong fairness of `ReadAuth`; Go's `sync.Mutex`
serves waiters in turn after a millisecond). Nothing is assumed of users, of the
client, or of deadlines.

Proved for any number of requests, keys, tokens and credentials:
`UnprotectedIsWatched`, `NothingLeft`, that the login takes only its own steps
(`TunnelRunsLogin`), hence `MemoryIsDisk` and the refinement. The invariant adds
that only the holder of `lifecycleMu` waits, and then no client lives (`Waits`),
that the handler of the credentials does nothing else during a change
(`ChangingOnly`), what main does while the program closes (`Closing`), and that
the key check is never on without a key (`KeyRemains`). `UnprotectedIsWatched` says
separately of the login and of the keys who watches them: a request that has read
the login as on and is about to read the keys watches only these.

Left out: the expiry of tokens, `UpdateConfig` (refused while the client runs) and
the client's own configuration file, addresses and names in the access policy, a
client that survives a crash of Tanpopo, which is nobody's child any more. A kill
is taken to work. The goroutine of `NewManager` that waits for the context makes
the call that a stop request makes, and is represented by these.

## Findings

Each is a run that TLC must find violated; `PROJECT.json` quotes the lines.

* `runtime_ready_finding`: a runtime left over from a crash answers the health
  check of the next one, which is reported ready while it loads.
* `ring_unsaved_stop`: when the state file cannot be written, a node leaves its
  session and its reservation but the ring runtime goes on.
* `update_finding`: `Status` reads the status file before it probes the lock; an
  update that completes in between is reported failed, for good.

## Proofs and their limits

The proofs go by an inductive invariant `IInv` per module, a conjunction of named
parts with one lemma per action or group of actions, and one leaf per part. `IInv`
itself was also checked by TLC on the small instances while it was found. Types
are part of it: type correctness is a theorem of every module and no run repeats
it. Every invariant, action property and refinement that a passing run checks is
also a theorem. What is model-checked only is the liveness under fairness, for
which the prover has no rules: `StoppingEnds`, `GroupEnds`, `CancelEnds`,
`CallReturns`, `UpdateResolves`, `ProgramComesBack` and `UnprotectedEnds`. The
refinements are proved for the safety part of the specifications: initial states
map to initial states and steps to steps or stutters; the abstract modules state
no fairness. Nothing rests on unproved facts; constants carry the assumptions named at
their declaration, and TLC evaluates these in every run.

Bounds in the models: the number of children, sessions, jobs, calls, updates,
mlx-servers, versions, requests and tokens (members of constant sets), `MaxData` for
changes of user data, `MaxKeys` and `MaxRemembered`, which are limits of the code.
They bound how much happens, not what may happen: each set has the members that
the property needs actors, and most have one more.

## Not modelled

Inside the modelled parts: argument building, probing of runtime capabilities,
validation of requests, archives and signatures, repository search, formatting
and logging. The Windows update through MSI cannot roll back, by its own
documentation, and is left out. Status files of an update are taken to be
writable.

Components without a module, and why:

* Model bundle: files are fetched into a hidden directory, each checked against the
  digest it was announced with, and the directory is renamed into its place at
  the end, which is never an existing one. What can go wrong is in paths and
  hashes, which are data here; `ClusterRing` has the transfer as a call that may
  fail.
* Startup commands, settings, runtime calibration, update check: each is one lock
  around one file that is replaced as a whole, or a comparison of two versions. The
  order in which the calibration starts runtimes is the web page's; the server
  only keeps the profiles.
* Memory pressure, runtime capabilities, system metrics, directory browser: readings
  of the operating system or of other programs' output.
* Request serving in `mlx-server`: its queue, cancellation and generation slots
  depend on Swift actors and on callbacks of the vendored generation library,
  whose order of events the sources here do not settle. Worth a module of its own.
* Native windows and web pages: display. Polling by the pages appears as fairness.
* `llama-server` and the vendored libraries: third party.

Two hazards have no property. What the runtime manager saves when a ring
session replaces a runtime and Tanpopo closes meanwhile (`cluster/control.go:359`)
needs `RuntimeManager` and `ClusterRing` composed over the saved state; `ClusterRing`
abstracts that state. A remote file that is replaced between two range requests
(`download/manager.go:1554`) leaves a file of the right length: no check in the
code could tell, and the model has no property that would hold.

## Plan

Written, with their proofs: `RuntimeManager`, `ModelService`, `ClusterRing`,
`RingGroup`, `RingBackend`, `DownloadManager`, `ModelStore`, `RangeDownload`,
`Transfer`, `AppUpdate`, `Installation`, `FastGGUF`, `LoginSessions`, `LoginService`,
`Tunnel`. What would add most next: the composition
of `RuntimeManager` and `ClusterRing` over the saved state, then the request
serving of `mlx-server`.
