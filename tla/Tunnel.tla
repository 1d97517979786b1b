------------------------------- MODULE Tunnel -------------------------------
(***************************************************************************)
(* The public tunnel and what it may only exist behind: the login of the   *)
(* management interface (LoginSessions) and the key check of the model API *)
(* (accesscontrol.Store).  netpass.Manager owns one NetPassClient process; *)
(* the handlers of the management API read the two protections and then    *)
(* start or stop it, and no lock spans those steps.                        *)
(***************************************************************************)
EXTENDS LoginSessions

CONSTANTS
  Request,   \* goroutines that handle requests, each one request at a time
  MaxKeys    \* 100 in the code

ASSUME RequestsAndKeys ==
  /\ MaxKeys \in Nat
  /\ IsFiniteSet(Request)
  /\ Request \cap {"admin", "main", None} = {}
  /\ None \notin {"admin", "main"}

\* The handler that changes the credentials holds credentialsMu: there is one at a
\* time.  When the program closes, main's shutdownServices stops the client too; the
\* goroutine of NewManager that waits for the context makes the same call, as a stop
\* request may that is handled while the program closes.
Actor == Request \cup {"admin", "main"}

VARIABLES
  keyCheck,  \* data.Policy.APIKeyEnabled
  keys,      \* the number of keys issued
  client,    \* the NetPassClient of m.command: none, live, or dead and not reaped
  stopping,  \* m.stopping
  holder,    \* who keeps m.lifecycleMu over a wait
  task,      \* per actor: its next step, what it has read and what it does next
  phase      \* up, closing once the context is cancelled, exited

accessVars == <<keyCheck, keys>>
managerVars == <<client, stopping, holder>>
vars == <<loginVars, accessVars, managerVars, task, phase>>

Task == [at : {"idle", "auth", "access", "running", "start", "count", "stop", "wait", "gone"},
         auth : BOOLEAN, ready : BOOLEAN, then : {"end", "start", "status"}]

TypeOK ==
  /\ LoginTypeOK
  /\ keyCheck \in BOOLEAN /\ keys \in 0..MaxKeys
  /\ client \in {"none", "live", "dead"} /\ stopping \in BOOLEAN
  /\ holder \in Actor \cup {None}
  /\ task \in [Actor -> Task]
  /\ phase \in {"up", "closing", "exited"}

Idle == [at |-> "idle", auth |-> FALSE, ready |-> FALSE, then |-> "end"]
To(place, next) == [Idle EXCEPT !.at = place, !.then = next]

Init ==
  /\ LoginInit
  /\ keyCheck = FALSE /\ keys = 0
  /\ client = "none" /\ stopping = FALSE /\ holder = None
  /\ task = [a \in Actor |-> Idle]
  /\ phase = "up"

At(a, place) == task[a].at = place
Becomes(a, t) == task' = [task EXCEPT ![a] = t]

\* Both protections are on.
Protected == login.enabled /\ keyCheck /\ keys > 0

-----------------------------------------------------------------------------
(* Requests that change or ask for something at once.                      *)

Open(r) == phase # "exited" /\ At(r, "idle")

AskStatus(r) ==
  /\ Open(r)
  /\ Becomes(r, To("auth", "end"))
  /\ UNCHANGED <<loginVars, accessVars, managerVars, phase>>

AskStart(r) ==
  /\ Open(r)
  /\ Becomes(r, To("auth", "start"))
  /\ UNCHANGED <<loginVars, accessVars, managerVars, phase>>

AskStop(r) ==
  /\ Open(r)
  /\ Becomes(r, To("stop", "status"))
  /\ UNCHANGED <<loginVars, accessVars, managerVars, phase>>

KeyCheckOn(r) ==
  /\ Open(r)
  /\ keys > 0
  /\ keyCheck' = TRUE
  /\ UNCHANGED <<loginVars, keys, managerVars, task, phase>>

\* The policy is saved first, the tunnel is stopped afterwards.
KeyCheckOff(r) ==
  /\ Open(r)
  /\ keyCheck' = FALSE
  /\ Becomes(r, To("stop", "end"))
  /\ UNCHANGED <<loginVars, keys, managerVars, phase>>

IssueKey(r) ==
  /\ Open(r)
  /\ keys < MaxKeys
  /\ keys' = keys + 1
  /\ UNCHANGED <<loginVars, keyCheck, managerVars, task, phase>>

\* The last key stays while the check is on.
RevokeKey(r) ==
  /\ Open(r)
  /\ keys > 0
  /\ ~(keyCheck /\ keys = 1)
  /\ keys' = keys - 1
  /\ Becomes(r, To("count", "end"))
  /\ UNCHANGED <<loginVars, keyCheck, managerVars, phase>>

CountKeys(r) ==
  /\ At(r, "count")
  /\ Becomes(r, IF keys = 0 THEN To("stop", "end") ELSE Idle)
  /\ UNCHANGED <<loginVars, accessVars, managerVars, phase>>

-----------------------------------------------------------------------------
(* netPassStatus: three reads under three locks, and a stop when the       *)
(* client runs without both protections.                                   *)

ReadAuth(r) ==
  /\ At(r, "auth")
  /\ Unlocked
  /\ Becomes(r, [task[r] EXCEPT !.at = "access", !.auth = login.enabled])
  /\ UNCHANGED <<loginVars, accessVars, managerVars, phase>>

ReadAccess(r) ==
  /\ At(r, "access")
  /\ Becomes(r, [task[r] EXCEPT !.at = "running",
                                !.ready = task[r].auth /\ keyCheck /\ keys > 0])
  /\ UNCHANGED <<loginVars, accessVars, managerVars, phase>>

ReadStatus(r) ==
  /\ At(r, "running")
  /\ \/ /\ client # "none" /\ ~task[r].ready
        /\ Becomes(r, To("stop", "end"))
     \/ /\ task[r].ready /\ task[r].then = "start"
        /\ Becomes(r, To("start", "end"))
     \/ /\ task[r].ready => task[r].then # "start"
        /\ task[r].ready \/ client = "none"
        /\ Becomes(r, Idle)
  /\ UNCHANGED <<loginVars, accessVars, managerVars, phase>>

-----------------------------------------------------------------------------
(* Manager.Start and Manager.Shutdown.                                     *)

\* The context ended, or the last client is still being stopped.
StartRefused(r) ==
  /\ At(r, "start")
  /\ holder = None
  /\ phase # "up" \/ stopping
  /\ Becomes(r, Idle)
  /\ UNCHANGED <<loginVars, accessVars, managerVars, phase>>

\* No key for the server, no binary, no directory, or no process.
StartFails(r) ==
  /\ At(r, "start")
  /\ holder = None
  /\ phase = "up" /\ client = "none"
  /\ Becomes(r, Idle)
  /\ UNCHANGED <<loginVars, accessVars, managerVars, phase>>

\* Faulty: the protections are not looked at again.
StartUnchecked(r) ==
  /\ At(r, "start")
  /\ holder = None
  /\ phase = "up" /\ ~stopping
  /\ client' = IF client = "none" THEN "live" ELSE client
  /\ Becomes(r, Idle)
  /\ UNCHANGED <<loginVars, accessVars, stopping, holder, phase>>

\* Faulty: the end of the service does not matter.
StartAnytime(r) ==
  /\ At(r, "start")
  /\ holder = None
  /\ ~stopping
  /\ client' = IF client = "none" THEN "live" ELSE client
  /\ Becomes(r, To("auth", "end"))
  /\ UNCHANGED <<loginVars, accessVars, stopping, holder, phase>>

\* The client is started, unless there is one; handleNetPassStart then asks for the
\* status, which looks at the protections again.
Start(r) ==
  /\ At(r, "start")
  /\ holder = None
  /\ phase = "up" /\ ~stopping
  /\ client' = IF client = "none" THEN "live" ELSE client
  /\ Becomes(r, To("auth", "end"))
  /\ UNCHANGED <<loginVars, accessVars, stopping, holder, phase>>

\* What follows a stop: a status after a stop by the user, the exit after main's.
After(a) ==
  IF task[a].then = "status" THEN To("auth", "end")
  ELSE IF a = "main" THEN To("gone", "end")
  ELSE Idle

\* Nothing to stop.
StopNothing(a) ==
  /\ At(a, "stop")
  /\ holder = None
  /\ client = "none"
  /\ Becomes(a, After(a))
  /\ UNCHANGED <<loginVars, accessVars, managerVars, phase>>

\* The client is killed; the lock is kept until it is reaped.
StopKills(a) ==
  /\ At(a, "stop")
  /\ holder = None
  /\ client # "none"
  /\ holder' = a
  /\ stopping' = TRUE
  /\ client' = "dead"
  /\ Becomes(a, [task[a] EXCEPT !.at = "wait"])
  /\ UNCHANGED <<loginVars, accessVars, phase>>

StopReturns(a) ==
  /\ At(a, "wait")
  /\ client = "none"
  /\ holder' = None
  /\ Becomes(a, After(a))
  /\ UNCHANGED <<loginVars, accessVars, client, stopping, phase>>

\* The deadline comes first: an error, which only the stop handler looks at.
StopGivesUp(a) ==
  /\ At(a, "wait")
  /\ client # "none"
  /\ holder' = None
  /\ Becomes(a, IF task[a].then = "status" THEN Idle ELSE After(a))
  /\ UNCHANGED <<loginVars, accessVars, client, stopping, phase>>

\* The client ends by itself.
ClientEnds ==
  /\ client = "live"
  /\ client' = "dead"
  /\ UNCHANGED <<loginVars, accessVars, stopping, holder, task, phase>>

\* The goroutine that waits for the process.
Reap ==
  /\ client = "dead"
  /\ client' = "none"
  /\ stopping' = FALSE
  /\ UNCHANGED <<loginVars, accessVars, holder, task, phase>>

-----------------------------------------------------------------------------
(* Credentials, sessions and the life of the program.                      *)

Sessions ==
  /\ \E t \in Token : Enter(t) \/ Logout(t)
  /\ phase # "exited"
  /\ UNCHANGED <<accessVars, managerVars, task, phase>>

ChangeSecurity ==
  /\ Open("admin")
  /\ \E p \in Policy : ChangeBegin(p)
  /\ UNCHANGED <<accessVars, managerVars, task, phase>>

\* Faulty: the tunnel is stopped only where the change has failed.
AdoptOnly ==
  /\ phase # "exited"
  /\ Adopt
  /\ UNCHANGED <<accessVars, managerVars, task, phase>>

\* Memory follows the file; then the handler stops the tunnel if the login is off.
AdoptAndStop ==
  /\ phase # "exited"
  /\ Adopt
  /\ Becomes("admin", IF wanted.enabled THEN Idle ELSE To("stop", "end"))
  /\ UNCHANGED <<accessVars, managerVars, phase>>

ChangeSteps ==
  /\ phase # "exited"
  /\ Commit \/ CommitFails \/ Restore \/ RestoreFails
  /\ UNCHANGED <<accessVars, managerVars, task, phase>>

\* The context is cancelled; requests go on until the HTTP server gives up on them.
Close ==
  /\ phase = "up"
  /\ phase' = "closing"
  /\ UNCHANGED <<loginVars, accessVars, managerVars, task>>

MainStops ==
  /\ phase = "closing"
  /\ At("main", "idle")
  /\ Becomes("main", To("stop", "end"))
  /\ UNCHANGED <<loginVars, accessVars, managerVars, phase>>

Exit ==
  /\ phase = "closing"
  /\ At("main", "gone")
  /\ phase' = "exited"
  /\ UNCHANGED <<loginVars, accessVars, managerVars, task>>

\* A crash, or the launch after an exit.  What a crash leaves of the client is
\* nobody's child any more and not followed here.
Relaunch ==
  /\ LoginRelaunch
  /\ client' = "none" /\ stopping' = FALSE /\ holder' = None
  /\ task' = [a \in Actor |-> Idle]
  /\ phase' = "up"
  /\ UNCHANGED accessVars

Ask(r) ==
  \/ AskStatus(r) \/ AskStart(r) \/ AskStop(r)
  \/ KeyCheckOn(r) \/ KeyCheckOff(r) \/ IssueKey(r) \/ RevokeKey(r)

Handle(r) ==
  \/ CountKeys(r) \/ ReadAuth(r) \/ ReadAccess(r) \/ ReadStatus(r)
  \/ StartRefused(r) \/ StartFails(r) \/ Start(r)

Stop(a) == StopNothing(a) \/ StopKills(a) \/ StopReturns(a) \/ StopGivesUp(a)

Next ==
  \/ phase # "exited" /\ \E r \in Request : Ask(r) \/ Handle(r)
  \/ phase # "exited" /\ \E a \in Actor : Stop(a)
  \/ ClientEnds \/ Reap
  \/ Sessions \/ ChangeSecurity \/ ChangeSteps \/ AdoptAndStop
  \/ Close \/ MainStops \/ Exit \/ Relaunch

Spec == Init /\ [][Next]_vars

\* Goroutines run and a killed process is reaped; a mutex that is free again and
\* again is given to each that waits for it (sync.Mutex does not starve).
Fairness ==
  /\ \A r \in Request : WF_vars(phase # "exited" /\ Handle(r)) /\ SF_vars(phase # "exited" /\ ReadAuth(r))
  /\ \A a \in Actor : WF_vars(phase # "exited" /\ Stop(a))
  /\ WF_vars(ChangeSteps) /\ WF_vars(AdoptAndStop)
  /\ WF_vars(Reap)

FairSpec == Spec /\ Fairness

-----------------------------------------------------------------------------
(* Properties.                                                             *)

\* A live tunnel without the login has somebody on the way who will stop it: the
\* request that turned the login off, or one whose look at it is still to come or
\* has found it off.  The same for the key check.
Found(a) == At(a, "running") /\ ~task[a].ready
LoginWatcher(a) ==
  At(a, "stop") \/ At(a, "auth") \/ Found(a) \/ (At(a, "access") /\ ~task[a].auth)
KeysWatcher(a) == At(a, "stop") \/ At(a, "auth") \/ Found(a) \/ At(a, "access")
LoginWatched == client = "live" /\ ~login.enabled => \E a \in Actor : LoginWatcher(a)
KeysWatched ==
  client = "live" /\ ~(keyCheck /\ keys > 0) => \E a \in Actor : KeysWatcher(a)
UnprotectedIsWatched == LoginWatched /\ KeysWatched

\* And it does stop, or both protections are on again.
UnprotectedEnds ==
  client = "live" /\ ~Protected ~> client # "live" \/ Protected

\* After the orderly end of the program no client of it runs: a start that was on
\* its way is refused or undone.
NothingLeft == phase = "exited" => client # "live"

-----------------------------------------------------------------------------
(* The inductive invariant behind them.                                    *)

\* Who waits for the client to be reaped holds the lock, and then there is no live one.
Waits ==
  /\ \A a \in Actor : At(a, "wait") <=> holder = a
  /\ holder # None => client # "live"

\* The handler that changes the credentials has nothing else to do meanwhile.
ChangingOnly == change # "idle" => At("admin", "idle")

\* What main does while the program closes.
Closing ==
  /\ task["main"].at \in {"idle", "stop", "wait", "gone"} /\ task["main"].then = "end"
  /\ phase = "up" => At("main", "idle")
  /\ At("main", "gone") \/ phase = "exited" => client # "live"

\* The key check is never on without a key.
KeyRemains == keyCheck => keys > 0

IInv ==
  /\ TypeOK /\ LoginIInv
  /\ UnprotectedIsWatched /\ Waits /\ ChangingOnly /\ Closing /\ KeyRemains
=============================================================================
