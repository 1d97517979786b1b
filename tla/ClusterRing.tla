---------------------------- MODULE ClusterRing ----------------------------
(***************************************************************************)
(* cluster.Service on several nodes: one coordinator reserves the runtimes *)
(* of its workers, waits until every worker holds the model, arms them,    *)
(* commits, and keeps leases.  Calls are HTTP requests that may be late or *)
(* lost, replies too; every operation of a node runs under opMu, which the *)
(* coordinator's start, a lease round and a stop keep while they wait for  *)
(* their peers, and which the long model preparation does not keep.        *)
(***************************************************************************)
EXTENDS Naturals, FiniteSets

CONSTANTS
  Node,
  Session,        \* session identifiers; bounds the number of Begin calls
  Coordinator,    \* the node that begins each session
  Workers,        \* the other members of each session
  LocalUsers,     \* nodes whose users also load models on that node alone
  FailingNodes,   \* nodes whose runtime state file may fail to be written
  None

ASSUME MembersAreNodes ==
  /\ Coordinator \in [Session -> Node]
  /\ Workers \in [Session -> SUBSET Node]
  /\ \A s \in Session : Coordinator[s] \notin Workers[s]
  /\ LocalUsers \subseteq Node
  /\ FailingNodes \subseteq Node
  /\ None \notin Session

VARIABLES
  active,    \* s.active: the session of each node
  phase,     \* its Phase
  step,      \* where the session's coordinate or prepareWorker goroutine is
  op,        \* what holds opMu across calls to peers
  fresh,     \* the lease (or the last successful poll) is younger than 20 s
  answer,    \* replies to the call a coordinator is waiting for
  owner,     \* the runtime manager's distributedOwner
  runtime,   \* the live runtime: none, a single-machine one, or a session's
  ready,     \* the runtime manager's Ready
  net,       \* requests sent and not yet handled; a lost one stays here
  used,      \* sessions begun
  began,     \* history: nodes that ever started the session's runtime
  gone       \* history: nodes that joined the session and left it

sessionVars == <<active, phase, step, op, fresh>>
backendVars == <<owner, runtime, ready>>
historyVars == <<used, began, gone>>
vars == <<sessionVars, answer, backendVars, net, historyVars>>

Phase == {"none", "verifying", "synchronizing", "starting", "prepared",
          "armed", "loading", "running"}
Step == {"idle", "previous", "snapshot", "prepare", "poll", "arm", "commit",
         "fetch", "settle", "fail", "done"}
Op == {"free", "start", "lease", "readyLease", "stop"}
Reply == {"none", "ok", "prepared", "refused"}
Kind == {"prepare", "lease", "readyLease", "arm", "commit", "stop"}
Runtime == {<<"none">>, <<"single">>} \cup {<<"ring", s>> : s \in Session}
Lease == {"lease", "readyLease"}   \* without and with the request's Ready
Message == [kind : Kind, session : Session, from : Node, to : Node]

TypeOK ==
  /\ active \in [Node -> Session \cup {None}]
  /\ phase \in [Node -> Phase]
  /\ step \in [Node -> Step]
  /\ op \in [Node -> Op]
  /\ fresh \in [Node -> BOOLEAN]
  /\ answer \in [Node -> [Node -> Reply]]
  /\ owner \in [Node -> Session \cup {None}]
  /\ runtime \in [Node -> Runtime]
  /\ ready \in [Node -> BOOLEAN]
  /\ net \subseteq Message
  /\ used \subseteq Session
  /\ began \in [Session -> SUBSET Node]
  /\ gone \in [Session -> SUBSET Node]

NoRuntime == <<"none">>
Single == <<"single">>
Ring(s) == <<"ring", s>>

Init ==
  /\ active = [n \in Node |-> None]
  /\ phase = [n \in Node |-> "none"]
  /\ step = [n \in Node |-> "idle"]
  /\ op = [n \in Node |-> "free"]
  /\ fresh = [n \in Node |-> FALSE]
  /\ answer = [n \in Node |-> [p \in Node |-> "none"]]
  /\ owner = [n \in Node |-> None]
  /\ runtime = [n \in Node |-> NoRuntime]
  /\ ready = [n \in Node |-> FALSE]
  /\ net = {}
  /\ used = {}
  /\ began = [s \in Session |-> {}]
  /\ gone = [s \in Session |-> {}]

-----------------------------------------------------------------------------
(* Calls.                                                                  *)

Leads(n) == active[n] # None /\ Coordinator[active[n]] = n
Follows(n) == active[n] # None /\ Coordinator[active[n]] # n

\* active.peers: all workers for the coordinator, the coordinator for a worker.
Peers(n) == IF Leads(n) THEN Workers[active[n]] ELSE {Coordinator[active[n]]}

Requests(kind, n, targets) ==
  {[kind |-> kind, session |-> active[n], from |-> n, to |-> p] : p \in targets}

Send(kind, n) == net' = net \cup Requests(kind, n, Peers(n))

NoAnswers(n) == [answer EXCEPT ![n] = [p \in Node |-> "none"]]

\* The sender still waits for this request: an abandoned call ignores replies.
Awaits(m) ==
  /\ active[m.from] = m.session
  /\ \/ step[m.from] = m.kind
     \/ m.kind = "lease" /\ step[m.from] = "poll"
     \/ m.kind = op[m.from]

\* The reply reaches the sender, or is lost.
AnswerWith(m, reply) ==
  \/ UNCHANGED answer
  \/ Awaits(m) /\ answer' = [answer EXCEPT ![m.from][m.to] = reply]

AllAnswered(n, replies) == \A p \in Peers(n) : answer[n][p] \in replies
Refused(n) == \E p \in Peers(n) : answer[n][p] = "refused"

-----------------------------------------------------------------------------
(* Leaving a session.                                                      *)

\* s.active = nil, the last assignment of stopLocked.
Leave(n) ==
  /\ active' = [active EXCEPT ![n] = None]
  /\ phase' = [phase EXCEPT ![n] = "none"]
  /\ fresh' = [fresh EXCEPT ![n] = FALSE]
  /\ op' = [op EXCEPT ![n] = "free"]
  /\ gone' = [gone EXCEPT ![active[n]] = @ \cup {n}]

\* Faulty: the caller's context ended and the child was not killed.
BackendStopGivesUp(n, stopped) == UNCHANGED <<runtime, ready>>

\* backend.Stop: without a writable state file it returns before stopping.
BackendStop(n, stopped) ==
  /\ stopped \/ n \in FailingNodes
  /\ runtime' = IF stopped THEN [runtime EXCEPT ![n] = NoRuntime] ELSE runtime
  /\ ready' = IF stopped THEN [ready EXCEPT ![n] = FALSE] ELSE ready

\* Faulty: only the coordinator gives its reservation back.
ReleaseRingOfCoordinator(n) == IF Leads(n) THEN [owner EXCEPT ![n] = None] ELSE owner

ReleaseRing(n) == [owner EXCEPT ![n] = None]

\* stopLocked up to the notification of targets; its error is not looked at.
StopLocked(n, targets) ==
  /\ \E stopped \in BOOLEAN : BackendStop(n, stopped)
  /\ owner' = ReleaseRing(n)
  /\ step' = [step EXCEPT ![n] = "idle"]
  /\ IF targets = {}
     THEN Leave(n)
     ELSE /\ op' = [op EXCEPT ![n] = "stop"]
          /\ UNCHANGED <<active, phase, fresh, gone>>
  /\ UNCHANGED <<used, began>>

\* The notified peers answered, or three seconds passed.
StopFinish(n) ==
  /\ op[n] = "stop"
  /\ Leave(n)
  /\ UNCHANGED <<step, answer, backendVars, net, used, began>>

\* Stop, and the cluster's part of Shutdown.
Stop(n) ==
  /\ op[n] = "free"
  /\ active[n] # None
  /\ StopLocked(n, Peers(n))
  /\ net' = net \cup Requests("stop", n, Peers(n))
  /\ answer' = NoAnswers(n)

-----------------------------------------------------------------------------
(* The coordinator.                                                        *)

Begin(n, s) ==
  /\ op[n] = "free"
  /\ active[n] = None
  /\ Coordinator[s] = n
  /\ s \notin used
  /\ owner[n] = None
  /\ used' = used \cup {s}
  /\ owner' = [owner EXCEPT ![n] = s]
  /\ active' = [active EXCEPT ![n] = s]
  /\ phase' = [phase EXCEPT ![n] = "verifying"]
  /\ step' = [step EXCEPT ![n] = "previous"]
  /\ fresh' = [fresh EXCEPT ![n] = TRUE]
  /\ UNCHANGED <<op, answer, runtime, ready, net, began, gone>>

\* stopPreviousRuntime, first step of both goroutines.
StopPreviousRuntime(n) ==
  /\ op[n] = "free"
  /\ step[n] = "previous"
  /\ \E stopped \in BOOLEAN :
       /\ BackendStop(n, stopped)
       /\ step' = [step EXCEPT ![n] = IF ~stopped THEN "fail"
                                      ELSE IF Leads(n) THEN "snapshot" ELSE "fetch"]
  /\ UNCHANGED <<active, phase, op, fresh, answer, owner, net, historyVars>>

\* The local model is hashed; every worker is asked to prepare.
Snapshot(n) ==
  /\ step[n] = "snapshot"
  /\ phase' = [phase EXCEPT ![n] = "synchronizing"]
  /\ step' = [step EXCEPT ![n] = "prepare"]
  /\ Send("prepare", n)
  /\ answer' = NoAnswers(n)
  /\ UNCHANGED <<active, op, fresh, backendVars, historyVars>>

Poll(n) ==
  /\ step' = [step EXCEPT ![n] = "poll"]
  /\ Send("lease", n)
  /\ answer' = NoAnswers(n)
  /\ UNCHANGED <<active, phase, op, backendVars, historyVars>>

PrepareAccepted(n) ==
  /\ step[n] = "prepare"
  /\ AllAnswered(n, {"ok"})
  /\ fresh' = [fresh EXCEPT ![n] = TRUE]
  /\ Poll(n)

\* Some worker is not prepared, or has not answered within five seconds.
PollAgain(n) ==
  /\ step[n] = "poll"
  /\ ~Refused(n)
  /\ ~AllAnswered(n, {"prepared"})
  /\ \/ AllAnswered(n, {"ok", "prepared"}) /\ fresh' = [fresh EXCEPT ![n] = TRUE]
     \/ ~AllAnswered(n, {"ok", "prepared"}) /\ fresh[n] /\ UNCHANGED fresh
  /\ Poll(n)

\* A prepare call failed, a worker reported an error, no poll got through for
\* twenty seconds, or the snapshot could not be made.
PreparationFails(n) ==
  /\ \/ step[n] = "snapshot"
     \/ step[n] = "prepare"
     \/ step[n] = "poll" /\ Refused(n)
     \/ step[n] = "poll" /\ ~fresh[n] /\ ~AllAnswered(n, {"ok", "prepared"})
  /\ step' = [step EXCEPT ![n] = "fail"]
  /\ answer' = NoAnswers(n)
  /\ UNCHANGED <<active, phase, op, fresh, backendVars, net, historyVars>>

\* The short last part of coordinate, under opMu: arm, commit, start.
Arm(n) ==
  /\ op[n] = "free"
  /\ step[n] = "poll"
  /\ AllAnswered(n, {"prepared"})
  /\ op' = [op EXCEPT ![n] = "start"]
  /\ phase' = [phase EXCEPT ![n] = "starting"]
  /\ step' = [step EXCEPT ![n] = "arm"]
  /\ Send("arm", n)
  /\ answer' = NoAnswers(n)
  /\ UNCHANGED <<active, fresh, backendVars, historyVars>>

Commit(n) ==
  /\ step[n] = "arm"
  /\ AllAnswered(n, {"ok"})
  /\ step' = [step EXCEPT ![n] = "commit"]
  /\ Send("commit", n)
  /\ answer' = NoAnswers(n)
  /\ UNCHANGED <<active, phase, op, fresh, backendVars, historyVars>>

\* StartRing: refused when the reservation is gone or something still runs.
StartRing(n) ==
  /\ owner[n] = active[n]
  /\ runtime[n] = NoRuntime
  /\ runtime' = [runtime EXCEPT ![n] = Ring(active[n])]
  /\ began' = [began EXCEPT ![active[n]] = @ \cup {n}]
  /\ phase' = [phase EXCEPT ![n] = "loading"]
  /\ fresh' = [fresh EXCEPT ![n] = TRUE]

Committed(n) == AllAnswered(n, {"ok"})

Launch(n) ==
  /\ step[n] = "commit"
  /\ Committed(n)
  /\ StartRing(n)
  /\ step' = [step EXCEPT ![n] = "done"]
  /\ op' = [op EXCEPT ![n] = "free"]
  /\ answer' = NoAnswers(n)
  /\ UNCHANGED <<active, owner, ready, net, used, gone>>

\* An arm or commit call failed or timed out, or StartRing refused.
StartFails(n) ==
  /\ step[n] \in {"arm", "commit"}
  /\ step' = [step EXCEPT ![n] = "fail"]
  /\ op' = [op EXCEPT ![n] = "free"]
  /\ answer' = NoAnswers(n)
  /\ UNCHANGED <<active, phase, fresh, backendVars, net, historyVars>>

\* The goroutine takes opMu again to clean up, if the session is still its own.
FailPreparation(n) ==
  /\ Leads(n)
  /\ step[n] = "fail"
  /\ Stop(n)

-----------------------------------------------------------------------------
(* The worker.                                                             *)

\* The manifest is served only while the coordinator has made its snapshot.
Fetch(n) ==
  /\ step[n] = "fetch"
  /\ LET c == Coordinator[active[n]] IN
       active[c] = active[n] /\ phase[c] # "verifying"
  /\ step' = [step EXCEPT ![n] = "settle"]
  /\ UNCHANGED <<active, phase, op, fresh, answer, backendVars, net, historyVars>>

FetchFails(n) ==
  /\ Follows(n)
  /\ step[n] \in {"fetch", "settle"}
  /\ step' = [step EXCEPT ![n] = "fail"]
  /\ UNCHANGED <<active, phase, op, fresh, answer, backendVars, net, historyVars>>

PrepareWorker(n) ==
  /\ op[n] = "free"
  /\ step[n] = "settle"
  /\ step' = [step EXCEPT ![n] = "done"]
  /\ phase' = [phase EXCEPT ![n] = "prepared"]
  /\ UNCHANGED <<active, op, fresh, answer, backendVars, net, historyVars>>

\* Every request is handled under opMu, in any order.
Received(m) == m \in net /\ op[m.to] = "free"

\* Faulty: the nonce of a handled request is forgotten.
AcceptAgain(m) == net

\* accept: a request is handled at most once.
Accept(m) == net \ {m}

HandlePrepare(m) ==
  LET n == m.to IN
  /\ Received(m)
  /\ m.kind = "prepare"
  /\ net' = Accept(m)
  /\ IF active[n] = None /\ owner[n] = None
     THEN /\ owner' = [owner EXCEPT ![n] = m.session]
          /\ active' = [active EXCEPT ![n] = m.session]
          /\ phase' = [phase EXCEPT ![n] = "synchronizing"]
          /\ step' = [step EXCEPT ![n] = "previous"]
          /\ fresh' = [fresh EXCEPT ![n] = TRUE]
          /\ AnswerWith(m, "ok")
     ELSE /\ AnswerWith(m, "refused")
          /\ UNCHANGED <<owner, active, phase, step, fresh>>
  /\ UNCHANGED <<op, runtime, ready, historyVars>>

\* Faulty: any session of this coordinator will do.
MatchesCoordinator(m) ==
  /\ active[m.to] # None
  /\ Coordinator[active[m.to]] = m.from

\* The request belongs to the active session, and this node is a worker in it.
Matches(m) == active[m.to] = m.session /\ m.from # m.to /\ Follows(m.to)

HandleArm(m) ==
  LET n == m.to IN
  /\ Received(m)
  /\ m.kind = "arm"
  /\ net' = Accept(m)
  /\ IF Matches(m) /\ phase[n] = "prepared"
     THEN /\ phase' = [phase EXCEPT ![n] = "armed"]
          /\ fresh' = [fresh EXCEPT ![n] = TRUE]
          /\ AnswerWith(m, "ok")
     ELSE AnswerWith(m, "refused") /\ UNCHANGED <<phase, fresh>>
  /\ UNCHANGED <<active, step, op, backendVars, historyVars>>

CommitRefused(m) ==
  /\ Received(m)
  /\ m.kind = "commit"
  /\ ~(Matches(m) /\ phase[m.to] = "armed")
  /\ net' = Accept(m)
  /\ AnswerWith(m, "refused")
  /\ UNCHANGED <<sessionVars, backendVars, historyVars>>

HandleCommit(m) ==
  /\ Received(m)
  /\ m.kind = "commit"
  /\ Matches(m)
  /\ phase[m.to] = "armed"
  /\ net' = Accept(m)
  /\ StartRing(m.to)
  /\ AnswerWith(m, "ok")
  /\ UNCHANGED <<active, step, op, owner, ready, used, gone>>

\* StartRing failed: the worker leaves without notifying anybody.
CommitFails(m) ==
  /\ Received(m)
  /\ m.kind = "commit"
  /\ Matches(m)
  /\ phase[m.to] = "armed"
  /\ net' = Accept(m)
  /\ StopLocked(m.to, {})
  /\ AnswerWith(m, "refused")

Serving == {"loading", "running"}

\* Of the phase in the reply the coordinator only compares "prepared".
LeaseReply(n) == IF phase[n] = "prepared" THEN "prepared" ELSE "ok"

HandleLease(m) ==
  LET n == m.to IN
  /\ Received(m)
  /\ m.kind \in Lease
  /\ net' = Accept(m)
  /\ IF Matches(m) /\ step[n] # "fail" /\ (phase[n] \in Serving => runtime[n] # NoRuntime)
     THEN /\ fresh' = [fresh EXCEPT ![n] = TRUE]
          /\ phase' = [phase EXCEPT ![n] =
                         IF m.kind = "readyLease" /\ @ \in Serving THEN "running" ELSE @]
          /\ AnswerWith(m, LeaseReply(n))
     ELSE AnswerWith(m, "refused") /\ UNCHANGED <<fresh, phase>>
  /\ UNCHANGED <<active, step, op, backendVars, historyVars>>

StopApplies(m) ==
  /\ active[m.to] = m.session
  /\ m.from \in Peers(m.to)

\* A worker that leaves tells the coordinator, which tells the other workers.
HandleStop(m) ==
  LET n == m.to
      others == IF Leads(n) THEN Peers(n) \ {m.from} ELSE {}
  IN
  /\ Received(m)
  /\ m.kind = "stop"
  /\ StopApplies(m)
  /\ StopLocked(n, others)
  /\ net' = Accept(m) \cup Requests("stop", n, others)
  /\ answer' = NoAnswers(n)

\* The session is unknown here: nothing to stop.
StopIgnored(m) ==
  /\ Received(m)
  /\ m.kind = "stop"
  /\ ~StopApplies(m)
  /\ net' = Accept(m)
  /\ UNCHANGED <<sessionVars, answer, backendVars, historyVars>>

-----------------------------------------------------------------------------
(* maintain, every two seconds.                                            *)

\* Faulty: a lease is only expected once the ring is armed.
LeaseExpiredWhenArmed(n) ==
  Follows(n) /\ ~fresh[n] /\ phase[n] \in {"armed", "loading", "running"}

\* A worker has not heard of its coordinator for twenty seconds.
LeaseExpired(n) == Follows(n) /\ ~fresh[n]

\* The runtime ended, or the lease did.
MaintainStop(n) ==
  /\ (phase[n] \in Serving /\ runtime[n] = NoRuntime) \/ LeaseExpired(n)
  /\ Stop(n)

LeaseKind(n) == IF ready[n] THEN "readyLease" ELSE "lease"

\* A coordinator that is no longer starting renews its leases.
MaintainLease(n) ==
  /\ op[n] = "free"
  /\ Leads(n)
  /\ phase[n] \in Serving
  /\ runtime[n] # NoRuntime
  /\ op' = [op EXCEPT ![n] = LeaseKind(n)]
  /\ Send(LeaseKind(n), n)
  /\ answer' = NoAnswers(n)
  /\ UNCHANGED <<active, phase, step, fresh, backendVars, historyVars>>

LeaseHeld(n) ==
  /\ op[n] \in Lease
  /\ AllAnswered(n, {"ok"})
  /\ fresh' = [fresh EXCEPT ![n] = TRUE]
  /\ phase' = IF op[n] = "readyLease" THEN [phase EXCEPT ![n] = "running"] ELSE phase
  /\ op' = [op EXCEPT ![n] = "free"]
  /\ answer' = NoAnswers(n)
  /\ UNCHANGED <<active, step, backendVars, net, historyVars>>

\* An error or a timeout ends the session only after twenty seconds of them.
LeaseMissed(n) ==
  /\ op[n] \in Lease
  /\ ~AllAnswered(n, {"ok"})
  /\ IF fresh[n]
     THEN /\ op' = [op EXCEPT ![n] = "free"]
          /\ UNCHANGED <<active, phase, step, fresh, backendVars, net, historyVars>>
     ELSE /\ StopLocked(n, Peers(n))
          /\ net' = net \cup Requests("stop", n, Peers(n))
  /\ answer' = NoAnswers(n)

\* Twenty seconds pass without a lease.
Age(n) ==
  /\ active[n] # None
  /\ fresh[n]
  /\ fresh' = [fresh EXCEPT ![n] = FALSE]
  /\ UNCHANGED <<active, phase, step, op, answer, backendVars, net, historyVars>>

-----------------------------------------------------------------------------
(* The node around the service.                                            *)

\* Faulty: the reservation is not looked at.
StartSingleUnreserved(n) ==
  /\ n \in LocalUsers
  /\ runtime[n] = NoRuntime
  /\ runtime' = [runtime EXCEPT ![n] = Single]
  /\ UNCHANGED <<sessionVars, answer, owner, ready, net, historyVars>>

\* Manager.Start refuses a reserved runtime.
StartSingle(n) ==
  /\ n \in LocalUsers
  /\ owner[n] = None
  /\ runtime[n] = NoRuntime
  /\ runtime' = [runtime EXCEPT ![n] = Single]
  /\ UNCHANGED <<sessionVars, answer, owner, ready, net, historyVars>>

RuntimeReady(n) ==
  /\ Leads(n)
  /\ runtime[n] = Ring(active[n])
  /\ ~ready[n]
  /\ ready' = [ready EXCEPT ![n] = TRUE]
  /\ UNCHANGED <<sessionVars, answer, owner, runtime, net, historyVars>>

\* Faulty: what the health check found is kept for the next runtime.
RuntimeExitStaysReady(n) ==
  /\ runtime[n] # NoRuntime
  /\ runtime' = [runtime EXCEPT ![n] = NoRuntime]
  /\ UNCHANGED <<sessionVars, answer, owner, ready, net, historyVars>>

\* The runtime dies, or the user stops it directly.
RuntimeExit(n) ==
  /\ runtime[n] # NoRuntime
  /\ runtime' = [runtime EXCEPT ![n] = NoRuntime]
  /\ ready' = [ready EXCEPT ![n] = FALSE]
  /\ UNCHANGED <<sessionVars, answer, owner, net, historyVars>>

\* Tanpopo crashes and is launched again: its ring runtime sees standard input
\* close, no session is restored, and its peers are not told.
Crash(n) ==
  /\ active[n] # None
  /\ Leave(n)
  /\ step' = [step EXCEPT ![n] = "idle"]
  /\ answer' = NoAnswers(n)
  /\ owner' = [owner EXCEPT ![n] = None]
  /\ runtime' = [runtime EXCEPT ![n] = NoRuntime]
  /\ ready' = [ready EXCEPT ![n] = FALSE]
  /\ UNCHANGED <<net, used, began>>

-----------------------------------------------------------------------------
Goroutine(n) ==
  \/ StopPreviousRuntime(n) \/ Snapshot(n) \/ PrepareAccepted(n) \/ PollAgain(n)
  \/ PreparationFails(n) \/ Arm(n) \/ Commit(n) \/ Launch(n) \/ StartFails(n)
  \/ FailPreparation(n) \/ Fetch(n) \/ FetchFails(n) \/ PrepareWorker(n)

Maintain(n) ==
  \/ MaintainStop(n) \/ MaintainLease(n) \/ LeaseHeld(n) \/ LeaseMissed(n)

Handle(m) ==
  \/ HandlePrepare(m) \/ HandleArm(m) \/ CommitRefused(m) \/ HandleCommit(m)
  \/ CommitFails(m) \/ HandleLease(m) \/ HandleStop(m) \/ StopIgnored(m)

Environment(n) ==
  \/ StartSingle(n) \/ RuntimeReady(n) \/ RuntimeExit(n) \/ Crash(n) \/ Age(n)

Next ==
  \/ \E n \in Node, s \in Session : Begin(n, s)
  \/ \E n \in Node : Stop(n) \/ StopFinish(n)
  \/ \E n \in Node : Goroutine(n) \/ Maintain(n) \/ Environment(n)
  \/ \E m \in net : Handle(m)

Spec == Init /\ [][Next]_vars

\* Timeouts end every call, the ticker and the goroutines run and time passes.
\* Nothing is assumed of requests: one may never be handled.
Fairness ==
  \A n \in Node :
    /\ WF_vars(Goroutine(n))
    /\ WF_vars(Maintain(n) \/ StopFinish(n))
    /\ WF_vars(Age(n))

FairSpec == Spec /\ Fairness

-----------------------------------------------------------------------------
(* Properties.                                                             *)

\* The coordinator's runtime is started last: by then every worker has started
\* its own for the same session, whatever was late, lost or abandoned.
CoordinatorLast ==
  \A s \in Session : Coordinator[s] \in began[s] => Workers[s] \subseteq began[s]

\* A member reports the session as running only when the whole group has been
\* started: no renewal of an earlier session may promote it.
NobodyServesAlone ==
  \A n \in Node : phase[n] = "running" =>
    Workers[active[n]] \cup {Coordinator[active[n]]} \subseteq began[active[n]]

\* A ring runtime always has the session that can end it: leaving a session by
\* any of its ways has stopped the runtime.
RingHasSession ==
  \A n \in Node, s \in Session : runtime[n] = Ring(s) => active[n] = s

\* A reservation never outlives its session, or the node could neither join
\* another one nor load a model by itself.
NoLeakedReservation ==
  \A n \in Node : owner[n] # None => owner[n] = active[n]

\* Reserve first, then stop the single-machine runtime: from the preparation on
\* none can come back while the reservation is held.
SingleStaysAway ==
  \A n \in Node :
    owner[n] # None /\ step[n] \notin {"previous", "fail"} => runtime[n] # Single

\* A member left the session, or lost its runtime while serving.
Broken(s) ==
  \/ gone[s] # {}
  \/ \E n \in Node : active[n] = s /\ phase[n] \in Serving /\ runtime[n] # Ring(s)

Over(s) == \A n \in Node : active[n] # s /\ runtime[n] # Ring(s)

\* Once one member is gone the whole group ends for good, although the stop
\* requests may never arrive: leases reclaim whoever was not told.
GroupEnds == \A s \in Session : Broken(s) ~> []Over(s)

-----------------------------------------------------------------------------
(* The inductive invariant behind the safety properties.                   *)

Members(s) == Workers[s] \cup {Coordinator[s]}

\* What the goroutine, the phase and opMu say of each other.
SessionShape ==
  \A n \in Node :
    /\ active[n] = None <=> phase[n] = "none"
    /\ active[n] = None => step[n] = "idle" /\ op[n] = "free"
    /\ active[n] # None => active[n] \in used /\ n \in Members(active[n])
    /\ step[n] \in {"snapshot", "prepare", "poll", "arm", "commit"} => Leads(n)
    /\ Leads(n) /\ step[n] \in {"previous", "snapshot"} => phase[n] = "verifying"
    /\ step[n] \in {"fetch", "settle"} => Follows(n)
    /\ step[n] \in {"arm", "commit"} => op[n] = "start"
    /\ op[n] = "stop" => step[n] = "idle"
    /\ op[n] \in Lease => Leads(n) /\ phase[n] \in Serving

\* The reservation is the session's until a stop releases it.
OwnerShape ==
  \A n \in Node :
    /\ owner[n] # None => owner[n] = active[n]
    /\ active[n] # None /\ op[n] # "stop" => owner[n] = active[n]
    /\ op[n] = "stop" => owner[n] = None

\* Holds where state files can be written.
RuntimeShape ==
  \A n \in Node, s \in Session :
    runtime[n] = Ring(s) => active[n] = s /\ op[n] # "stop"

\* Who counts on whose start.
StartShape ==
  /\ \A n \in Node : phase[n] \in Serving => n \in began[active[n]]
  /\ \A n \in Node : phase[n] = "running" => Coordinator[active[n]] \in began[active[n]]
  /\ \A n \in Node : step[n] = "commit" =>
       \A w \in Node : answer[n][w] = "ok" => w \in began[active[n]]
  /\ \A m \in net : m.kind = "readyLease" => Coordinator[m.session] \in began[m.session]

\* A session is offered once to each worker, by its coordinator.
OfferShape ==
  /\ \A m \in net : m.kind = "prepare" =>
       /\ m.from = Coordinator[m.session] /\ m.to \in Workers[m.session]
       /\ m.session \in used
       /\ m.to \notin gone[m.session] /\ active[m.to] # m.session
  /\ \A n \in Node : Leads(n) /\ step[n] \in {"previous", "snapshot"} =>
       /\ \A w \in Workers[active[n]] : active[w] # active[n] /\ w \notin gone[active[n]]
       /\ \A m \in net : m.kind = "prepare" => m.session # active[n]
  /\ \A s \in Session \ used : gone[s] = {}
  /\ \A s \in Session : \A n \in gone[s] : active[n] # s

\* What the goroutine has made of the phase.
StepShape ==
  \A n \in Node :
    /\ Follows(n) /\ step[n] \in {"previous", "fetch", "settle"} => phase[n] = "synchronizing"
    /\ step[n] \in {"prepare", "poll"} => phase[n] = "synchronizing"
    /\ step[n] \in {"arm", "commit"} => phase[n] = "starting"

\* A member starts a session's runtime at most once, and while it is in it.
OnceShape ==
  /\ \A n \in Node : active[n] # None /\ phase[n] \notin Serving => n \notin began[active[n]]
  /\ \A s \in Session : \A n \in began[s] : active[n] = s \/ n \in gone[s]
  /\ \A s \in Session \ used : began[s] = {}

\* Readiness ends with the runtime it was asked of.
ReadyShape == \A n \in Node : runtime[n] = NoRuntime => ~ready[n]

IInv ==
  /\ TypeOK
  /\ SessionShape
  /\ OwnerShape
  /\ StartShape
  /\ OfferShape
  /\ SingleStaysAway
  /\ CoordinatorLast

\* The protocol implements the start barrier of RingGroup.
Group == INSTANCE RingGroup
ImplementsRingGroup == Group!Spec

\* The runtime of a node as the interface Backend shows it.
Lent(n) ==
  IF runtime[n] = NoRuntime THEN "none" ELSE IF runtime[n] = Single THEN "single" ELSE "ring"

Backend(n) == INSTANCE RingBackend WITH
  owner <- owner[n], runtime <- Lent(n), ready <- ready[n]

\* The cluster asks of the runtime of each node only what a RingBackend does.
UsesRingBackend ==
  /\ \A n \in Node : Backend(n)!Init
  /\ [][\A n \in Node : [Backend(n)!Next]_(Backend(n)!vars)]_vars
=============================================================================
