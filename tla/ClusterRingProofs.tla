-------------------------- MODULE ClusterRingProofs --------------------------
EXTENDS ClusterRing, TLAPS

USE MembersAreNodes
USE DEF Phase, Step, Op, Reply, Kind, Serving, Lease, Leads, Follows, Members,
        sessionVars, backendVars, historyVars

\* The values a node's runtime can have are distinct.
LEMMA RuntimeValues ==
  /\ NoRuntime \in Runtime /\ Single \in Runtime /\ NoRuntime # Single
  /\ \A s \in Session :
       /\ Ring(s) \in Runtime /\ Ring(s) # NoRuntime /\ Ring(s) # Single
       /\ \A t \in Session : Ring(s) = Ring(t) => s = t
  BY DEF NoRuntime, Single, Ring, Runtime

\* What one round of requests adds to the network.
LEMMA RequestsFields ==
  ASSUME TypeOK, NEW kind \in Kind, NEW n \in Node, NEW targets \in SUBSET Node,
         active[n] \in Session, net' \subseteq net \cup Requests(kind, n, targets)
  PROVE  /\ net' \subseteq Message
         /\ \A m \in net' : m \in net \/
              /\ m.kind = kind /\ m.session = active[n] /\ m.from = n
              /\ m.to \in targets
  BY DEF Requests, Message, TypeOK

\* A request in the network is well typed.
LEMMA MessageFields ==
  ASSUME TypeOK, NEW m \in net
  PROVE  /\ m.kind \in Kind /\ m.session \in Session /\ m.from \in Node
         /\ m.to \in Node
  BY DEF TypeOK, Message

\* The peers of a member are nodes.
LEMMA PeersAreNodes ==
  ASSUME NEW n \in Node, active[n] \in Session
  PROVE  Peers(n) \in SUBSET Node
  BY DEF Peers

\* A reply changes one entry, and only of a call that waits for it.
LEMMA OneAnswer ==
  ASSUME TypeOK, NEW m \in net, NEW reply \in Reply, AnswerWith(m, reply)
  PROVE  /\ answer' \in [Node -> [Node -> Reply]]
         /\ \A n, w \in Node :
              \/ answer'[n][w] = answer[n][w]
              \/ n = m.from /\ w = m.to /\ answer'[n][w] = reply /\ Awaits(m)
  <1>1. /\ m.from \in Node /\ m.to \in Node
        /\ answer \in [Node -> [Node -> Reply]]
    BY MessageFields DEF TypeOK
  <1>2. CASE UNCHANGED answer
    BY <1>1, <1>2
  <1>3. CASE Awaits(m) /\ answer' = [answer EXCEPT ![m.from][m.to] = reply]
    <2> DEFINE row == [answer[m.from] EXCEPT ![m.to] = reply]
    <2>1. row \in [Node -> Reply] /\ \A w \in Node : row[w] = IF w = m.to THEN reply ELSE answer[m.from][w]
      BY <1>1
    <2>2. answer' = [answer EXCEPT ![m.from] = row]
      BY <1>3
    <2> QED
      BY <1>1, <1>3, <2>1, <2>2
  <1> QED
    BY <1>2, <1>3 DEF AnswerWith

\* What stopLocked leaves of a member.
LEMMA StopLockedFields ==
  ASSUME TypeOK, NEW n \in Node, active[n] \in Session,
         NEW targets \in SUBSET Node, StopLocked(n, targets)
  PROVE  /\ UNCHANGED <<used, began>>
         /\ active' \in [Node -> Session \cup {None}] /\ phase' \in [Node -> Phase]
         /\ step' \in [Node -> Step] /\ op' \in [Node -> Op]
         /\ fresh' \in [Node -> BOOLEAN] /\ owner' \in [Node -> Session \cup {None}]
         /\ runtime' \in [Node -> Runtime] /\ ready' \in [Node -> BOOLEAN]
         /\ gone' \in [Session -> SUBSET Node]
         /\ step'[n] = "idle" /\ owner'[n] = None
         /\ runtime'[n] = runtime[n] \/ runtime'[n] = NoRuntime
         /\ \A p \in Node : p # n =>
              /\ active'[p] = active[p] /\ phase'[p] = phase[p] /\ step'[p] = step[p]
              /\ op'[p] = op[p] /\ owner'[p] = owner[p] /\ runtime'[p] = runtime[p]
         /\ \/ /\ active'[n] = None /\ phase'[n] = "none" /\ op'[n] = "free"
               /\ \A s \in Session :
                    gone'[s] = IF s = active[n] THEN gone[s] \cup {n} ELSE gone[s]
            \/ UNCHANGED <<active, phase, gone>> /\ op'[n] = "stop"
  <1>1. /\ UNCHANGED <<used, began>>
        /\ step' \in [Node -> Step] /\ step'[n] = "idle"
        /\ \A p \in Node : p # n => step'[p] = step[p]
    BY DEF TypeOK, StopLocked
  <1>2. /\ owner' \in [Node -> Session \cup {None}] /\ owner'[n] = None
        /\ \A p \in Node : p # n => owner'[p] = owner[p]
    BY DEF TypeOK, StopLocked, ReleaseRing
  <1>3. /\ runtime' \in [Node -> Runtime] /\ ready' \in [Node -> BOOLEAN]
        /\ runtime'[n] = runtime[n] \/ runtime'[n] = NoRuntime
        /\ \A p \in Node : p # n => runtime'[p] = runtime[p]
    <2>1. PICK stopped \in BOOLEAN : BackendStop(n, stopped)
      BY DEF StopLocked
    <2>2. CASE stopped
      BY <2>1, <2>2, RuntimeValues DEF TypeOK, BackendStop
    <2>3. CASE ~stopped
      BY <2>1, <2>3 DEF TypeOK, BackendStop
    <2> QED
      BY <2>2, <2>3
  <1>4. CASE targets = {}
    <2>1. Leave(n)
      BY <1>4 DEF StopLocked
    <2>2. /\ active' \in [Node -> Session \cup {None}] /\ active'[n] = None
          /\ phase' \in [Node -> Phase] /\ phase'[n] = "none"
          /\ \A p \in Node : p # n => active'[p] = active[p] /\ phase'[p] = phase[p]
      BY <2>1 DEF TypeOK, Leave
    <2>3. /\ op' \in [Node -> Op] /\ op'[n] = "free" /\ fresh' \in [Node -> BOOLEAN]
          /\ \A p \in Node : p # n => op'[p] = op[p]
      BY <2>1 DEF TypeOK, Leave
    <2>4. /\ gone' \in [Session -> SUBSET Node]
          /\ \A s \in Session :
               gone'[s] = IF s = active[n] THEN gone[s] \cup {n} ELSE gone[s]
      <3>1. /\ gone' = [gone EXCEPT ![active[n]] = @ \cup {n}]
            /\ gone \in [Session -> SUBSET Node]
        BY <2>1 DEF TypeOK, Leave
      <3> HIDE DEF StopLocked
      <3>2. gone[active[n]] \cup {n} \in SUBSET Node
        BY <3>1
      <3> QED
        BY <3>1, <3>2
    <2> HIDE DEF StopLocked
    <2> QED
      BY <1>1, <1>2, <1>3, <2>2, <2>3, <2>4
  <1>5. CASE targets # {}
    <2>1. op' = [op EXCEPT ![n] = "stop"] /\ UNCHANGED <<active, phase, fresh, gone>>
      BY <1>5 DEF StopLocked
    <2> QED
      BY <1>1, <1>2, <1>3, <2>1 DEF TypeOK
  <1> HIDE DEF StopLocked
  <1> QED
    BY <1>4, <1>5

\* Leaving a session keeps the invariant, whoever is told of it.
LEMMA StopLockedStep ==
  ASSUME IInv, NEW n \in Node, active[n] \in Session,
         NEW targets \in SUBSET Node, StopLocked(n, targets),
         net' \subseteq Message, \A q \in net' : q \in net \/ q.kind = "stop",
         answer' \in [Node -> [Node -> Reply]],
         \A p, w \in Node : step[p] = "commit" /\ answer'[p][w] = "ok" => answer[p][w] = "ok"
  PROVE  IInv'
  <1> TypeOK /\ SessionShape /\ OwnerShape /\ StartShape /\ OfferShape
        /\ SingleStaysAway /\ CoordinatorLast
    BY DEF IInv
  <1>1. TypeOK'
    BY StopLockedFields DEF TypeOK
  <1>a. /\ UNCHANGED <<used, began>> /\ step'[n] = "idle" /\ owner'[n] = None
        /\ runtime'[n] = runtime[n] \/ runtime'[n] = NoRuntime
        /\ \/ /\ active'[n] = None /\ phase'[n] = "none" /\ op'[n] = "free"
              /\ \A s \in Session :
                   gone'[s] = IF s = active[n] THEN gone[s] \cup {n} ELSE gone[s]
           \/ UNCHANGED <<active, phase, gone>> /\ op'[n] = "stop"
    BY StopLockedFields
  <1>b. \A p \in Node : p # n =>
          /\ active'[p] = active[p] /\ phase'[p] = phase[p] /\ step'[p] = step[p]
          /\ op'[p] = op[p] /\ owner'[p] = owner[p] /\ runtime'[p] = runtime[p]
    BY StopLockedFields
  <1>2. SessionShape'
    BY <1>a, <1>b DEF TypeOK, SessionShape
  <1>3. OwnerShape'
    BY <1>a, <1>b DEF TypeOK, SessionShape, OwnerShape
  <1>4. StartShape'
    <2>1. \A p \in Node : phase'[p] \in Serving =>
            phase[p] \in Serving /\ active'[p] = active[p] /\ phase'[p] = phase[p]
      BY StopLockedFields DEF TypeOK
    <2>2. \A p \in Node : step'[p] = "commit" =>
            step[p] = "commit" /\ active'[p] = active[p]
      BY StopLockedFields DEF TypeOK
    <2>3. began' = began
      BY StopLockedFields
    <2>4. StartShape
      OBVIOUS
    <2> HIDE DEF StopLocked
    <2> QED
      BY <2>1, <2>2, <2>3, <2>4 DEF StartShape
  <1>5. OfferShape'
    <2>1. used' = used /\ \A p \in Node : active'[p] = active[p] \/ active'[p] = None
      BY StopLockedFields DEF TypeOK
    <2>2. \A p \in Node : step'[p] \in {"previous", "snapshot"} =>
            p # n /\ step'[p] = step[p] /\ active'[p] = active[p]
      BY StopLockedFields DEF TypeOK
    <2>3. \A s \in Session : \A p \in gone'[s] :
            p \in gone[s] \/ (p = n /\ s = active[n] /\ active'[n] = None)
      <3> TAKE s \in Session
      <3>1. gone'[s] = gone[s] \/ (gone'[s] = gone[s] \cup {n} /\ s = active[n] /\ active'[n] = None)
        BY <1>a
      <3> QED
        BY <3>1
    <2>4. \A q \in net' : q.kind = "prepare" => q \in net
      OBVIOUS
    <2>5. \A q \in net' : q.kind = "prepare" => q.session \in Session /\ q.to \in Node
      BY DEF Message
    <2>6. \A q \in net' : q.kind = "prepare" =>
            /\ q.from = Coordinator[q.session] /\ q.to \in Workers[q.session]
            /\ q.session \in used'
            /\ q.to \notin gone'[q.session] /\ active'[q.to] # q.session
      BY <2>1, <2>3, <2>4, <2>5 DEF OfferShape
    <2>7. \A p \in Node : Leads(p)' /\ step'[p] \in {"previous", "snapshot"} =>
            /\ \A w \in Workers[active'[p]] : active'[w] # active'[p] /\ w \notin gone'[active'[p]]
            /\ \A q \in net' : q.kind = "prepare" => q.session # active'[p]
      BY <2>1, <2>2, <2>3, <2>4 DEF OfferShape, TypeOK
    <2>8. \A s \in Session \ used' : gone'[s] = {}
      <3> TAKE s \in Session \ used'
      <3>1. active[n] # s
        BY <2>1 DEF SessionShape, TypeOK
      <3>2. gone[s] = {}
        BY <2>1 DEF OfferShape
      <3> QED
        BY <2>3, <3>1, <3>2
    <2>9. \A s \in Session : \A p \in gone'[s] : active'[p] # s
      <3> SUFFICES ASSUME NEW s \in Session, NEW p \in gone'[s] PROVE active'[p] # s
        OBVIOUS
      <3>1. CASE p = n /\ s = active[n] /\ active'[n] = None
        BY <3>1
      <3>2. CASE p \in gone[s]
        <4>1. p \in Node /\ active[p] # s
          BY <3>2 DEF OfferShape, TypeOK
        <4> QED
          BY <2>1, <4>1
      <3> QED
        BY <2>3, <3>1, <3>2
    <2> QED
      BY <2>6, <2>7, <2>8, <2>9 DEF OfferShape
  <1>6. SingleStaysAway'
    BY <1>a, <1>b DEF SingleStaysAway
  <1>7. CoordinatorLast'
    BY StopLockedFields DEF CoordinatorLast
  <1> QED
    BY <1>1, <1>2, <1>3, <1>4, <1>5, <1>6, <1>7 DEF IInv

\* Only a commit is answered while its sender is committing.
LEMMA AnswerToCommit ==
  ASSUME TypeOK, SessionShape, NEW m \in net, NEW reply \in Reply, AnswerWith(m, reply)
  PROVE  \A p, w \in Node : step[p] = "commit" =>
           \/ answer'[p][w] = answer[p][w]
           \/ /\ p = m.from /\ w = m.to /\ answer'[p][w] = reply
              /\ m.kind = "commit" /\ active[p] = m.session
  BY OneAnswer, MessageFields DEF Awaits, SessionShape

\* There is one request of a kind between two nodes for a session.
LEMMA OneOffer ==
  ASSUME NEW q \in Message, NEW m \in Message, q.kind = m.kind,
         q.session = m.session, q.from = m.from, q.to = m.to
  PROVE  q = m
  BY DEF Message

\* A request that changes nothing but the network and the answers.
LEMMA OnlyAnswered ==
  ASSUME IInv, NEW m \in net, NEW reply \in Reply, AnswerWith(m, reply),
         m.kind = "commit" => reply # "ok",
         net' \subseteq net, UNCHANGED <<sessionVars, backendVars, historyVars>>
  PROVE  IInv'
  <1> TypeOK /\ SessionShape
    BY DEF IInv
  <1>1. TypeOK'
    BY OneAnswer DEF TypeOK
  <1>2. SessionShape' /\ OwnerShape' /\ SingleStaysAway' /\ CoordinatorLast'
    BY DEF IInv, SessionShape, OwnerShape, SingleStaysAway, CoordinatorLast
  <1>3. StartShape'
    BY AnswerToCommit DEF IInv, StartShape
  <1>4. OfferShape'
    BY DEF IInv, OfferShape
  <1> QED
    BY <1>1, <1>2, <1>3, <1>4 DEF IInv

\* Begin keeps the invariant.
LEMMA BeginStep ==
  ASSUME IInv, NEW n \in Node, NEW s \in Session, Begin(n, s)
  PROVE  IInv'
  <1>1. TypeOK'
    BY RuntimeValues DEF IInv, TypeOK, Begin
  <1>2. SessionShape'
    BY DEF IInv, TypeOK, SessionShape, Begin
  <1>3. OwnerShape'
    BY DEF IInv, TypeOK, SessionShape, OwnerShape, Begin
  <1>4. StartShape'
    BY DEF IInv, TypeOK, SessionShape, StartShape, Begin
  <1>5. OfferShape'
    BY DEF IInv, TypeOK, SessionShape, OfferShape, Begin
  <1>6. SingleStaysAway'
    BY RuntimeValues DEF IInv, TypeOK, SessionShape, OwnerShape,
         SingleStaysAway, Begin
  <1>7. CoordinatorLast'
    BY DEF IInv, TypeOK, SessionShape, StartShape, CoordinatorLast, Begin
  <1> QED
    BY <1>1, <1>2, <1>3, <1>4, <1>5, <1>6, <1>7 DEF IInv

\* StopFinish keeps the invariant.
LEMMA StopFinishStep ==
  ASSUME IInv, NEW n \in Node, StopFinish(n)
  PROVE  IInv'
  <1>1. TypeOK'
    BY RuntimeValues DEF IInv, TypeOK, StopFinish, Leave
  <1>2. SessionShape'
    BY DEF IInv, TypeOK, SessionShape, StopFinish, Leave
  <1>3. OwnerShape'
    BY DEF IInv, TypeOK, SessionShape, OwnerShape, StopFinish, Leave
  <1>4. StartShape'
    BY DEF IInv, TypeOK, SessionShape, StartShape, StopFinish, Leave
  <1>5. OfferShape'
    BY DEF IInv, TypeOK, SessionShape, OfferShape, StopFinish, Leave
  <1>6. SingleStaysAway'
    BY RuntimeValues DEF IInv, TypeOK, SessionShape, OwnerShape,
         SingleStaysAway, StopFinish, Leave
  <1>7. CoordinatorLast'
    BY DEF IInv, TypeOK, SessionShape, StartShape, CoordinatorLast,
         StopFinish, Leave
  <1> QED
    BY <1>1, <1>2, <1>3, <1>4, <1>5, <1>6, <1>7 DEF IInv

\* Stop keeps the invariant.
LEMMA StopStep ==
  ASSUME IInv, NEW n \in Node, Stop(n)
  PROVE  IInv'
  <1>1. TypeOK /\ active[n] \in Session /\ "stop" \in Kind
    BY DEF IInv, TypeOK, Stop
  <1>2. Peers(n) \in SUBSET Node
    BY <1>1, PeersAreNodes
  <1>3. net' \subseteq net \cup Requests("stop", n, Peers(n))
    BY DEF Stop
  <1>4. net' \subseteq Message /\ \A q \in net' : q \in net \/ q.kind = "stop"
    BY <1>1, <1>2, <1>3, RequestsFields
  <1>5. /\ answer' \in [Node -> [Node -> Reply]]
        /\ \A p, w \in Node : answer'[p][w] = "ok" => answer[p][w] = "ok"
    BY <1>1 DEF TypeOK, Stop, NoAnswers
  <1>6. StopLocked(n, Peers(n))
    BY DEF Stop
  <1> QED
    BY <1>1, <1>2, <1>4, <1>5, <1>6, StopLockedStep

\* StopPreviousRuntime keeps the invariant.
LEMMA StopPreviousRuntimeStep ==
  ASSUME IInv, NEW n \in Node, StopPreviousRuntime(n)
  PROVE  IInv'
  <1>1. TypeOK'
    BY RuntimeValues DEF IInv, TypeOK, StopPreviousRuntime, BackendStop
  <1>2. SessionShape'
    BY DEF IInv, TypeOK, SessionShape, StopPreviousRuntime, BackendStop
  <1>3. OwnerShape'
    BY DEF IInv, TypeOK, SessionShape, OwnerShape, StopPreviousRuntime,
         BackendStop
  <1>4. StartShape'
    BY DEF IInv, TypeOK, SessionShape, StartShape, StopPreviousRuntime,
         BackendStop
  <1>5. OfferShape'
    BY DEF IInv, TypeOK, SessionShape, OfferShape, StopPreviousRuntime,
         BackendStop
  <1>6. SingleStaysAway'
    BY RuntimeValues DEF IInv, TypeOK, SessionShape, OwnerShape,
         SingleStaysAway, StopPreviousRuntime, BackendStop
  <1>7. CoordinatorLast'
    BY DEF IInv, TypeOK, SessionShape, StartShape, CoordinatorLast,
         StopPreviousRuntime, BackendStop
  <1> QED
    BY <1>1, <1>2, <1>3, <1>4, <1>5, <1>6, <1>7 DEF IInv

\* Snapshot keeps the invariant.
LEMMA SnapshotStep ==
  ASSUME IInv, NEW n \in Node, Snapshot(n)
  PROVE  IInv'
  <1>a. n \in Node /\ active[n] \in Session /\ Peers(n) \in SUBSET Node
    BY PeersAreNodes DEF IInv, TypeOK, SessionShape, Snapshot, Send, NoAnswers
  <1>b. net' \subseteq net \cup Requests("prepare", n, Peers(n))
    BY <1>a DEF Snapshot, Send
  <1>c. "prepare" \in Kind
    OBVIOUS
  <1>d. TypeOK
    BY DEF IInv
  <1>e. /\ net' \subseteq Message
        /\ \A q \in net' : q \in net \/
             /\ q.kind = "prepare" /\ q.session = active[n] /\ q.from = n
             /\ q.to \in Peers(n)
    BY <1>a, <1>b, <1>c, <1>d, RequestsFields
  <1>1. TypeOK'
    BY <1>a, <1>e, RuntimeValues DEF IInv, TypeOK, Snapshot, Send, NoAnswers
  <1>2. SessionShape'
    BY <1>a DEF IInv, TypeOK, SessionShape, Snapshot, Send, NoAnswers
  <1>3. OwnerShape'
    BY <1>a DEF IInv, TypeOK, SessionShape, OwnerShape, Snapshot, Send,
         NoAnswers
  <1>4. StartShape'
    BY <1>a, <1>e DEF IInv, TypeOK, SessionShape, StartShape, Snapshot, Send,
         NoAnswers
  <1>5. OfferShape'
    <2>1. /\ OfferShape /\ SessionShape /\ step[n] = "snapshot" /\ step'[n] = "prepare"
          /\ \A p \in Node \ {n} : step'[p] = step[p]
          /\ UNCHANGED <<active, gone, used>>
      BY <1>d DEF IInv, TypeOK, Snapshot, historyVars
    <2>2. Leads(n) /\ active[n] \in used /\ Peers(n) = Workers[active[n]]
      BY <1>a, <2>1 DEF SessionShape, Peers, Leads
    <2>3. \A q \in net' : q.kind = "prepare" =>
            /\ q.from = Coordinator[q.session] /\ q.to \in Workers[q.session]
            /\ q.session \in used
            /\ q.to \notin gone[q.session] /\ active[q.to] # q.session
      BY <1>a, <1>e, <2>1, <2>2 DEF OfferShape, Leads
    <2>4. ASSUME NEW p \in Node, Leads(p)', step'[p] \in {"previous", "snapshot"}
          PROVE  /\ \A w \in Workers[active'[p]] :
                      active'[w] # active'[p] /\ w \notin gone'[active'[p]]
                 /\ \A q \in net' : q.kind = "prepare" => q.session # active'[p]
      <3>1. p # n /\ Leads(p) /\ step[p] \in {"previous", "snapshot"}
        BY <2>1, <2>4 DEF Leads
      <3>2. active[n] # active[p]
        BY <1>a, <2>1, <2>2, <3>1 DEF Leads
      <3> QED
        BY <1>e, <2>1, <3>1, <3>2 DEF OfferShape
    <2> QED
      BY <2>1, <2>3, <2>4 DEF OfferShape
  <1>6. SingleStaysAway'
    BY <1>a, RuntimeValues DEF IInv, TypeOK, SessionShape, OwnerShape,
         SingleStaysAway, Snapshot, Send, NoAnswers
  <1>7. CoordinatorLast'
    BY <1>a DEF IInv, TypeOK, SessionShape, StartShape, CoordinatorLast,
         Snapshot, Send, NoAnswers
  <1> QED
    BY <1>1, <1>2, <1>3, <1>4, <1>5, <1>6, <1>7 DEF IInv

\* PrepareAccepted keeps the invariant.
LEMMA PrepareAcceptedStep ==
  ASSUME IInv, NEW n \in Node, PrepareAccepted(n)
  PROVE  IInv'
  <1>a. n \in Node /\ active[n] \in Session /\ Peers(n) \in SUBSET Node
    BY PeersAreNodes DEF IInv, TypeOK, SessionShape, PrepareAccepted, Poll,
         Send, NoAnswers
  <1>b. net' \subseteq net \cup Requests("lease", n, Peers(n))
    BY <1>a DEF PrepareAccepted, Poll, Send
  <1>c. "lease" \in Kind
    OBVIOUS
  <1>d. TypeOK
    BY DEF IInv
  <1>e. /\ net' \subseteq Message
        /\ \A q \in net' : q \in net \/
             /\ q.kind = "lease" /\ q.session = active[n] /\ q.from = n
             /\ q.to \in Peers(n)
    BY <1>a, <1>b, <1>c, <1>d, RequestsFields
  <1>1. TypeOK'
    BY <1>a, <1>e, RuntimeValues DEF IInv, TypeOK, PrepareAccepted, Poll,
         Send, NoAnswers
  <1>2. SessionShape'
    BY <1>a DEF IInv, TypeOK, SessionShape, PrepareAccepted, Poll, Send,
         NoAnswers
  <1>3. OwnerShape'
    BY <1>a DEF IInv, TypeOK, SessionShape, OwnerShape, PrepareAccepted, Poll,
         Send, NoAnswers
  <1>4. StartShape'
    BY <1>a, <1>e DEF IInv, TypeOK, SessionShape, StartShape, PrepareAccepted,
         Poll, Send, NoAnswers
  <1>5. OfferShape'
    BY <1>a, <1>e DEF IInv, TypeOK, SessionShape, OfferShape, PrepareAccepted,
         Poll, Send, Peers, NoAnswers
  <1>6. SingleStaysAway'
    BY <1>a, RuntimeValues DEF IInv, TypeOK, SessionShape, OwnerShape,
         SingleStaysAway, PrepareAccepted, Poll, Send, NoAnswers
  <1>7. CoordinatorLast'
    BY <1>a DEF IInv, TypeOK, SessionShape, StartShape, CoordinatorLast,
         PrepareAccepted, Poll, Send, NoAnswers
  <1> QED
    BY <1>1, <1>2, <1>3, <1>4, <1>5, <1>6, <1>7 DEF IInv

\* PollAgain keeps the invariant.
LEMMA PollAgainStep ==
  ASSUME IInv, NEW n \in Node, PollAgain(n)
  PROVE  IInv'
  <1>a. n \in Node /\ active[n] \in Session /\ Peers(n) \in SUBSET Node
    BY PeersAreNodes DEF IInv, TypeOK, SessionShape, PollAgain, Poll, Send,
         NoAnswers
  <1>b. net' \subseteq net \cup Requests("lease", n, Peers(n))
    BY <1>a DEF PollAgain, Poll, Send
  <1>c. "lease" \in Kind
    OBVIOUS
  <1>d. TypeOK
    BY DEF IInv
  <1>e. /\ net' \subseteq Message
        /\ \A q \in net' : q \in net \/
             /\ q.kind = "lease" /\ q.session = active[n] /\ q.from = n
             /\ q.to \in Peers(n)
    BY <1>a, <1>b, <1>c, <1>d, RequestsFields
  <1>1. TypeOK'
    BY <1>a, <1>e, RuntimeValues DEF IInv, TypeOK, PollAgain, Poll, Send,
         NoAnswers
  <1>2. SessionShape'
    BY <1>a DEF IInv, TypeOK, SessionShape, PollAgain, Poll, Send, NoAnswers
  <1>3. OwnerShape'
    BY <1>a DEF IInv, TypeOK, SessionShape, OwnerShape, PollAgain, Poll, Send,
         NoAnswers
  <1>4. StartShape'
    BY <1>a, <1>e DEF IInv, TypeOK, SessionShape, StartShape, PollAgain, Poll,
         Send, NoAnswers
  <1>5. OfferShape'
    BY <1>a, <1>e DEF IInv, TypeOK, SessionShape, OfferShape, PollAgain, Poll,
         Send, Peers, NoAnswers
  <1>6. SingleStaysAway'
    BY <1>a, RuntimeValues DEF IInv, TypeOK, SessionShape, OwnerShape,
         SingleStaysAway, PollAgain, Poll, Send, NoAnswers
  <1>7. CoordinatorLast'
    BY <1>a DEF IInv, TypeOK, SessionShape, StartShape, CoordinatorLast,
         PollAgain, Poll, Send, NoAnswers
  <1> QED
    BY <1>1, <1>2, <1>3, <1>4, <1>5, <1>6, <1>7 DEF IInv

\* PreparationFails keeps the invariant.
LEMMA PreparationFailsStep ==
  ASSUME IInv, NEW n \in Node, PreparationFails(n)
  PROVE  IInv'
  <1>1. TypeOK'
    BY RuntimeValues DEF IInv, TypeOK, PreparationFails, NoAnswers
  <1>2. SessionShape'
    BY DEF IInv, TypeOK, SessionShape, PreparationFails, NoAnswers
  <1>3. OwnerShape'
    BY DEF IInv, TypeOK, SessionShape, OwnerShape, PreparationFails, NoAnswers
  <1>4. StartShape'
    BY DEF IInv, TypeOK, SessionShape, StartShape, PreparationFails, NoAnswers
  <1>5. OfferShape'
    BY DEF IInv, TypeOK, SessionShape, OfferShape, PreparationFails, NoAnswers
  <1>6. SingleStaysAway'
    BY RuntimeValues DEF IInv, TypeOK, SessionShape, OwnerShape,
         SingleStaysAway, PreparationFails, NoAnswers
  <1>7. CoordinatorLast'
    BY DEF IInv, TypeOK, SessionShape, StartShape, CoordinatorLast,
         PreparationFails, NoAnswers
  <1> QED
    BY <1>1, <1>2, <1>3, <1>4, <1>5, <1>6, <1>7 DEF IInv

\* Arm keeps the invariant.
LEMMA ArmStep ==
  ASSUME IInv, NEW n \in Node, Arm(n)
  PROVE  IInv'
  <1>a. n \in Node /\ active[n] \in Session /\ Peers(n) \in SUBSET Node
    BY PeersAreNodes DEF IInv, TypeOK, SessionShape, Arm, Send, NoAnswers
  <1>b. net' \subseteq net \cup Requests("arm", n, Peers(n))
    BY <1>a DEF Arm, Send
  <1>c. "arm" \in Kind
    OBVIOUS
  <1>d. TypeOK
    BY DEF IInv
  <1>e. /\ net' \subseteq Message
        /\ \A q \in net' : q \in net \/
             /\ q.kind = "arm" /\ q.session = active[n] /\ q.from = n
             /\ q.to \in Peers(n)
    BY <1>a, <1>b, <1>c, <1>d, RequestsFields
  <1>1. TypeOK'
    BY <1>a, <1>e, RuntimeValues DEF IInv, TypeOK, Arm, Send, NoAnswers
  <1>2. SessionShape'
    BY <1>a DEF IInv, TypeOK, SessionShape, Arm, Send, NoAnswers
  <1>3. OwnerShape'
    BY <1>a DEF IInv, TypeOK, SessionShape, OwnerShape, Arm, Send, NoAnswers
  <1>4. StartShape'
    BY <1>a, <1>e DEF IInv, TypeOK, SessionShape, StartShape, Arm, Send,
         NoAnswers
  <1>5. OfferShape'
    BY <1>a, <1>e DEF IInv, TypeOK, SessionShape, OfferShape, Arm, Send,
         Peers, NoAnswers
  <1>6. SingleStaysAway'
    BY <1>a, RuntimeValues DEF IInv, TypeOK, SessionShape, OwnerShape,
         SingleStaysAway, Arm, Send, NoAnswers
  <1>7. CoordinatorLast'
    BY <1>a DEF IInv, TypeOK, SessionShape, StartShape, CoordinatorLast, Arm,
         Send, NoAnswers
  <1> QED
    BY <1>1, <1>2, <1>3, <1>4, <1>5, <1>6, <1>7 DEF IInv

\* Commit keeps the invariant.
LEMMA CommitStep ==
  ASSUME IInv, NEW n \in Node, Commit(n)
  PROVE  IInv'
  <1>a. n \in Node /\ active[n] \in Session /\ Peers(n) \in SUBSET Node
    BY PeersAreNodes DEF IInv, TypeOK, SessionShape, Commit, Send, NoAnswers
  <1>b. net' \subseteq net \cup Requests("commit", n, Peers(n))
    BY <1>a DEF Commit, Send
  <1>c. "commit" \in Kind
    OBVIOUS
  <1>d. TypeOK
    BY DEF IInv
  <1>e. /\ net' \subseteq Message
        /\ \A q \in net' : q \in net \/
             /\ q.kind = "commit" /\ q.session = active[n] /\ q.from = n
             /\ q.to \in Peers(n)
    BY <1>a, <1>b, <1>c, <1>d, RequestsFields
  <1>1. TypeOK'
    BY <1>a, <1>e, RuntimeValues DEF IInv, TypeOK, Commit, Send, NoAnswers
  <1>2. SessionShape'
    BY <1>a DEF IInv, TypeOK, SessionShape, Commit, Send, NoAnswers
  <1>3. OwnerShape'
    BY <1>a DEF IInv, TypeOK, SessionShape, OwnerShape, Commit, Send,
         NoAnswers
  <1>4. StartShape'
    BY <1>a, <1>e DEF IInv, TypeOK, SessionShape, StartShape, Commit, Send,
         NoAnswers
  <1>5. OfferShape'
    BY <1>a, <1>e DEF IInv, TypeOK, SessionShape, OfferShape, Commit, Send,
         Peers, NoAnswers
  <1>6. SingleStaysAway'
    BY <1>a, RuntimeValues DEF IInv, TypeOK, SessionShape, OwnerShape,
         SingleStaysAway, Commit, Send, NoAnswers
  <1>7. CoordinatorLast'
    BY <1>a DEF IInv, TypeOK, SessionShape, StartShape, CoordinatorLast,
         Commit, Send, NoAnswers
  <1> QED
    BY <1>1, <1>2, <1>3, <1>4, <1>5, <1>6, <1>7 DEF IInv

\* Launch keeps the invariant.
LEMMA LaunchStep ==
  ASSUME IInv, NEW n \in Node, Launch(n)
  PROVE  IInv'
  <1>1. TypeOK'
    <2>1. active[n] \in Session /\ NoRuntime \in Runtime
      BY RuntimeValues DEF IInv, TypeOK, SessionShape, Launch
    <2>2. Ring(active[n]) \in Runtime
      BY <2>1, RuntimeValues
    <2> QED
      BY <2>1, <2>2 DEF IInv, TypeOK, Launch, StartRing, NoAnswers
  <1>2. SessionShape'
    BY DEF IInv, TypeOK, SessionShape, Launch, StartRing, Committed,
         AllAnswered, Peers, NoAnswers
  <1>3. OwnerShape'
    BY DEF IInv, TypeOK, SessionShape, OwnerShape, Launch, StartRing,
         Committed, AllAnswered, Peers, NoAnswers
  <1>4. StartShape'
    BY DEF IInv, TypeOK, SessionShape, StartShape, Launch, StartRing,
         Committed, AllAnswered, Peers, NoAnswers
  <1>5. OfferShape'
    BY DEF IInv, TypeOK, SessionShape, OfferShape, Launch, StartRing,
         Committed, AllAnswered, Peers, NoAnswers
  <1>6. SingleStaysAway'
    BY RuntimeValues DEF IInv, TypeOK, SessionShape, OwnerShape,
         SingleStaysAway, Launch, StartRing, Committed, AllAnswered, Peers,
         NoAnswers
  <1>7. CoordinatorLast'
    BY DEF IInv, TypeOK, SessionShape, StartShape, CoordinatorLast, Launch,
         StartRing, Committed, AllAnswered, Peers, NoAnswers
  <1> QED
    BY <1>1, <1>2, <1>3, <1>4, <1>5, <1>6, <1>7 DEF IInv

\* StartFails keeps the invariant.
LEMMA StartFailsStep ==
  ASSUME IInv, NEW n \in Node, StartFails(n)
  PROVE  IInv'
  <1>1. TypeOK'
    BY RuntimeValues DEF IInv, TypeOK, StartFails, NoAnswers
  <1>2. SessionShape'
    BY DEF IInv, TypeOK, SessionShape, StartFails, NoAnswers
  <1>3. OwnerShape'
    BY DEF IInv, TypeOK, SessionShape, OwnerShape, StartFails, NoAnswers
  <1>4. StartShape'
    BY DEF IInv, TypeOK, SessionShape, StartShape, StartFails, NoAnswers
  <1>5. OfferShape'
    BY DEF IInv, TypeOK, SessionShape, OfferShape, StartFails, NoAnswers
  <1>6. SingleStaysAway'
    BY RuntimeValues DEF IInv, TypeOK, SessionShape, OwnerShape,
         SingleStaysAway, StartFails, NoAnswers
  <1>7. CoordinatorLast'
    BY DEF IInv, TypeOK, SessionShape, StartShape, CoordinatorLast,
         StartFails, NoAnswers
  <1> QED
    BY <1>1, <1>2, <1>3, <1>4, <1>5, <1>6, <1>7 DEF IInv

\* Fetch keeps the invariant.
LEMMA FetchStep ==
  ASSUME IInv, NEW n \in Node, Fetch(n)
  PROVE  IInv'
  <1>1. TypeOK'
    BY RuntimeValues DEF IInv, TypeOK, Fetch
  <1>2. SessionShape'
    BY DEF IInv, TypeOK, SessionShape, Fetch
  <1>3. OwnerShape'
    BY DEF IInv, TypeOK, SessionShape, OwnerShape, Fetch
  <1>4. StartShape'
    BY DEF IInv, TypeOK, SessionShape, StartShape, Fetch
  <1>5. OfferShape'
    BY DEF IInv, TypeOK, SessionShape, OfferShape, Fetch
  <1>6. SingleStaysAway'
    BY RuntimeValues DEF IInv, TypeOK, SessionShape, OwnerShape,
         SingleStaysAway, Fetch
  <1>7. CoordinatorLast'
    BY DEF IInv, TypeOK, SessionShape, StartShape, CoordinatorLast, Fetch
  <1> QED
    BY <1>1, <1>2, <1>3, <1>4, <1>5, <1>6, <1>7 DEF IInv

\* FetchFails keeps the invariant.
LEMMA FetchFailsStep ==
  ASSUME IInv, NEW n \in Node, FetchFails(n)
  PROVE  IInv'
  <1>1. TypeOK'
    BY RuntimeValues DEF IInv, TypeOK, FetchFails
  <1>2. SessionShape'
    BY DEF IInv, TypeOK, SessionShape, FetchFails
  <1>3. OwnerShape'
    BY DEF IInv, TypeOK, SessionShape, OwnerShape, FetchFails
  <1>4. StartShape'
    BY DEF IInv, TypeOK, SessionShape, StartShape, FetchFails
  <1>5. OfferShape'
    BY DEF IInv, TypeOK, SessionShape, OfferShape, FetchFails
  <1>6. SingleStaysAway'
    BY RuntimeValues DEF IInv, TypeOK, SessionShape, OwnerShape,
         SingleStaysAway, FetchFails
  <1>7. CoordinatorLast'
    BY DEF IInv, TypeOK, SessionShape, StartShape, CoordinatorLast, FetchFails
  <1> QED
    BY <1>1, <1>2, <1>3, <1>4, <1>5, <1>6, <1>7 DEF IInv

\* PrepareWorker keeps the invariant.
LEMMA PrepareWorkerStep ==
  ASSUME IInv, NEW n \in Node, PrepareWorker(n)
  PROVE  IInv'
  <1>1. TypeOK'
    BY RuntimeValues DEF IInv, TypeOK, PrepareWorker
  <1>2. SessionShape'
    BY DEF IInv, TypeOK, SessionShape, PrepareWorker
  <1>3. OwnerShape'
    BY DEF IInv, TypeOK, SessionShape, OwnerShape, PrepareWorker
  <1>4. StartShape'
    BY DEF IInv, TypeOK, SessionShape, StartShape, PrepareWorker
  <1>5. OfferShape'
    BY DEF IInv, TypeOK, SessionShape, OfferShape, PrepareWorker
  <1>6. SingleStaysAway'
    BY RuntimeValues DEF IInv, TypeOK, SessionShape, OwnerShape,
         SingleStaysAway, PrepareWorker
  <1>7. CoordinatorLast'
    BY DEF IInv, TypeOK, SessionShape, StartShape, CoordinatorLast,
         PrepareWorker
  <1> QED
    BY <1>1, <1>2, <1>3, <1>4, <1>5, <1>6, <1>7 DEF IInv

\* MaintainLease keeps the invariant.
LEMMA MaintainLeaseStep ==
  ASSUME IInv, NEW n \in Node, MaintainLease(n)
  PROVE  IInv'
  <1>a. n \in Node /\ active[n] \in Session /\ Peers(n) \in SUBSET Node
    BY PeersAreNodes DEF IInv, TypeOK, SessionShape, MaintainLease, LeaseKind,
         Send, NoAnswers
  <1>b. net' \subseteq net \cup Requests(LeaseKind(n), n, Peers(n))
    BY <1>a DEF MaintainLease, Send
  <1>c. LeaseKind(n) \in Kind
    BY DEF LeaseKind
  <1>d. TypeOK
    BY DEF IInv
  <1>e. /\ net' \subseteq Message
        /\ \A q \in net' : q \in net \/
             /\ q.kind = LeaseKind(n) /\ q.session = active[n] /\ q.from = n
             /\ q.to \in Peers(n)
    BY <1>a, <1>b, <1>c, <1>d, RequestsFields
  <1>1. TypeOK'
    BY <1>a, <1>e, RuntimeValues DEF IInv, TypeOK, MaintainLease, LeaseKind,
         Send, NoAnswers
  <1>2. SessionShape'
    BY <1>a DEF IInv, TypeOK, SessionShape, MaintainLease, LeaseKind, Send,
         NoAnswers
  <1>3. OwnerShape'
    BY <1>a DEF IInv, TypeOK, SessionShape, OwnerShape, MaintainLease,
         LeaseKind, Send, NoAnswers
  <1>4. StartShape'
    BY <1>a, <1>e DEF IInv, TypeOK, SessionShape, StartShape, MaintainLease,
         LeaseKind, Send, NoAnswers
  <1>5. OfferShape'
    BY <1>a, <1>e DEF IInv, TypeOK, SessionShape, OfferShape, MaintainLease,
         LeaseKind, Send, Peers, NoAnswers
  <1>6. SingleStaysAway'
    BY <1>a, RuntimeValues DEF IInv, TypeOK, SessionShape, OwnerShape,
         SingleStaysAway, MaintainLease, LeaseKind, Send, NoAnswers
  <1>7. CoordinatorLast'
    BY <1>a DEF IInv, TypeOK, SessionShape, StartShape, CoordinatorLast,
         MaintainLease, LeaseKind, Send, NoAnswers
  <1> QED
    BY <1>1, <1>2, <1>3, <1>4, <1>5, <1>6, <1>7 DEF IInv

\* LeaseHeld keeps the invariant.
LEMMA LeaseHeldStep ==
  ASSUME IInv, NEW n \in Node, LeaseHeld(n)
  PROVE  IInv'
  <1>1. TypeOK'
    BY RuntimeValues DEF IInv, TypeOK, LeaseHeld, NoAnswers
  <1>2. SessionShape'
    BY DEF IInv, TypeOK, SessionShape, LeaseHeld, NoAnswers
  <1>3. OwnerShape'
    BY DEF IInv, TypeOK, SessionShape, OwnerShape, LeaseHeld, NoAnswers
  <1>4. StartShape'
    BY DEF IInv, TypeOK, SessionShape, StartShape, LeaseHeld, NoAnswers
  <1>5. OfferShape'
    BY DEF IInv, TypeOK, SessionShape, OfferShape, LeaseHeld, NoAnswers
  <1>6. SingleStaysAway'
    BY RuntimeValues DEF IInv, TypeOK, SessionShape, OwnerShape,
         SingleStaysAway, LeaseHeld, NoAnswers
  <1>7. CoordinatorLast'
    BY DEF IInv, TypeOK, SessionShape, StartShape, CoordinatorLast, LeaseHeld,
         NoAnswers
  <1> QED
    BY <1>1, <1>2, <1>3, <1>4, <1>5, <1>6, <1>7 DEF IInv

\* LeaseMissed keeps the invariant.
LEMMA LeaseMissedStep ==
  ASSUME IInv, NEW n \in Node, LeaseMissed(n)
  PROVE  IInv'
  <1> TypeOK /\ active[n] \in Session /\ "stop" \in Kind
    BY DEF IInv, TypeOK, SessionShape, LeaseMissed
  <1>1. /\ answer' \in [Node -> [Node -> Reply]]
        /\ \A p, w \in Node : answer'[p][w] = "ok" => answer[p][w] = "ok"
    BY DEF TypeOK, LeaseMissed, NoAnswers
  <1>2. CASE fresh[n]
    <2>1. /\ op[n] \in Lease /\ op' = [op EXCEPT ![n] = "free"]
          /\ UNCHANGED <<active, phase, step, fresh, owner, runtime, ready, net,
                         used, began, gone>>
      BY <1>2 DEF LeaseMissed, backendVars, historyVars
    <2>2. TypeOK'
      BY <1>1, <2>1 DEF TypeOK
    <2>3. SessionShape' /\ OwnerShape'
      BY <2>1 DEF IInv, TypeOK, SessionShape, OwnerShape
    <2>4. StartShape'
      BY <1>1, <2>1 DEF IInv, StartShape
    <2>5. OfferShape'
      BY <2>1 DEF IInv, OfferShape
    <2>6. SingleStaysAway' /\ CoordinatorLast'
      BY <2>1 DEF IInv, SingleStaysAway, CoordinatorLast
    <2> QED
      BY <2>2, <2>3, <2>4, <2>5, <2>6 DEF IInv
  <1>3. CASE ~fresh[n]
    <2>1. Peers(n) \in SUBSET Node
      BY PeersAreNodes
    <2>2. /\ StopLocked(n, Peers(n))
          /\ net' \subseteq net \cup Requests("stop", n, Peers(n))
      BY <1>3 DEF LeaseMissed
    <2>3. net' \subseteq Message /\ \A q \in net' : q \in net \/ q.kind = "stop"
      BY <2>1, <2>2, RequestsFields
    <2> QED
      BY <1>1, <2>1, <2>2, <2>3, StopLockedStep
  <1> QED
    BY <1>2, <1>3

\* StartSingle keeps the invariant.
LEMMA StartSingleStep ==
  ASSUME IInv, NEW n \in Node, StartSingle(n)
  PROVE  IInv'
  <1>1. TypeOK'
    BY RuntimeValues DEF IInv, TypeOK, StartSingle
  <1>2. SessionShape'
    BY DEF IInv, TypeOK, SessionShape, StartSingle
  <1>3. OwnerShape'
    BY DEF IInv, TypeOK, SessionShape, OwnerShape, StartSingle
  <1>4. StartShape'
    BY DEF IInv, TypeOK, SessionShape, StartShape, StartSingle
  <1>5. OfferShape'
    BY DEF IInv, TypeOK, SessionShape, OfferShape, StartSingle
  <1>6. SingleStaysAway'
    BY RuntimeValues DEF IInv, TypeOK, SessionShape, OwnerShape,
         SingleStaysAway, StartSingle
  <1>7. CoordinatorLast'
    BY DEF IInv, TypeOK, SessionShape, StartShape, CoordinatorLast,
         StartSingle
  <1> QED
    BY <1>1, <1>2, <1>3, <1>4, <1>5, <1>6, <1>7 DEF IInv

\* RuntimeReady keeps the invariant.
LEMMA RuntimeReadyStep ==
  ASSUME IInv, NEW n \in Node, RuntimeReady(n)
  PROVE  IInv'
  <1>1. TypeOK'
    BY RuntimeValues DEF IInv, TypeOK, RuntimeReady
  <1>2. SessionShape'
    BY DEF IInv, TypeOK, SessionShape, RuntimeReady
  <1>3. OwnerShape'
    BY DEF IInv, TypeOK, SessionShape, OwnerShape, RuntimeReady
  <1>4. StartShape'
    BY DEF IInv, TypeOK, SessionShape, StartShape, RuntimeReady
  <1>5. OfferShape'
    BY DEF IInv, TypeOK, SessionShape, OfferShape, RuntimeReady
  <1>6. SingleStaysAway'
    BY RuntimeValues DEF IInv, TypeOK, SessionShape, OwnerShape,
         SingleStaysAway, RuntimeReady
  <1>7. CoordinatorLast'
    BY DEF IInv, TypeOK, SessionShape, StartShape, CoordinatorLast,
         RuntimeReady
  <1> QED
    BY <1>1, <1>2, <1>3, <1>4, <1>5, <1>6, <1>7 DEF IInv

\* RuntimeExit keeps the invariant.
LEMMA RuntimeExitStep ==
  ASSUME IInv, NEW n \in Node, RuntimeExit(n)
  PROVE  IInv'
  <1>1. TypeOK'
    BY RuntimeValues DEF IInv, TypeOK, RuntimeExit
  <1>2. SessionShape'
    BY DEF IInv, TypeOK, SessionShape, RuntimeExit
  <1>3. OwnerShape'
    BY DEF IInv, TypeOK, SessionShape, OwnerShape, RuntimeExit
  <1>4. StartShape'
    BY DEF IInv, TypeOK, SessionShape, StartShape, RuntimeExit
  <1>5. OfferShape'
    BY DEF IInv, TypeOK, SessionShape, OfferShape, RuntimeExit
  <1>6. SingleStaysAway'
    BY RuntimeValues DEF IInv, TypeOK, SessionShape, OwnerShape,
         SingleStaysAway, RuntimeExit
  <1>7. CoordinatorLast'
    BY DEF IInv, TypeOK, SessionShape, StartShape, CoordinatorLast,
         RuntimeExit
  <1> QED
    BY <1>1, <1>2, <1>3, <1>4, <1>5, <1>6, <1>7 DEF IInv

\* Crash keeps the invariant.
LEMMA CrashStep ==
  ASSUME IInv, NEW n \in Node, Crash(n)
  PROVE  IInv'
  <1>1. TypeOK'
    BY RuntimeValues DEF IInv, TypeOK, Crash, Leave, NoAnswers
  <1>2. SessionShape'
    BY DEF IInv, TypeOK, SessionShape, Crash, Leave, NoAnswers
  <1>3. OwnerShape'
    BY DEF IInv, TypeOK, SessionShape, OwnerShape, Crash, Leave, NoAnswers
  <1>4. StartShape'
    BY DEF IInv, TypeOK, SessionShape, StartShape, Crash, Leave, NoAnswers
  <1>5. OfferShape'
    BY DEF IInv, TypeOK, SessionShape, OfferShape, Crash, Leave, NoAnswers
  <1>6. SingleStaysAway'
    BY RuntimeValues DEF IInv, TypeOK, SessionShape, OwnerShape,
         SingleStaysAway, Crash, Leave, NoAnswers
  <1>7. CoordinatorLast'
    BY DEF IInv, TypeOK, SessionShape, StartShape, CoordinatorLast, Crash,
         Leave, NoAnswers
  <1> QED
    BY <1>1, <1>2, <1>3, <1>4, <1>5, <1>6, <1>7 DEF IInv

\* Age keeps the invariant.
LEMMA AgeStep ==
  ASSUME IInv, NEW n \in Node, Age(n)
  PROVE  IInv'
  <1>1. TypeOK'
    BY RuntimeValues DEF IInv, TypeOK, Age
  <1>2. SessionShape'
    BY DEF IInv, TypeOK, SessionShape, Age
  <1>3. OwnerShape'
    BY DEF IInv, TypeOK, SessionShape, OwnerShape, Age
  <1>4. StartShape'
    BY DEF IInv, TypeOK, SessionShape, StartShape, Age
  <1>5. OfferShape'
    BY DEF IInv, TypeOK, SessionShape, OfferShape, Age
  <1>6. SingleStaysAway'
    BY RuntimeValues DEF IInv, TypeOK, SessionShape, OwnerShape,
         SingleStaysAway, Age
  <1>7. CoordinatorLast'
    BY DEF IInv, TypeOK, SessionShape, StartShape, CoordinatorLast, Age
  <1> QED
    BY <1>1, <1>2, <1>3, <1>4, <1>5, <1>6, <1>7 DEF IInv

\* HandlePrepare keeps the invariant.
LEMMA HandlePrepareStep ==
  ASSUME IInv, NEW m \in net, HandlePrepare(m)
  PROVE  IInv'
  <1> DEFINE n == m.to
  <1> TypeOK /\ SessionShape /\ OwnerShape /\ StartShape /\ OfferShape
      /\ SingleStaysAway /\ CoordinatorLast
    BY DEF IInv
  <1> n \in Node /\ m.from \in Node /\ m.session \in Session
      /\ "refused" \in Reply /\ "ok" \in Reply
    BY MessageFields
  <1>1. net' \subseteq net
    BY DEF HandlePrepare, Accept
  <1>2. CASE ~(active[n] = None /\ owner[n] = None)
    <2>1. AnswerWith(m, "refused") /\ UNCHANGED <<sessionVars, backendVars, historyVars>>
      BY <1>2 DEF HandlePrepare
    <2> QED
      BY <1>1, <2>1, OnlyAnswered
  <1>3. CASE active[n] = None /\ owner[n] = None
    <2>1. /\ m.kind = "prepare" /\ AnswerWith(m, "ok") /\ net' = net \ {m}
          /\ owner' = [owner EXCEPT ![n] = m.session]
          /\ active' = [active EXCEPT ![n] = m.session]
          /\ phase' = [phase EXCEPT ![n] = "synchronizing"]
          /\ step' = [step EXCEPT ![n] = "previous"]
          /\ fresh' = [fresh EXCEPT ![n] = TRUE]
          /\ UNCHANGED <<op, runtime, ready, used, began, gone>>
      BY <1>3 DEF HandlePrepare, Accept, historyVars
    <2>2. m.session # None
      BY DEF TypeOK
    <2>3. TypeOK'
      <3>1. answer' \in [Node -> [Node -> Reply]]
        BY <2>1, OneAnswer
      <3> QED
        BY <1>1, <2>1, <3>1 DEF TypeOK
    <2>4. SessionShape'
      BY <1>3, <2>1, <2>2 DEF TypeOK, SessionShape, OfferShape
    <2>5. OwnerShape'
      BY <1>3, <2>1, <2>2 DEF TypeOK, SessionShape, OwnerShape
    <2>6. StartShape'
      <3>1. \A p \in Node : phase'[p] \in Serving =>
              p # n /\ phase'[p] = phase[p] /\ active'[p] = active[p]
        BY <2>1 DEF TypeOK
      <3>2. \A p \in Node : step'[p] = "commit" =>
              /\ step[p] = "commit" /\ active'[p] = active[p]
              /\ \A w \in Node : answer'[p][w] = answer[p][w]
        BY <2>1, AnswerToCommit DEF TypeOK
      <3> QED
        BY <1>1, <2>1, <3>1, <3>2 DEF StartShape
    <2>7. OfferShape'
      <3>1. /\ n \in Workers[m.session] /\ n # Coordinator[m.session]
            /\ n \notin gone[m.session] /\ m.session \in used
        BY <2>1 DEF OfferShape
      <3>2. \A p \in Node : p # n => active'[p] = active[p] /\ step'[p] = step[p]
        BY <2>1 DEF TypeOK
      <3>3. active'[n] = m.session
        BY <2>1 DEF TypeOK
      <3>4. \A q \in net' : q.kind = "prepare" =>
              q \in net /\ q.to \in Node /\ (q.to = n => q.session # m.session)
        BY <2>1, <3>1, OneOffer, MessageFields DEF TypeOK, OfferShape
      <3>5. \A q \in net' : q.kind = "prepare" =>
              /\ q.from = Coordinator[q.session] /\ q.to \in Workers[q.session]
              /\ q.session \in used'
              /\ q.to \notin gone'[q.session] /\ active'[q.to] # q.session
        BY <2>1, <3>2, <3>3, <3>4 DEF OfferShape
      <3>6. \A p \in Node : Leads(p)' /\ step'[p] \in {"previous", "snapshot"} =>
              /\ p # n /\ Leads(p) /\ step[p] \in {"previous", "snapshot"}
              /\ active'[p] = active[p] /\ active[p] # m.session
        BY <2>1, <3>1, <3>2, <3>3 DEF OfferShape
      <3>7. \A p \in Node : Leads(p)' /\ step'[p] \in {"previous", "snapshot"} =>
              /\ \A w \in Workers[active'[p]] : active'[w] # active'[p] /\ w \notin gone'[active'[p]]
              /\ \A q \in net' : q.kind = "prepare" => q.session # active'[p]
        BY <1>1, <2>1, <3>2, <3>3, <3>6 DEF OfferShape, TypeOK
      <3>8. \A s \in Session : \A p \in gone'[s] : active'[p] # s
        BY <2>1, <3>1, <3>2, <3>3 DEF OfferShape, TypeOK
      <3>9. \A s \in Session \ used' : gone'[s] = {}
        BY <2>1 DEF OfferShape
      <3> QED
        BY <3>5, <3>7, <3>8, <3>9 DEF OfferShape
    <2>8. SingleStaysAway'
      BY <2>1 DEF TypeOK, SingleStaysAway
    <2>9. CoordinatorLast'
      BY <2>1 DEF CoordinatorLast
    <2> QED
      BY <2>3, <2>4, <2>5, <2>6, <2>7, <2>8, <2>9 DEF IInv
  <1> QED
    BY <1>2, <1>3

\* HandleArm keeps the invariant.
LEMMA HandleArmStep ==
  ASSUME IInv, NEW m \in net, HandleArm(m)
  PROVE  IInv'
  <1> DEFINE n == m.to
  <1> TypeOK /\ SessionShape /\ OwnerShape /\ StartShape /\ OfferShape
      /\ SingleStaysAway /\ CoordinatorLast
    BY DEF IInv
  <1> n \in Node /\ m.from \in Node /\ m.session \in Session
      /\ "refused" \in Reply /\ "ok" \in Reply
    BY MessageFields
  <1>1. net' \subseteq net
    BY DEF HandleArm, Accept
  <1>2. CASE ~(Matches(m) /\ phase[n] = "prepared")
    <2>1. AnswerWith(m, "refused") /\ UNCHANGED <<sessionVars, backendVars, historyVars>>
      BY <1>2 DEF HandleArm
    <2> QED
      BY <1>1, <2>1, OnlyAnswered
  <1>3. CASE Matches(m) /\ phase[n] = "prepared"
    <2>1. /\ m.kind = "arm" /\ AnswerWith(m, "ok")
          /\ phase' = [phase EXCEPT ![n] = "armed"]
          /\ fresh' = [fresh EXCEPT ![n] = TRUE]
          /\ UNCHANGED <<active, step, op, owner, runtime, ready, used, began, gone>>
      BY <1>3 DEF HandleArm, backendVars, historyVars
    <2>2. TypeOK'
      <3>1. answer' \in [Node -> [Node -> Reply]]
        BY <2>1, OneAnswer
      <3> QED
        BY <1>1, <2>1, <3>1 DEF TypeOK
    <2>3. SessionShape'
      BY <1>3, <2>1 DEF TypeOK, SessionShape, Matches
    <2>4. StartShape'
      <3>1. \A p \in Node : phase'[p] \in Serving => phase'[p] = phase[p]
        BY <2>1 DEF TypeOK
      <3>2. \A p, w \in Node : step[p] = "commit" => answer'[p][w] = answer[p][w]
        BY <2>1, AnswerToCommit
      <3> QED
        BY <1>1, <2>1, <3>1, <3>2 DEF StartShape
    <2>5. OfferShape'
      BY <1>1, <2>1 DEF OfferShape
    <2>6. OwnerShape' /\ SingleStaysAway' /\ CoordinatorLast'
      BY <2>1 DEF OwnerShape, SingleStaysAway, CoordinatorLast
    <2> QED
      BY <2>2, <2>3, <2>4, <2>5, <2>6 DEF IInv
  <1> QED
    BY <1>2, <1>3

\* CommitRefused keeps the invariant.
LEMMA CommitRefusedStep ==
  ASSUME IInv, NEW m \in net, CommitRefused(m)
  PROVE  IInv'
  <1> "refused" \in Reply
    OBVIOUS
  <1>1. /\ AnswerWith(m, "refused") /\ net' \subseteq net
        /\ UNCHANGED <<sessionVars, backendVars, historyVars>>
    BY DEF CommitRefused, Accept
  <1> QED
    BY <1>1, OnlyAnswered

\* HandleCommit keeps the invariant.
LEMMA HandleCommitStep ==
  ASSUME IInv, NEW m \in net, HandleCommit(m)
  PROVE  IInv'
  <1>1. TypeOK'
    BY RuntimeValues, MessageFields, OneAnswer DEF IInv, TypeOK, HandleCommit,
         Received, Accept, Matches, StartRing
  <1>2. SessionShape'
    BY MessageFields DEF IInv, TypeOK, SessionShape, HandleCommit, Received,
         Accept, Matches, StartRing
  <1>3. OwnerShape'
    BY MessageFields DEF IInv, TypeOK, SessionShape, OwnerShape, HandleCommit,
         Received, Accept, Matches, StartRing
  <1>4. StartShape'
    BY MessageFields, OneAnswer DEF IInv, TypeOK, SessionShape, StartShape,
         HandleCommit, Received, Accept, Matches, StartRing, Awaits
  <1>5. OfferShape'
    BY MessageFields DEF IInv, TypeOK, SessionShape, OfferShape, HandleCommit,
         Received, Accept, Matches, StartRing
  <1>6. SingleStaysAway'
    BY RuntimeValues, MessageFields DEF IInv, TypeOK, SessionShape,
         OwnerShape, SingleStaysAway, HandleCommit, Received, Accept, Matches,
         StartRing
  <1>7. CoordinatorLast'
    BY MessageFields DEF IInv, TypeOK, SessionShape, StartShape,
         CoordinatorLast, HandleCommit, Received, Accept, Matches, StartRing
  <1> QED
    BY <1>1, <1>2, <1>3, <1>4, <1>5, <1>6, <1>7 DEF IInv

\* CommitFails keeps the invariant.
LEMMA CommitFailsStep ==
  ASSUME IInv, NEW m \in net, CommitFails(m)
  PROVE  IInv'
  <1> TypeOK /\ SessionShape /\ m.to \in Node /\ active[m.to] \in Session
      /\ {} \in SUBSET Node /\ "refused" \in Reply
    BY MessageFields DEF IInv, CommitFails, Matches
  <1>1. StopLocked(m.to, {}) /\ AnswerWith(m, "refused")
    BY DEF CommitFails
  <1>2. net' \subseteq Message /\ \A q \in net' : q \in net \/ q.kind = "stop"
    BY DEF TypeOK, CommitFails, Accept
  <1>3. /\ answer' \in [Node -> [Node -> Reply]]
        /\ \A p, w \in Node : answer'[p][w] = "ok" => answer[p][w] = "ok"
    BY <1>1, OneAnswer
  <1> QED
    BY <1>1, <1>2, <1>3, StopLockedStep

\* HandleLease keeps the invariant.
LEMMA HandleLeaseStep ==
  ASSUME IInv, NEW m \in net, HandleLease(m)
  PROVE  IInv'
  <1> DEFINE n == m.to
  <1> TypeOK /\ SessionShape /\ OwnerShape /\ StartShape /\ OfferShape
      /\ SingleStaysAway /\ CoordinatorLast
    BY DEF IInv
  <1> n \in Node /\ m.from \in Node /\ m.session \in Session
      /\ "refused" \in Reply /\ "ok" \in Reply
    BY MessageFields
  <1>1. net' \subseteq net
    BY DEF HandleLease, Accept
  <1>2. CASE ~(Matches(m) /\ step[n] # "fail" /\ (phase[n] \in Serving => runtime[n] # NoRuntime))
    <2>1. AnswerWith(m, "refused") /\ UNCHANGED <<sessionVars, backendVars, historyVars>>
      BY <1>2 DEF HandleLease
    <2> QED
      BY <1>1, <2>1, OnlyAnswered
  <1>3. CASE Matches(m) /\ step[n] # "fail" /\ (phase[n] \in Serving => runtime[n] # NoRuntime)
    <2>1. /\ m.kind \in Lease /\ AnswerWith(m, LeaseReply(n))
          /\ phase' = [phase EXCEPT ![n] =
                         IF m.kind = "readyLease" /\ @ \in Serving THEN "running" ELSE @]
          /\ fresh' = [fresh EXCEPT ![n] = TRUE]
          /\ UNCHANGED <<active, step, op, owner, runtime, ready, used, began, gone>>
      BY <1>3 DEF HandleLease, backendVars, historyVars
    <2>a. LeaseReply(n) \in Reply
      BY DEF LeaseReply
    <2>b. /\ \A p \in Node : p # n => phase'[p] = phase[p]
          /\ \/ phase'[n] = phase[n]
             \/ /\ phase'[n] = "running" /\ phase[n] \in Serving
                /\ m.kind = "readyLease" /\ active[n] = m.session
          /\ phase' \in [Node -> Phase]
      BY <1>3, <2>1 DEF TypeOK, Matches
    <2>2. TypeOK'
      <3>1. answer' \in [Node -> [Node -> Reply]]
        BY <2>1, <2>a, OneAnswer
      <3> QED
        BY <1>1, <2>1, <2>b, <3>1 DEF TypeOK
    <2>3. SessionShape'
      BY <2>1, <2>b DEF TypeOK, SessionShape
    <2>4. StartShape'
      <3>1. \A p \in Node : phase'[p] \in Serving => p \in began[active[p]]
        BY <2>b DEF StartShape
      <3>2. \A p \in Node : phase'[p] = "running" => Coordinator[active[p]] \in began[active[p]]
        BY <2>b DEF StartShape
      <3>3. \A p, w \in Node : step[p] = "commit" => answer'[p][w] = answer[p][w]
        BY <2>1, <2>a, AnswerToCommit
      <3> QED
        BY <1>1, <2>1, <3>1, <3>2, <3>3 DEF StartShape
    <2>5. OfferShape'
      BY <1>1, <2>1 DEF OfferShape
    <2>6. OwnerShape' /\ SingleStaysAway' /\ CoordinatorLast'
      BY <2>1 DEF OwnerShape, SingleStaysAway, CoordinatorLast
    <2> QED
      BY <2>2, <2>3, <2>4, <2>5, <2>6 DEF IInv
  <1> QED
    BY <1>2, <1>3

\* HandleStop keeps the invariant.
LEMMA HandleStopStep ==
  ASSUME IInv, NEW m \in net, HandleStop(m)
  PROVE  IInv'
  <1> DEFINE n == m.to
             others == IF Leads(n) THEN Peers(n) \ {m.from} ELSE {}
  <1> TypeOK /\ n \in Node /\ active[n] \in Session /\ "stop" \in Kind
    BY MessageFields DEF IInv, HandleStop, StopApplies
  <1>1. others \in SUBSET Node
    BY PeersAreNodes
  <1>2. /\ StopLocked(n, others)
        /\ net' \subseteq net \cup Requests("stop", n, others)
    BY DEF HandleStop, Accept
  <1>3. net' \subseteq Message /\ \A q \in net' : q \in net \/ q.kind = "stop"
    BY <1>1, <1>2, RequestsFields
  <1>4. /\ answer' \in [Node -> [Node -> Reply]]
        /\ \A p, w \in Node : answer'[p][w] = "ok" => answer[p][w] = "ok"
    BY DEF TypeOK, HandleStop, NoAnswers
  <1> HIDE DEF n, others
  <1> QED
    BY <1>1, <1>2, <1>3, <1>4, StopLockedStep

\* StopIgnored keeps the invariant.
LEMMA StopIgnoredStep ==
  ASSUME IInv, NEW m \in net, StopIgnored(m)
  PROVE  IInv'
  <1>1. TypeOK'
    BY RuntimeValues, MessageFields DEF IInv, TypeOK, StopIgnored, Received,
         Accept
  <1>2. SessionShape'
    BY MessageFields DEF IInv, TypeOK, SessionShape, StopIgnored, Received,
         Accept
  <1>3. OwnerShape'
    BY MessageFields DEF IInv, TypeOK, SessionShape, OwnerShape, StopIgnored,
         Received, Accept
  <1>4. StartShape'
    BY MessageFields DEF IInv, TypeOK, SessionShape, StartShape, StopIgnored,
         Received, Accept
  <1>5. OfferShape'
    BY MessageFields DEF IInv, TypeOK, SessionShape, OfferShape, StopIgnored,
         Received, Accept
  <1>6. SingleStaysAway'
    BY RuntimeValues, MessageFields DEF IInv, TypeOK, SessionShape,
         OwnerShape, SingleStaysAway, StopIgnored, Received, Accept
  <1>7. CoordinatorLast'
    BY MessageFields DEF IInv, TypeOK, SessionShape, StartShape,
         CoordinatorLast, StopIgnored, Received, Accept
  <1> QED
    BY <1>1, <1>2, <1>3, <1>4, <1>5, <1>6, <1>7 DEF IInv

\* The invariant holds initially.
LEMMA InitIInv == Init => IInv
  <1> SUFFICES ASSUME Init PROVE IInv
    OBVIOUS
  <1>1. TypeOK
    BY RuntimeValues DEF Init, TypeOK
  <1>2. SessionShape /\ OwnerShape /\ StartShape /\ OfferShape
    BY <1>1 DEF Init, TypeOK, SessionShape, OwnerShape, StartShape, OfferShape
  <1>3. SingleStaysAway /\ CoordinatorLast
    BY DEF Init, SingleStaysAway, CoordinatorLast
  <1> QED
    BY <1>1, <1>2, <1>3 DEF IInv

\* Steps that change nothing keep the invariant.
LEMMA StutterIInv == IInv /\ UNCHANGED vars => IInv'
  BY DEF vars, IInv, TypeOK, SessionShape, OwnerShape, StartShape, OfferShape,
         SingleStaysAway, CoordinatorLast

\* Every step keeps the invariant.
LEMMA NextIInv == IInv /\ [Next]_vars => IInv'
  <1> SUFFICES ASSUME IInv, [Next]_vars PROVE IInv'
    OBVIOUS
  <1>1. ASSUME NEW n \in Node, NEW s \in Session, Begin(n, s) PROVE IInv'
    BY <1>1, BeginStep
  <1>2. ASSUME NEW n \in Node, Stop(n) \/ StopFinish(n) PROVE IInv'
    BY <1>2, StopStep, StopFinishStep
  <1>3. ASSUME NEW n \in Node, Goroutine(n) PROVE IInv'
    BY <1>3, StopPreviousRuntimeStep, SnapshotStep, PrepareAcceptedStep, PollAgainStep,
       PreparationFailsStep, ArmStep, CommitStep, LaunchStep, StartFailsStep, StopStep,
       FetchStep, FetchFailsStep, PrepareWorkerStep DEF Goroutine, FailPreparation
  <1>4. ASSUME NEW n \in Node, Maintain(n) PROVE IInv'
    BY <1>4, StopStep, MaintainLeaseStep, LeaseHeldStep, LeaseMissedStep
    DEF Maintain, MaintainStop
  <1>5. ASSUME NEW n \in Node, Environment(n) PROVE IInv'
    BY <1>5, StartSingleStep, RuntimeReadyStep, RuntimeExitStep, CrashStep, AgeStep
    DEF Environment
  <1>6. ASSUME NEW m \in net, Handle(m) PROVE IInv'
    BY <1>6, HandlePrepareStep, HandleArmStep, CommitRefusedStep, HandleCommitStep,
       CommitFailsStep, HandleLeaseStep, HandleStopStep, StopIgnoredStep DEF Handle
  <1> QED
    BY <1>1, <1>2, <1>3, <1>4, <1>5, <1>6, StutterIInv DEF Next

\* The inductive invariant, type correctness included, holds in every reachable
\* state of the protocol, whatever the members, the losses and the crashes.
THEOREM RingInvariant == Spec => []IInv
  BY InitIInv, NextIInv, PTL DEF Spec

\* Committed by all before the coordinator starts: prepareWorker, control and
\* coordinate let the coordinator's runtime start last.
THEOREM CoordinatorStartsLast == Spec => []CoordinatorLast
  <1>1. IInv => CoordinatorLast
    BY DEF IInv
  <1> QED
    BY <1>1, RingInvariant, PTL

\* Reserve first, then stop: no single-machine runtime during a preparation.
THEOREM SingleRuntimeStaysAway == Spec => []SingleStaysAway
  <1>1. IInv => SingleStaysAway
    BY DEF IInv
  <1> QED
    BY <1>1, RingInvariant, PTL

\* A reservation is always the one of the node's session.
THEOREM ReservationsEnd == Spec => []NoLeakedReservation
  <1>1. IInv => NoLeakedReservation
    BY DEF IInv, OwnerShape, NoLeakedReservation
  <1> QED
    BY <1>1, RingInvariant, PTL

\* Only a fully started group has a member that reports itself running.
THEOREM RunningGroupIsComplete == Spec => []NobodyServesAlone
  <1>1. IInv => NobodyServesAlone
    BY DEF IInv, TypeOK, SessionShape, StartShape, CoordinatorLast, NobodyServesAlone
  <1> QED
    BY <1>1, RingInvariant, PTL

-----------------------------------------------------------------------------
(* The protocol implements the start barrier.                              *)

\* The goroutine's step and the phase agree.
LEMMA NextStepShape ==
  ASSUME IInv, StepShape, [Next]_vars
  PROVE  StepShape'
  <1> TypeOK /\ SessionShape
    BY DEF IInv
  <1>1. ASSUME NEW n \in Node, NEW s \in Session, Begin(n, s) PROVE StepShape'
    BY <1>1 DEF TypeOK, StepShape, Begin
  <1>2. ASSUME NEW n \in Node, active[n] \in Session, NEW targets \in SUBSET Node,
               StopLocked(n, targets)
        PROVE  StepShape'
    <2>1. /\ step'[n] = "idle" /\ (active'[n] = None \/ active'[n] = active[n])
          /\ \A p \in Node : p # n =>
               active'[p] = active[p] /\ phase'[p] = phase[p] /\ step'[p] = step[p]
      BY <1>2, StopLockedFields
    <2> QED
      BY <2>1 DEF StepShape
  <1>3. ASSUME NEW n \in Node, Stop(n) PROVE StepShape'
    BY <1>2, <1>3, PeersAreNodes DEF Stop, TypeOK
  <1>4. ASSUME NEW n \in Node, StopFinish(n) PROVE StepShape'
    BY <1>4 DEF TypeOK, SessionShape, StepShape, StopFinish, Leave
  <1>5. ASSUME NEW n \in Node, Crash(n) PROVE StepShape'
    BY <1>5 DEF TypeOK, StepShape, Crash, Leave
  <1>6. ASSUME NEW n \in Node, StopPreviousRuntime(n) PROVE StepShape'
    <2>1. PICK stopped \in BOOLEAN :
            step' = [step EXCEPT ![n] = IF ~stopped THEN "fail"
                                        ELSE IF Leads(n) THEN "snapshot" ELSE "fetch"]
      BY <1>6 DEF StopPreviousRuntime
    <2>2. step[n] = "previous" /\ UNCHANGED <<active, phase>>
      BY <1>6 DEF StopPreviousRuntime
    <2>3. step'[n] = "fail" \/ (step'[n] = "snapshot" /\ Leads(n)) \/ (step'[n] = "fetch" /\ ~Leads(n))
      BY <2>1 DEF TypeOK
    <2>4. \A p \in Node : p # n => step'[p] = step[p]
      BY <2>1 DEF TypeOK
    <2> QED
      BY <2>2, <2>3, <2>4 DEF StepShape
  <1>7. ASSUME NEW n \in Node, Snapshot(n) \/ PrepareAccepted(n) \/ PollAgain(n) PROVE StepShape'
    BY <1>7 DEF TypeOK, SessionShape, StepShape, Snapshot, PrepareAccepted, PollAgain, Poll
  <1>8. ASSUME NEW n \in Node,
               Arm(n) \/ Commit(n) \/ PreparationFails(n) \/ StartFails(n) \/ Launch(n)
        PROVE  StepShape'
    BY <1>8 DEF TypeOK, StepShape, PreparationFails, Arm, Commit, StartFails, Launch, StartRing
  <1>9. ASSUME NEW n \in Node, Fetch(n) \/ FetchFails(n) PROVE StepShape'
    BY <1>9 DEF TypeOK, StepShape, Fetch, FetchFails
  <1>10. ASSUME NEW n \in Node, PrepareWorker(n) PROVE StepShape'
    BY <1>10 DEF TypeOK, StepShape, PrepareWorker
  <1>11. ASSUME NEW n \in Node, MaintainLease(n) PROVE StepShape'
    BY <1>11 DEF StepShape, MaintainLease
  <1>12. ASSUME NEW n \in Node, LeaseHeld(n) PROVE StepShape'
    <2>1. UNCHANGED <<active, step>> /\ phase[n] \in Serving
          /\ \A p \in Node : p # n => phase'[p] = phase[p]
      BY <1>12 DEF TypeOK, SessionShape, LeaseHeld
    <2> QED
      BY <2>1 DEF StepShape
  <1>13. ASSUME NEW n \in Node, LeaseMissed(n) PROVE StepShape'
    <2>1. CASE fresh[n]
      BY <1>13, <2>1 DEF LeaseMissed, StepShape
    <2>2. CASE ~fresh[n]
      BY <1>2, <1>13, <2>2, PeersAreNodes DEF LeaseMissed, SessionShape, TypeOK
    <2> QED
      BY <2>1, <2>2
  <1>14. ASSUME NEW n \in Node,
                StartSingle(n) \/ RuntimeReady(n) \/ RuntimeExit(n) \/ Age(n)
         PROVE  StepShape'
    BY <1>14 DEF StepShape, StartSingle, RuntimeReady, RuntimeExit, Age, sessionVars
  <1>15. ASSUME NEW m \in net, HandlePrepare(m) PROVE StepShape'
    <2>1. m.to \in Node /\ m.session \in Session
      BY MessageFields
    <2>2. CASE active[m.to] = None /\ owner[m.to] = None
      <3>1. step'[m.to] = "previous" /\ phase'[m.to] = "synchronizing"
        BY <1>15, <2>1, <2>2 DEF TypeOK, HandlePrepare
      <3>2. \A p \in Node : p # m.to =>
              active'[p] = active[p] /\ phase'[p] = phase[p] /\ step'[p] = step[p]
        BY <1>15, <2>1, <2>2 DEF TypeOK, HandlePrepare
      <3> QED
        BY <2>1, <3>1, <3>2 DEF StepShape
    <2>3. CASE ~(active[m.to] = None /\ owner[m.to] = None)
      BY <1>15, <2>3 DEF StepShape, HandlePrepare
    <2> QED
      BY <2>2, <2>3
  <1>16. ASSUME NEW m \in net, HandleArm(m) \/ HandleLease(m) \/ HandleCommit(m)
         PROVE  StepShape'
    <2>1. m.to \in Node /\ UNCHANGED <<active, step>>
      BY <1>16, MessageFields DEF HandleArm, HandleLease, HandleCommit
    <2>2. \A p \in Node : p # m.to => phase'[p] = phase[p]
      BY <1>16, <2>1 DEF TypeOK, HandleArm, HandleLease, HandleCommit, StartRing
    <2>3. \/ phase'[m.to] = phase[m.to]
          \/ /\ phase[m.to] \in {"prepared", "armed", "loading", "running"}
             /\ Follows(m.to)
      BY <1>16, <2>1
      DEF TypeOK, HandleArm, HandleLease, HandleCommit, StartRing, Matches
    <2> QED
      BY <2>1, <2>2, <2>3 DEF StepShape, SessionShape
  <1>17. ASSUME NEW m \in net, CommitRefused(m) \/ StopIgnored(m) PROVE StepShape'
    BY <1>17 DEF StepShape, CommitRefused, StopIgnored, sessionVars
  <1>18. ASSUME NEW m \in net, CommitFails(m) \/ HandleStop(m) PROVE StepShape'
    <2>1. m.to \in Node /\ active[m.to] \in Session
      BY <1>18, MessageFields DEF CommitFails, HandleStop, Matches, StopApplies
    <2>2. Peers(m.to) \ {m.from} \in SUBSET Node /\ {} \in SUBSET Node
      BY <2>1, PeersAreNodes
    <2>3. PICK targets \in SUBSET Node : StopLocked(m.to, targets)
      BY <1>18, <2>2 DEF CommitFails, HandleStop
    <2> QED
      BY <1>2, <2>1, <2>3
  <1>19. CASE UNCHANGED vars
    BY <1>19 DEF StepShape, vars, sessionVars
  <1> QED
    BY <1>1, <1>3, <1>4, <1>5, <1>6, <1>7, <1>8, <1>9, <1>10, <1>11, <1>12, <1>13,
       <1>14, <1>15, <1>16, <1>17, <1>18, <1>19
    DEF Next, Goroutine, FailPreparation, Maintain, MaintainStop, Environment, Handle

\* A member that leaves has left for good, and had started at most once.
LEMMA NextOnceShape ==
  ASSUME IInv, StepShape, OnceShape, [Next]_vars
  PROVE  OnceShape'
  <1> TypeOK /\ SessionShape /\ OfferShape
    BY DEF IInv
  <1>a. ASSUME UNCHANGED <<active, used, began, gone>>,
               \A p \in Node : phase'[p] \notin Serving => phase[p] \notin Serving
        PROVE  OnceShape'
    BY <1>a DEF OnceShape
  <1>b. ASSUME NEW n \in Node, active[n] \in Session, phase[n] \notin Serving,
               began' = [began EXCEPT ![active[n]] = @ \cup {n}],
               phase' = [phase EXCEPT ![n] = "loading"], UNCHANGED <<active, used, gone>>
        PROVE  OnceShape'
    BY <1>b DEF TypeOK, SessionShape, OnceShape
  <1>1. ASSUME NEW n \in Node, NEW s \in Session, Begin(n, s) PROVE OnceShape'
    BY <1>1 DEF TypeOK, SessionShape, OnceShape, Begin
  <1>c. ASSUME NEW n \in Node, active[n] \in Session, used' = used, began' = began,
               active' = [active EXCEPT ![n] = None], phase' = [phase EXCEPT ![n] = "none"],
               gone' = [gone EXCEPT ![active[n]] = @ \cup {n}]
        PROVE  OnceShape'
    <2>1. \A s \in Session : gone'[s] = IF s = active[n] THEN gone[s] \cup {n} ELSE gone[s]
      BY <1>c DEF TypeOK
    <2>2. \A p \in Node : active'[p] = IF p = n THEN None ELSE active[p]
      BY <1>c DEF TypeOK
    <2>3. \A p \in Node : p # n => phase'[p] = phase[p]
      BY <1>c DEF TypeOK
    <2>4. \A s \in Session : \A p \in began'[s] : active'[p] = s \/ p \in gone'[s]
      BY <1>c, <2>1, <2>2 DEF OnceShape, TypeOK
    <2>5. \A p \in Node :
            active'[p] # None /\ phase'[p] \notin Serving => p \notin began'[active'[p]]
      BY <1>c, <2>2, <2>3 DEF OnceShape
    <2> QED
      BY <1>c, <2>4, <2>5 DEF OnceShape
  <1>2. ASSUME NEW n \in Node, active[n] \in Session, NEW targets, StopLocked(n, targets)
        PROVE  OnceShape'
    <2>1. CASE targets = {}
      BY <1>c, <1>2, <2>1 DEF StopLocked, Leave
    <2>2. CASE targets # {}
      BY <1>a, <1>2, <2>2 DEF StopLocked
    <2> QED
      BY <2>1, <2>2
  <1>3. ASSUME NEW n \in Node, Stop(n) PROVE OnceShape'
    BY <1>2, <1>3 DEF Stop, TypeOK
  <1>4. ASSUME NEW n \in Node, StopFinish(n) \/ Crash(n) PROVE OnceShape'
    BY <1>c, <1>4 DEF TypeOK, SessionShape, StopFinish, Crash, Leave
  <1>5. ASSUME NEW n \in Node,
               \/ StopPreviousRuntime(n) \/ PrepareAccepted(n) \/ PollAgain(n)
               \/ PreparationFails(n) \/ Commit(n) \/ StartFails(n)
               \/ Fetch(n) \/ FetchFails(n) \/ MaintainLease(n)
               \/ StartSingle(n) \/ RuntimeReady(n) \/ RuntimeExit(n) \/ Age(n)
        PROVE  OnceShape'
    BY <1>a, <1>5 DEF StopPreviousRuntime, PrepareAccepted, PollAgain, Poll, PreparationFails,
       Commit, StartFails, Fetch, FetchFails, MaintainLease, StartSingle, RuntimeReady,
       RuntimeExit, Age, sessionVars, historyVars
  <1>6. ASSUME NEW n \in Node, Snapshot(n) \/ Arm(n) \/ PrepareWorker(n) PROVE OnceShape'
    <2>1. phase[n] \notin Serving /\ UNCHANGED <<active, used, began, gone>>
      BY <1>6 DEF Snapshot, Arm, PrepareWorker, StepShape, SessionShape, historyVars
    <2>2. \A p \in Node : p # n => phase'[p] = phase[p]
      BY <1>6 DEF Snapshot, Arm, PrepareWorker, TypeOK
    <2> QED
      BY <1>a, <2>1, <2>2
  <1>7. ASSUME NEW n \in Node, Launch(n) PROVE OnceShape'
    <2>1. active[n] \in Session /\ phase[n] \notin Serving
      BY <1>7 DEF Launch, SessionShape, StepShape, TypeOK
    <2> QED
      BY <1>b, <1>7, <2>1 DEF Launch, StartRing
  <1>8. ASSUME NEW n \in Node, LeaseHeld(n) PROVE OnceShape'
    <2>1. \A p \in Node : phase'[p] = phase[p] \/ phase'[p] \in Serving
      BY <1>8 DEF LeaseHeld, TypeOK
    <2> QED
      BY <1>a, <1>8, <2>1 DEF LeaseHeld, historyVars
  <1>9. ASSUME NEW n \in Node, LeaseMissed(n) PROVE OnceShape'
    <2>1. CASE fresh[n]
      BY <1>a, <1>9, <2>1 DEF LeaseMissed, historyVars
    <2>2. CASE ~fresh[n]
      BY <1>2, <1>9, <2>2 DEF LeaseMissed, SessionShape, TypeOK
    <2> QED
      BY <2>1, <2>2
  <1>11. ASSUME NEW m \in net, HandlePrepare(m) PROVE OnceShape'
    <2>1. m.to \in Node /\ m.session \in Session /\ UNCHANGED <<used, began, gone>>
      BY <1>11, MessageFields DEF HandlePrepare, historyVars
    <2>2. CASE active[m.to] = None /\ owner[m.to] = None
      <3>1. m.to \notin began[m.session]
        BY <1>11, <2>1, <2>2 DEF HandlePrepare, Received, OfferShape, OnceShape
      <3>2. /\ active' = [active EXCEPT ![m.to] = m.session]
            /\ phase' = [phase EXCEPT ![m.to] = "synchronizing"]
        BY <1>11, <2>2 DEF HandlePrepare
      <3>3. \A s \in Session : m.to \in began[s] => m.to \in gone[s]
        BY <2>1, <2>2 DEF OnceShape, TypeOK
      <3> QED
        BY <2>1, <3>1, <3>2, <3>3 DEF TypeOK, OnceShape
    <2>3. CASE ~(active[m.to] = None /\ owner[m.to] = None)
      BY <1>a, <1>11, <2>1, <2>3 DEF HandlePrepare
    <2> QED
      BY <2>2, <2>3
  <1>12. ASSUME NEW m \in net, HandleArm(m) \/ HandleLease(m) PROVE OnceShape'
    <2>1. m.to \in Node /\ UNCHANGED <<active, used, began, gone>>
      BY <1>12, MessageFields DEF HandleArm, HandleLease, historyVars
    <2>2. \A p \in Node : \/ phase'[p] = phase[p] \/ phase'[p] \in Serving
                          \/ p = m.to /\ phase[p] = "prepared"
      BY <1>12, <2>1 DEF TypeOK, HandleArm, HandleLease
    <2> QED
      BY <1>a, <2>1, <2>2
  <1>13. ASSUME NEW m \in net, CommitRefused(m) \/ StopIgnored(m) PROVE OnceShape'
    BY <1>a, <1>13 DEF CommitRefused, StopIgnored, sessionVars, historyVars
  <1>14. ASSUME NEW m \in net, HandleCommit(m) PROVE OnceShape'
    BY <1>b, <1>14, MessageFields DEF HandleCommit, Matches, StartRing
  <1>15. ASSUME NEW m \in net, CommitFails(m) \/ HandleStop(m) PROVE OnceShape'
    BY <1>2, <1>15, MessageFields DEF CommitFails, HandleStop, Matches, StopApplies
  <1>16. CASE UNCHANGED vars
    BY <1>a, <1>16 DEF vars, sessionVars, historyVars
  <1> QED
    BY <1>1, <1>3, <1>4, <1>5, <1>6, <1>7, <1>8, <1>9, <1>11, <1>12, <1>13,
       <1>14, <1>15, <1>16
    DEF Next, Goroutine, FailPreparation, Maintain, MaintainStop, Environment, Handle

\* Every step of the protocol is a start, a departure or nothing to the group.
LEMMA NextRefines ==
  ASSUME IInv, StepShape, OnceShape, [Next]_vars
  PROVE  [Group!Next]_(Group!vars)
  <1> TypeOK /\ SessionShape /\ OfferShape /\ StartShape
    BY DEF IInv
  <1> USE DEF Group!vars
  <1>1. ASSUME NEW n \in Node, active[n] \in Session,
               gone' = [gone EXCEPT ![active[n]] = @ \cup {n}], began' = began
        PROVE  Group!Next
    <2>1. n \in Members(active[n]) /\ n \notin gone[active[n]]
      BY <1>1 DEF SessionShape, OfferShape
    <2>2. Group!Leave(active[n], n)
      BY <1>1, <2>1 DEF Group!Leave
    <2> QED
      BY <1>1, <2>2 DEF Group!Next
  <1>2. ASSUME NEW n \in Node, active[n] \in Session, NEW targets, StopLocked(n, targets)
        PROVE  [Group!Next]_(Group!vars)
    <2>1. began' = began
      BY <1>2 DEF StopLocked
    <2>2. CASE targets = {}
      BY <1>1, <1>2, <2>1, <2>2 DEF StopLocked, Leave
    <2>3. CASE targets # {}
      BY <1>2, <2>1, <2>3 DEF StopLocked
    <2> QED
      BY <2>2, <2>3
  <1>3. ASSUME NEW n \in Node, Stop(n) PROVE [Group!Next]_(Group!vars)
    BY <1>2, <1>3 DEF Stop, TypeOK
  <1>4. ASSUME NEW n \in Node, StopFinish(n) \/ Crash(n) PROVE [Group!Next]_(Group!vars)
    BY <1>1, <1>4 DEF SessionShape, TypeOK, StopFinish, Crash, Leave
  <1>5. ASSUME NEW n \in Node, Launch(n) PROVE [Group!Next]_(Group!vars)
    <2>1. /\ active[n] \in Session /\ Coordinator[active[n]] = n
          /\ phase[n] = "starting" /\ n \notin gone[active[n]]
      BY <1>5 DEF Launch, SessionShape, StepShape, OfferShape, TypeOK
    <2>2. Workers[active[n]] \subseteq began[active[n]]
      BY <1>5, <2>1 DEF Launch, Committed, AllAnswered, Peers, StartShape
    <2>3. n \notin began[active[n]]
      BY <2>1 DEF OnceShape
    <2>4. Group!CoordinatorStarts(active[n])
      BY <1>5, <2>1, <2>2, <2>3 DEF Launch, StartRing, Group!CoordinatorStarts
    <2> QED
      BY <2>1, <2>4 DEF Group!Next
  <1>6. ASSUME NEW m \in net, HandleCommit(m) PROVE [Group!Next]_(Group!vars)
    <2>1. /\ m.to \in Node /\ active[m.to] \in Session
          /\ Coordinator[active[m.to]] # m.to /\ phase[m.to] = "armed"
      BY <1>6, MessageFields DEF HandleCommit, Matches
    <2>2. /\ m.to \in Workers[active[m.to]] /\ m.to \notin gone[active[m.to]]
          /\ m.to \notin began[active[m.to]]
      BY <2>1 DEF SessionShape, OfferShape, OnceShape
    <2>3. Group!WorkerStarts(active[m.to], m.to)
      BY <1>6, <2>1, <2>2 DEF HandleCommit, StartRing, Group!WorkerStarts
    <2> QED
      BY <2>1, <2>3 DEF Group!Next
  <1>7. ASSUME NEW m \in net, CommitFails(m) \/ HandleStop(m)
        PROVE  [Group!Next]_(Group!vars)
    BY <1>2, <1>7, MessageFields DEF CommitFails, HandleStop, Matches, StopApplies
  <1>8. ASSUME NEW n \in Node, LeaseMissed(n) PROVE [Group!Next]_(Group!vars)
    <2>1. CASE fresh[n]
      BY <1>8, <2>1 DEF LeaseMissed, historyVars
    <2>2. CASE ~fresh[n]
      BY <1>2, <1>8, <2>2 DEF LeaseMissed, SessionShape, TypeOK
    <2> QED
      BY <2>1, <2>2
  <1>9. ASSUME NEW n \in Node,
               \/ \E s \in Session : Begin(n, s)
               \/ StopPreviousRuntime(n) \/ Snapshot(n) \/ PrepareAccepted(n) \/ PollAgain(n)
               \/ PreparationFails(n) \/ Arm(n) \/ Commit(n) \/ StartFails(n)
        PROVE  UNCHANGED <<began, gone>>
    BY <1>9 DEF Begin, StopPreviousRuntime, Snapshot, PrepareAccepted, PollAgain, Poll,
       PreparationFails, Arm, Commit, StartFails, historyVars
  <1>10. ASSUME NEW n \in Node,
                \/ Fetch(n) \/ FetchFails(n) \/ PrepareWorker(n)
                \/ MaintainLease(n) \/ LeaseHeld(n)
                \/ StartSingle(n) \/ RuntimeReady(n) \/ RuntimeExit(n) \/ Age(n)
         PROVE  UNCHANGED <<began, gone>>
    BY <1>10 DEF Fetch, FetchFails, PrepareWorker, MaintainLease, LeaseHeld, StartSingle,
       RuntimeReady, RuntimeExit, Age, historyVars
  <1>11. ASSUME NEW m \in net,
                \/ HandlePrepare(m) \/ HandleArm(m) \/ CommitRefused(m)
                \/ HandleLease(m) \/ StopIgnored(m)
         PROVE  UNCHANGED <<began, gone>>
    BY <1>11 DEF HandlePrepare, HandleArm, CommitRefused, HandleLease, StopIgnored, historyVars
  <1>12. CASE UNCHANGED vars
    BY <1>12 DEF vars, historyVars
  <1> QED
    BY <1>3, <1>4, <1>5, <1>6, <1>7, <1>8, <1>9, <1>10, <1>11, <1>12
    DEF Next, Goroutine, FailPreparation, Maintain, MaintainStop, Environment, Handle

\* The cluster protocol, with its messages, locks, leases and crashes, implements
\* the start barrier of RingGroup.
THEOREM RingImplementsGroup == Spec => ImplementsRingGroup
  <1>1. Init => StepShape /\ OnceShape /\ Group!Init
    BY DEF Init, StepShape, OnceShape, Group!Init
  <1>2. IInv /\ StepShape /\ [Next]_vars => StepShape'
    BY NextStepShape
  <1>3. IInv /\ StepShape /\ OnceShape /\ [Next]_vars => OnceShape'
    BY NextOnceShape
  <1>4. IInv /\ StepShape /\ OnceShape /\ [Next]_vars => [Group!Next]_(Group!vars)
    BY NextRefines
  <1> QED
    BY <1>1, <1>2, <1>3, <1>4, RingInvariant, PTL DEF Spec, ImplementsRingGroup, Group!Spec

-----------------------------------------------------------------------------
(* Where every state file can be written, stopping always stops.           *)

\* A step that leaves a session leaves no ring runtime behind.
LEMMA NextRuntimeShape ==
  ASSUME FailingNodes = {}, IInv, RuntimeShape, [Next]_vars
  PROVE  RuntimeShape'
  <1> TypeOK /\ SessionShape /\ OwnerShape
    BY DEF IInv
  <1>1. ASSUME NEW n \in Node, NEW s \in Session, Begin(n, s) PROVE RuntimeShape'
    BY <1>1, RuntimeValues DEF TypeOK, RuntimeShape, Begin
  <1>2. ASSUME NEW n \in Node, active[n] \in Session, NEW targets, StopLocked(n, targets)
        PROVE  RuntimeShape'
    <2>1. runtime' = [runtime EXCEPT ![n] = NoRuntime]
      BY <1>2 DEF StopLocked, BackendStop
    <2>2. \A p \in Node : p # n => active'[p] = active[p] /\ op'[p] = op[p]
      BY <1>2 DEF StopLocked, Leave, TypeOK
    <2> QED
      BY <2>1, <2>2, RuntimeValues DEF TypeOK, RuntimeShape
  <1>3. ASSUME NEW n \in Node, Stop(n) PROVE RuntimeShape'
    BY <1>2, <1>3 DEF Stop, TypeOK
  <1>4. ASSUME NEW n \in Node, StopFinish(n) PROVE RuntimeShape'
    BY <1>4, RuntimeValues DEF TypeOK, RuntimeShape, StopFinish, Leave, backendVars
  <1>5. ASSUME NEW n \in Node, StopPreviousRuntime(n) PROVE RuntimeShape'
    BY <1>5, RuntimeValues DEF TypeOK, RuntimeShape, StopPreviousRuntime, BackendStop
  <1>6. ASSUME NEW n \in Node,
               \/ Snapshot(n) \/ PrepareAccepted(n) \/ PollAgain(n) \/ PreparationFails(n)
               \/ Commit(n) \/ Fetch(n) \/ FetchFails(n) \/ PrepareWorker(n)
               \/ Age(n) \/ RuntimeReady(n)
        PROVE  RuntimeShape'
    BY <1>6 DEF RuntimeShape, Snapshot, PrepareAccepted, PollAgain, Poll, PreparationFails,
       Commit, Fetch, FetchFails, PrepareWorker, Age, RuntimeReady
  <1>7. ASSUME NEW n \in Node, Arm(n) \/ StartFails(n) \/ MaintainLease(n) \/ LeaseHeld(n)
        PROVE  RuntimeShape'
    BY <1>7 DEF RuntimeShape, TypeOK, Arm, StartFails, MaintainLease, LeaseKind, LeaseHeld
  <1>8. ASSUME NEW n \in Node, Launch(n) PROVE RuntimeShape'
    <2>1. active[n] \in Session
      BY <1>8 DEF Launch, SessionShape, TypeOK
    <2> QED
      BY <1>8, <2>1, RuntimeValues DEF TypeOK, RuntimeShape, Launch, StartRing
  <1>9. ASSUME NEW n \in Node, LeaseMissed(n) PROVE RuntimeShape'
    <2>1. CASE fresh[n]
      BY <1>9, <2>1 DEF LeaseMissed, TypeOK, RuntimeShape, backendVars
    <2>2. CASE ~fresh[n]
      BY <1>2, <1>9, <2>2 DEF LeaseMissed, SessionShape, TypeOK
    <2> QED
      BY <2>1, <2>2
  <1>10. ASSUME NEW n \in Node, StartSingle(n) \/ RuntimeExit(n) PROVE RuntimeShape'
    BY <1>10, RuntimeValues DEF TypeOK, RuntimeShape, StartSingle, RuntimeExit, sessionVars
  <1>11. ASSUME NEW n \in Node, Crash(n) PROVE RuntimeShape'
    BY <1>11, RuntimeValues DEF TypeOK, RuntimeShape, Crash, Leave
  <1>12. ASSUME NEW m \in net, HandlePrepare(m) PROVE RuntimeShape'
    BY <1>12, MessageFields DEF TypeOK, RuntimeShape, HandlePrepare
  <1>13. ASSUME NEW m \in net,
                HandleArm(m) \/ CommitRefused(m) \/ HandleLease(m) \/ StopIgnored(m)
         PROVE  RuntimeShape'
    BY <1>13 DEF RuntimeShape, HandleArm, CommitRefused, HandleLease, StopIgnored,
       sessionVars, backendVars
  <1>14. ASSUME NEW m \in net, HandleCommit(m) PROVE RuntimeShape'
    <2>1. m.to \in Node /\ active[m.to] \in Session /\ op[m.to] = "free"
      BY <1>14, MessageFields DEF HandleCommit, Received, Matches
    <2> QED
      BY <1>14, <2>1, RuntimeValues DEF TypeOK, RuntimeShape, HandleCommit, StartRing
  <1>15. ASSUME NEW m \in net, CommitFails(m) \/ HandleStop(m) PROVE RuntimeShape'
    BY <1>2, <1>15, MessageFields DEF CommitFails, HandleStop, Matches, StopApplies
  <1>16. CASE UNCHANGED vars
    BY <1>16 DEF RuntimeShape, vars, sessionVars, backendVars
  <1> QED
    BY <1>1, <1>3, <1>4, <1>5, <1>6, <1>7, <1>8, <1>9, <1>10, <1>11, <1>12, <1>13,
       <1>14, <1>15, <1>16
    DEF Next, Goroutine, FailPreparation, Maintain, MaintainStop, Environment, Handle

\* Where every node can write its state file, a ring runtime always has the
\* session that can end it: stopLocked, Crash and RuntimeExit leave none behind.
THEOREM RingRuntimeHasSession ==
  ASSUME FailingNodes = {}
  PROVE  Spec => []RingHasSession
  <1>1. Init => RuntimeShape
    BY RuntimeValues DEF Init, RuntimeShape
  <1>2. IInv /\ RuntimeShape /\ [Next]_vars => RuntimeShape'
    BY NextRuntimeShape
  <1>3. RuntimeShape => RingHasSession
    BY DEF RuntimeShape, RingHasSession
  <1> QED
    BY <1>1, <1>2, <1>3, RingInvariant, PTL DEF Spec

-----------------------------------------------------------------------------
(* What the cluster asks of the runtime of a node.                         *)

\* A node whose reservation and runtime stay as they are asks nothing of its backend.
LEMMA SameIsQuiet ==
  ASSUME NEW p \in Node,
         owner'[p] = owner[p], runtime'[p] = runtime[p], ready'[p] = ready[p]
  PROVE  [Backend(p)!Next]_(Backend(p)!vars)
  BY DEF Backend!vars, Lent

\* A session is given a free runtime, and changes nothing else of it.
LEMMA ReservedOnce ==
  ASSUME NEW p \in Node, NEW s \in Session, owner[p] = None, owner'[p] = s,
         runtime'[p] = runtime[p], ready'[p] = ready[p]
  PROVE  [Backend(p)!Next]_(Backend(p)!vars)
  BY DEF Backend!Next, Backend!ReserveRing, Lent

\* A runtime is started after the last one, for the reservation or without any.
LEMMA StartedAlone ==
  ASSUME TypeOK, ReadyShape, NEW p \in Node, NEW r \in Runtime,
         owner'[p] = owner[p], runtime[p] = NoRuntime, runtime'[p] = r,
         ready'[p] = ready[p], r # NoRuntime, r = Single <=> owner[p] = None
  PROVE  [Backend(p)!Next]_(Backend(p)!vars)
  <1> DEFINE kind == IF r = Single THEN "single" ELSE "ring"
  <1>1. Lent(p) = "none" /\ Lent(p)' = kind /\ kind \in {"single", "ring"}
    BY DEF Lent
  <1>2. kind = "ring" <=> owner[p] # None
    OBVIOUS
  <1>3. ready'[p] = FALSE
    BY DEF TypeOK, ReadyShape
  <1> HIDE DEF kind
  <1>4. Backend(p)!Start(kind)
    BY <1>1, <1>2, <1>3 DEF Backend!Start
  <1> QED
    BY <1>1, <1>4 DEF Backend!Next

\* Only a live runtime becomes ready.
LEMMA LiveBecomesReady ==
  ASSUME NEW p \in Node, owner'[p] = owner[p], runtime'[p] = runtime[p],
         runtime[p] # NoRuntime, ready'[p] = TRUE
  PROVE  [Backend(p)!Next]_(Backend(p)!vars)
  BY DEF Backend!Next, Backend!BecomeReady, Lent

\* The end of a runtime, or a stop that finds none.
LEMMA EndedNotReady ==
  ASSUME TypeOK, ReadyShape, NEW p \in Node,
         owner'[p] = owner[p], runtime'[p] = NoRuntime, ready'[p] = FALSE
  PROVE  [Backend(p)!Next]_(Backend(p)!vars)
  <1>1. CASE runtime[p] = NoRuntime
    <2>1. ready[p] = FALSE
      BY <1>1 DEF TypeOK, ReadyShape
    <2> QED
      BY <1>1, <2>1, SameIsQuiet
  <1>2. CASE runtime[p] # NoRuntime
    BY <1>2 DEF Backend!Next, Backend!End, Backend!Ended, Lent
  <1> QED
    BY <1>1, <1>2

\* The end of a reservation, with the runtime or without.
LEMMA ReservationEnds ==
  ASSUME NEW p \in Node, owner'[p] = None,
         \/ runtime'[p] = NoRuntime /\ ready'[p] = FALSE
         \/ runtime'[p] = runtime[p] /\ ready'[p] = ready[p]
  PROVE  [Backend(p)!Next]_(Backend(p)!vars)
  BY DEF Backend!Next, Backend!ReleaseRing, Backend!Ended, Lent

\* Whatever a step does to the backend of one node, it leaves the others alone.
LEMMA OthersAreQuiet ==
  ASSUME NEW n \in Node, NEW p \in Node,
         [Backend(n)!Next]_(Backend(n)!vars),
         p # n => owner'[p] = owner[p] /\ runtime'[p] = runtime[p] /\ ready'[p] = ready[p]
  PROVE  [Backend(p)!Next]_(Backend(p)!vars)
  BY SameIsQuiet

\* stopLocked stops the runtime or finds it cannot, and ends the reservation.
LEMMA StopLockedUsesBackend ==
  ASSUME TypeOK, NEW n \in Node, NEW targets, StopLocked(n, targets), NEW p \in Node
  PROVE  [Backend(p)!Next]_(Backend(p)!vars)
  <1>1. owner'[n] = None /\ (p # n => owner'[p] = owner[p])
    BY DEF StopLocked, ReleaseRing, TypeOK
  <1>2. PICK stopped \in BOOLEAN : BackendStop(n, stopped)
    BY DEF StopLocked
  <1>3. /\ p # n => runtime'[p] = runtime[p] /\ ready'[p] = ready[p]
        /\ \/ runtime'[n] = NoRuntime /\ ready'[n] = FALSE
           \/ runtime'[n] = runtime[n] /\ ready'[n] = ready[n]
    BY <1>2 DEF BackendStop, TypeOK
  <1> QED
    BY <1>1, <1>3, ReservationEnds, OthersAreQuiet

\* Each step of the protocol asks of the backend of each node what it offers.
LEMMA NextUsesBackend ==
  ASSUME IInv, ReadyShape, [Next]_vars, NEW p \in Node
  PROVE  [Backend(p)!Next]_(Backend(p)!vars)
  <1> TypeOK /\ SessionShape /\ OwnerShape
    BY DEF IInv
  <1> DEFINE Goal == [Backend(p)!Next]_(Backend(p)!vars)
  <1>1. ASSUME NEW n \in Node, NEW s \in Session, Begin(n, s) PROVE Goal
    <2>1. /\ owner[n] = None /\ owner' = [owner EXCEPT ![n] = s]
          /\ runtime' = runtime /\ ready' = ready
      BY <1>1 DEF Begin
    <2> QED
      BY <2>1, ReservedOnce, OthersAreQuiet DEF TypeOK
  <1>2. ASSUME NEW n \in Node, Stop(n) PROVE Goal
    BY <1>2, StopLockedUsesBackend DEF Stop
  <1>3. ASSUME NEW n \in Node, StopPreviousRuntime(n) PROVE Goal
    <2>1. owner' = owner
      BY <1>3 DEF StopPreviousRuntime
    <2>2. PICK stopped \in BOOLEAN : BackendStop(n, stopped)
      BY <1>3 DEF StopPreviousRuntime
    <2>3. CASE stopped
      <3>1. /\ runtime' = [runtime EXCEPT ![n] = NoRuntime]
            /\ ready' = [ready EXCEPT ![n] = FALSE]
        BY <2>2, <2>3 DEF BackendStop
      <3> QED
        BY <2>1, <3>1, EndedNotReady, OthersAreQuiet DEF TypeOK
    <2>4. CASE ~stopped
      <3>1. runtime' = runtime /\ ready' = ready
        BY <2>2, <2>4 DEF BackendStop
      <3> QED
        BY <2>1, <3>1, SameIsQuiet
    <2> QED
      BY <2>3, <2>4
  <1>4. ASSUME NEW n \in Node,
               \/ StopFinish(n) \/ Snapshot(n) \/ PrepareAccepted(n) \/ PollAgain(n)
               \/ PreparationFails(n) \/ Arm(n) \/ Commit(n) \/ StartFails(n)
               \/ Fetch(n) \/ FetchFails(n) \/ PrepareWorker(n)
               \/ MaintainLease(n) \/ LeaseHeld(n) \/ Age(n)
        PROVE  Goal
    <2>1. UNCHANGED <<owner, runtime, ready>>
      BY <1>4 DEF StopFinish, Snapshot, PrepareAccepted, PollAgain, Poll, PreparationFails,
         Arm, Commit, StartFails, Fetch, FetchFails, PrepareWorker, MaintainLease,
         LeaseHeld, Age
    <2> QED
      BY <2>1, SameIsQuiet
  <1>5. ASSUME NEW n \in Node, active[n] \in Session, op[n] # "stop", StartRing(n),
               UNCHANGED <<owner, ready>>
        PROVE  Goal
    <2>1. owner[n] = active[n] /\ owner[n] # None
      BY <1>5 DEF OwnerShape
    <2>2. runtime[n] = NoRuntime /\ runtime' = [runtime EXCEPT ![n] = Ring(active[n])]
      BY <1>5 DEF StartRing
    <2>3. /\ Ring(active[n]) \in Runtime /\ Ring(active[n]) # NoRuntime
          /\ Ring(active[n]) # Single
      BY <1>5, RuntimeValues
    <2>4. /\ runtime'[n] = Ring(active[n])
          /\ p # n => runtime'[p] = runtime[p]
      BY <2>2 DEF TypeOK
    <2> QED
      BY <1>5, <2>1, <2>2, <2>3, <2>4, StartedAlone, OthersAreQuiet
  <1>6. ASSUME NEW n \in Node, Launch(n) PROVE Goal
    <2>1. active[n] \in Session /\ op[n] # "stop"
      BY <1>6 DEF Launch, SessionShape, TypeOK
    <2> QED
      BY <1>5, <1>6, <2>1 DEF Launch
  <1>7. ASSUME NEW n \in Node, LeaseMissed(n) PROVE Goal
    <2>1. CASE fresh[n]
      <3>1. UNCHANGED <<owner, runtime, ready>>
        BY <1>7, <2>1 DEF LeaseMissed
      <3> QED
        BY <3>1, SameIsQuiet
    <2>2. CASE ~fresh[n]
      BY <1>7, <2>2, StopLockedUsesBackend DEF LeaseMissed
    <2> QED
      BY <2>1, <2>2
  <1>8. ASSUME NEW n \in Node, StartSingle(n) PROVE Goal
    <2>1. /\ owner' = owner /\ ready' = ready /\ owner[n] = None
          /\ runtime[n] = NoRuntime /\ runtime' = [runtime EXCEPT ![n] = Single]
      BY <1>8 DEF StartSingle
    <2>2. runtime'[n] = Single /\ (p # n => runtime'[p] = runtime[p])
      BY <2>1 DEF TypeOK
    <2> QED
      BY <2>1, <2>2, RuntimeValues, StartedAlone, OthersAreQuiet
  <1>9. ASSUME NEW n \in Node, RuntimeReady(n) PROVE Goal
    <2>1. /\ owner' = owner /\ runtime' = runtime /\ active[n] \in Session
          /\ runtime[n] = Ring(active[n]) /\ ready' = [ready EXCEPT ![n] = TRUE]
      BY <1>9 DEF RuntimeReady, TypeOK
    <2>2. runtime[n] # NoRuntime
      BY <2>1, RuntimeValues
    <2>3. ready'[n] = TRUE /\ (p # n => ready'[p] = ready[p])
      BY <2>1 DEF TypeOK
    <2> QED
      BY <2>1, <2>2, <2>3, LiveBecomesReady, OthersAreQuiet
  <1>10. ASSUME NEW n \in Node, RuntimeExit(n) \/ Crash(n) PROVE Goal
    <2>1. /\ runtime'[n] = NoRuntime /\ (p # n => runtime'[p] = runtime[p])
          /\ ready'[n] = FALSE /\ (p # n => ready'[p] = ready[p])
      BY <1>10 DEF RuntimeExit, Crash, TypeOK
    <2>2. /\ owner'[n] = owner[n] \/ owner'[n] = None
          /\ p # n => owner'[p] = owner[p]
      BY <1>10 DEF RuntimeExit, Crash, TypeOK
    <2> QED
      BY <2>1, <2>2, EndedNotReady, ReservationEnds, OthersAreQuiet
  <1>11. ASSUME NEW m \in net, HandlePrepare(m) PROVE Goal
    <2>1. m.to \in Node /\ m.session \in Session
      BY MessageFields
    <2>2. runtime' = runtime /\ ready' = ready
      BY <1>11 DEF HandlePrepare
    <2>3. CASE active[m.to] = None /\ owner[m.to] = None
      <3>1. owner' = [owner EXCEPT ![m.to] = m.session]
        BY <1>11, <2>3 DEF HandlePrepare
      <3> QED
        BY <2>1, <2>2, <2>3, <3>1, ReservedOnce, OthersAreQuiet DEF TypeOK
    <2>4. CASE ~(active[m.to] = None /\ owner[m.to] = None)
      <3>1. owner' = owner
        BY <1>11, <2>4 DEF HandlePrepare
      <3> QED
        BY <2>2, <3>1, SameIsQuiet
    <2> QED
      BY <2>3, <2>4
  <1>12. ASSUME NEW m \in net,
                HandleArm(m) \/ CommitRefused(m) \/ HandleLease(m) \/ StopIgnored(m)
         PROVE  Goal
    <2>1. UNCHANGED <<owner, runtime, ready>>
      BY <1>12 DEF HandleArm, CommitRefused, HandleLease, StopIgnored
    <2> QED
      BY <2>1, SameIsQuiet
  <1>13. ASSUME NEW m \in net, HandleCommit(m) PROVE Goal
    <2>1. m.to \in Node /\ active[m.to] \in Session /\ op[m.to] # "stop"
      BY <1>13, MessageFields DEF HandleCommit, Matches, Received
    <2> QED
      BY <1>5, <1>13, <2>1 DEF HandleCommit
  <1>14. ASSUME NEW m \in net, CommitFails(m) \/ HandleStop(m) PROVE Goal
    BY <1>14, MessageFields, StopLockedUsesBackend DEF CommitFails, HandleStop
  <1>15. ASSUME UNCHANGED vars PROVE Goal
    <2>1. UNCHANGED <<owner, runtime, ready>>
      BY <1>15 DEF vars
    <2> QED
      BY <2>1, SameIsQuiet
  <1> HIDE DEF Goal
  <1>16. Goal
    BY <1>1, <1>2, <1>3, <1>4, <1>6, <1>7, <1>8, <1>9, <1>10, <1>11, <1>12, <1>13,
       <1>14, <1>15
    DEF Next, Goroutine, FailPreparation, Maintain, MaintainStop, Environment, Handle
  <1> QED
    BY <1>16 DEF Goal

\* No move of a backend leaves a runtime that has ended ready.
LEMMA BackendForgetsReadiness ==
  ASSUME ReadyShape, \A p \in Node : [Backend(p)!Next]_(Backend(p)!vars)
  PROVE  ReadyShape'
  <1> SUFFICES ASSUME NEW p \in Node, runtime'[p] = NoRuntime PROVE ~ready'[p]
    BY DEF ReadyShape
  <1>1. Lent(p)' = "none" /\ (Lent(p) = "none" => ~ready[p])
    BY RuntimeValues DEF Lent, ReadyShape
  <1>2. CASE Backend(p)!Next
    BY <1>1, <1>2 DEF Backend!Next, Backend!ReserveRing, Backend!Start,
       Backend!BecomeReady, Backend!End, Backend!Ended, Backend!ReleaseRing
  <1>3. CASE UNCHANGED (Backend(p)!vars)
    BY <1>1, <1>3 DEF Backend!vars
  <1> QED
    BY <1>2, <1>3

\* Reserving, starting, waiting, stopping and crashing, the cluster never asks
\* more of a node's runtime than the interface Backend promises.
THEOREM RingUsesBackend == Spec => UsesRingBackend
  <1>1. Init => ReadyShape /\ \A n \in Node : Backend(n)!Init
    BY DEF Init, ReadyShape, Backend!Init, Lent
  <1>2. IInv /\ ReadyShape /\ [Next]_vars
          => \A n \in Node : [Backend(n)!Next]_(Backend(n)!vars)
    BY NextUsesBackend
  <1>3. IInv /\ ReadyShape /\ [Next]_vars => ReadyShape'
    BY <1>2, BackendForgetsReadiness
  <1> QED
    BY <1>1, <1>2, <1>3, RingInvariant, PTL DEF Spec, UsesRingBackend

=============================================================================
