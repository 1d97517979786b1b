----------------------------- MODULE TunnelProofs -----------------------------
(***************************************************************************)
(* Proofs about Tunnel: no live client of the tunnel is left without both  *)
(* protections unless somebody is on the way who will stop it, none is     *)
(* left after the orderly end of the program, and the sessions next to it  *)
(* still behave as LoginSessions says.                                     *)
(***************************************************************************)
EXTENDS Tunnel, LoginSessionsProofs, TLAPS

USE RequestsAndKeys DEF Actor, At

\* What an actor does next replaces its task and no other.
LEMMA OneTask ==
  ASSUME TypeOK, NEW a \in Actor, NEW t \in Task, Becomes(a, t)
  PROVE  /\ task' \in [Actor -> Task]
         /\ task'[a] = t
         /\ \A b \in Actor : b # a => task'[b] = task[b]
  BY DEF TypeOK, Becomes

\* What the next steps of a request are made of.
LEMMA Steps ==
  ASSUME NEW place \in {"idle", "auth", "access", "running", "start", "count", "stop", "wait", "gone"},
         NEW next \in {"end", "start", "status"}
  PROVE  /\ To(place, next) \in Task
         /\ To(place, next).at = place /\ To(place, next).then = next
         /\ Idle \in Task /\ Idle.at = "idle" /\ Idle.then = "end"
  BY DEF To, Idle, Task

\* The login does not notice what does not concern it.
LEMMA LoginUntouched ==
  ASSUME LoginIInv, UNCHANGED loginVars
  PROVE  LoginIInv' /\ LoginTypeOK' /\ login' = login /\ change' = change
  BY LoginNextIInv DEF LoginIInv, loginVars, memoryVars, changeVars

-----------------------------------------------------------------------------
(* Steps that only move an actor on.                                       *)

LEMMA MoveIInv ==
  ASSUME IInv, NEW a \in Actor, NEW t \in Task, Becomes(a, t),
         UNCHANGED <<loginVars, accessVars, managerVars, phase>>,
         t.at # "wait", ~At(a, "wait"),
         a = "admin" => change = "idle",
         a = "main" => /\ phase # "up" /\ t.then = "end"
                       /\ t.at = "stop" \/ (t.at = "gone" /\ client # "live"),
         client = "live" /\ ~login.enabled /\ LoginWatcher(a) =>
           t.at \in {"stop", "auth"} \/ (t.at = "running" /\ ~t.ready) \/ (t.at = "access" /\ ~t.auth),
         client = "live" /\ ~(keyCheck /\ keys > 0) /\ KeysWatcher(a) =>
           t.at \in {"stop", "auth", "access"} \/ (t.at = "running" /\ ~t.ready)
  PROVE  IInv'
  <1>1. /\ task' \in [Actor -> Task]
        /\ task'[a] = t
        /\ \A b \in Actor : b # a => task'[b] = task[b]
    BY OneTask DEF IInv
  <1>2. /\ keyCheck' = keyCheck /\ keys' = keys
        /\ client' = client /\ stopping' = stopping /\ holder' = holder /\ phase' = phase
    BY DEF accessVars, managerVars
  <1>3. LoginIInv' /\ LoginTypeOK' /\ login' = login /\ change' = change
    BY LoginUntouched DEF IInv
  <1>4. TypeOK'
    BY <1>1, <1>2, <1>3 DEF IInv, TypeOK
  <1>5. LoginWatched'
    <2> SUFFICES ASSUME client = "live", ~login.enabled PROVE \E b \in Actor : LoginWatcher(b)'
      BY <1>2, <1>3 DEF LoginWatched
    <2>1. PICK b \in Actor : LoginWatcher(b)
      BY DEF IInv, UnprotectedIsWatched, LoginWatched
    <2>2. CASE b = a
      BY <1>1, <2>1, <2>2 DEF LoginWatcher, Found
    <2>3. CASE b # a
      BY <1>1, <2>1, <2>3 DEF LoginWatcher, Found
    <2> QED
      BY <2>2, <2>3
  <1>6. KeysWatched'
    <2> SUFFICES ASSUME client = "live", ~(keyCheck /\ keys > 0)
                 PROVE  \E b \in Actor : KeysWatcher(b)'
      BY <1>2 DEF KeysWatched
    <2>1. PICK b \in Actor : KeysWatcher(b)
      BY DEF IInv, UnprotectedIsWatched, KeysWatched
    <2>2. CASE b = a
      BY <1>1, <2>1, <2>2 DEF KeysWatcher, Found
    <2>3. CASE b # a
      BY <1>1, <2>1, <2>3 DEF KeysWatcher, Found
    <2> QED
      BY <2>2, <2>3
  <1>7. Waits'
    BY <1>1, <1>2 DEF IInv, Waits
  <1>8. ChangingOnly'
    BY <1>1, <1>3 DEF IInv, ChangingOnly
  <1>9. Closing'
    BY <1>1, <1>2 DEF IInv, Closing
  <1>10. KeyRemains'
    BY <1>2 DEF IInv, KeyRemains
  <1> QED
    BY <1>3, <1>4, <1>5, <1>6, <1>7, <1>8, <1>9, <1>10 DEF IInv, UnprotectedIsWatched

\* A request is neither main nor the handler of the credentials.
LEMMA RequestIsOther ==
  ASSUME NEW r \in Request
  PROVE  r \in Actor /\ r # "admin" /\ r # "main"
  OBVIOUS

\* The requests that ask first.
LEMMA AskMoves ==
  ASSUME IInv, NEW r \in Request, AskStatus(r) \/ AskStart(r) \/ AskStop(r)
  PROVE  IInv'
  <1>1. PICK t \in {To("auth", "end"), To("auth", "start"), To("stop", "status")} : Becomes(r, t)
    BY DEF AskStatus, AskStart, AskStop
  <1>2. t \in Task /\ t.at \in {"auth", "stop"}
    BY <1>1, Steps
  <1>3. At(r, "idle") /\ UNCHANGED <<loginVars, accessVars, managerVars, phase>>
    BY DEF AskStatus, AskStart, AskStop, Open
  <1> QED
    BY <1>1, <1>2, <1>3, RequestIsOther, MoveIInv

\* A look at the number of keys.
LEMMA CountMoves ==
  ASSUME IInv, NEW r \in Request, CountKeys(r)
  PROVE  IInv'
  <1>1. PICK t \in {Idle, To("stop", "end")} : Becomes(r, t)
    BY DEF CountKeys
  <1>2. t \in Task /\ t.at \in {"idle", "stop"}
    BY <1>1, Steps
  <1>3. At(r, "count") /\ UNCHANGED <<loginVars, accessVars, managerVars, phase>>
    BY DEF CountKeys
  <1>4. ~LoginWatcher(r) /\ ~KeysWatcher(r)
    BY <1>3 DEF LoginWatcher, KeysWatcher, Found
  <1> QED
    BY <1>1, <1>2, <1>3, <1>4, RequestIsOther, MoveIInv

\* The three reads of a status.
LEMMA ReadMoves ==
  ASSUME IInv, NEW r \in Request, ReadAuth(r) \/ ReadAccess(r) \/ ReadStatus(r)
  PROVE  IInv'
  <1>0. task[r] \in Task /\ r \in Actor /\ login.enabled \in BOOLEAN
    BY RequestIsOther DEF IInv, TypeOK, LoginTypeOK, Policy
  <1>u. UNCHANGED <<loginVars, accessVars, managerVars, phase>>
    BY DEF ReadAuth, ReadAccess, ReadStatus
  <1>1. CASE ReadAuth(r)
    <2> DEFINE t == [task[r] EXCEPT !.at = "access", !.auth = login.enabled]
    <2>1. At(r, "auth") /\ Becomes(r, t)
      BY <1>1 DEF ReadAuth
    <2>2. t \in Task /\ t.at = "access" /\ t.auth = login.enabled
      BY <1>0 DEF Task
    <2> HIDE DEF t
    <2> QED
      BY <1>0, <1>u, <2>1, <2>2, RequestIsOther, MoveIInv
  <1>2. CASE ReadAccess(r)
    <2> DEFINE t == [task[r] EXCEPT !.at = "running", !.ready = task[r].auth /\ keyCheck /\ keys > 0]
    <2>1. At(r, "access") /\ Becomes(r, t)
      BY <1>2 DEF ReadAccess
    <2>2. keyCheck \in BOOLEAN /\ task[r].auth \in BOOLEAN
      BY <1>0 DEF IInv, TypeOK, Task
    <2>3. t \in Task /\ t.at = "running" /\ t.ready = (task[r].auth /\ keyCheck /\ keys > 0)
      BY <1>0, <2>2 DEF Task
    <2> HIDE DEF t
    <2>4. LoginWatcher(r) => ~t.ready
      BY <2>1, <2>3 DEF LoginWatcher, Found
    <2>5. ~(keyCheck /\ keys > 0) => ~t.ready
      BY <2>3
    <2> QED
      BY <1>0, <1>u, <2>1, <2>3, <2>4, <2>5, RequestIsOther, MoveIInv
  <1>3. CASE ReadStatus(r)
    <2>1. PICK t \in {To("stop", "end"), To("start", "end"), Idle} : Becomes(r, t)
      BY <1>3 DEF ReadStatus
    <2>2. t \in Task /\ t.at \in {"stop", "start", "idle"}
      BY <2>1, Steps
    <2>3. At(r, "running")
      BY <1>3 DEF ReadStatus
    <2>4. client = "live" /\ ~task[r].ready => Becomes(r, To("stop", "end"))
      BY <1>3 DEF ReadStatus
    <2>5. CASE client = "live" /\ ~task[r].ready
      <3>1. To("stop", "end") \in Task /\ To("stop", "end").at = "stop"
        BY Steps
      <3> QED
        BY <1>0, <1>u, <2>3, <2>4, <2>5, <3>1, RequestIsOther, MoveIInv
    <2>6. CASE ~(client = "live" /\ ~task[r].ready)
      <3>1. client = "live" => ~LoginWatcher(r) /\ ~KeysWatcher(r)
        BY <2>3, <2>6 DEF LoginWatcher, KeysWatcher, Found
      <3> QED
        BY <1>0, <1>u, <2>1, <2>2, <2>3, <3>1, RequestIsOther, MoveIInv
    <2> QED
      BY <2>5, <2>6
  <1> QED
    BY <1>1, <1>2, <1>3

\* A start that does nothing.
LEMMA NoStartMoves ==
  ASSUME IInv, NEW r \in Request, StartRefused(r) \/ StartFails(r)
  PROVE  IInv'
  <1>1. At(r, "start") /\ Becomes(r, Idle)
        /\ UNCHANGED <<loginVars, accessVars, managerVars, phase>>
    BY DEF StartRefused, StartFails
  <1>2. ~LoginWatcher(r) /\ ~KeysWatcher(r)
    BY <1>1 DEF LoginWatcher, KeysWatcher, Found
  <1>3. Idle \in Task /\ Idle.at = "idle"
    BY Steps
  <1> QED
    BY <1>1, <1>2, <1>3, RequestIsOther, MoveIInv

\* What follows a stop.
LEMMA AfterStop ==
  ASSUME TypeOK, Closing, NEW a \in Actor
  PROVE  /\ After(a) \in Task /\ After(a).at \in {"auth", "gone", "idle"}
         /\ a = "main" => After(a).at = "gone" /\ After(a).then = "end"
         /\ a # "main" => After(a).at # "gone"
  <1>1. /\ To("auth", "end") \in Task /\ To("auth", "end").at = "auth"
        /\ To("gone", "end") \in Task /\ To("gone", "end").at = "gone" /\ To("gone", "end").then = "end"
        /\ Idle \in Task /\ Idle.at = "idle"
    BY Steps
  <1>2. a = "main" => task[a].then # "status"
    BY DEF Closing
  <1> QED
    BY <1>1, <1>2 DEF After

\* A stop of nothing, and main's turn.
LEMMA StopNothingMoves ==
  ASSUME IInv, NEW a \in Actor, StopNothing(a)
  PROVE  IInv'
  <1>1. /\ At(a, "stop") /\ client = "none" /\ Becomes(a, After(a))
        /\ UNCHANGED <<loginVars, accessVars, managerVars, phase>>
    BY DEF StopNothing
  <1>2. a = "admin" => change = "idle"
    BY <1>1 DEF IInv, ChangingOnly
  <1>3. a = "main" => phase # "up"
    BY <1>1 DEF IInv, Closing
  <1>4. TypeOK /\ Closing
    BY DEF IInv
  <1>5. ~At(a, "wait") /\ client # "live"
    BY <1>1
  <1> QED
    BY <1>1, <1>2, <1>3, <1>4, <1>5, AfterStop, MoveIInv

LEMMA MainMoves ==
  ASSUME IInv, MainStops
  PROVE  IInv'
  <1>1. /\ phase = "closing" /\ At("main", "idle") /\ Becomes("main", To("stop", "end"))
        /\ UNCHANGED <<loginVars, accessVars, managerVars, phase>>
    BY DEF MainStops
  <1>2. To("stop", "end") \in Task /\ To("stop", "end").at = "stop" /\ To("stop", "end").then = "end"
    BY Steps
  <1>3. "main" \in Actor /\ "main" # "admin" /\ phase # "up" /\ ~At("main", "wait")
    BY <1>1
  <1> QED
    BY <1>1, <1>2, <1>3, MoveIInv

-----------------------------------------------------------------------------
(* Steps that change the key check or the keys.                            *)

\* The invariant over tasks that only gain a request on its way to a stop.
LEMMA KeyIInv ==
  ASSUME IInv, NEW r \in Request, Open(r),
         KeyCheckOn(r) \/ KeyCheckOff(r) \/ IssueKey(r) \/ RevokeKey(r)
  PROVE  IInv'
  <1>1. LoginIInv' /\ LoginTypeOK' /\ login' = login /\ change' = change
    <2>1. UNCHANGED loginVars
      BY DEF KeyCheckOn, KeyCheckOff, IssueKey, RevokeKey
    <2> QED
      BY <2>1, LoginUntouched DEF IInv
  <1>2. client' = client /\ stopping' = stopping /\ holder' = holder /\ phase' = phase
    BY DEF KeyCheckOn, KeyCheckOff, IssueKey, RevokeKey, managerVars
  <1>3. PICK t \in {task[r], To("stop", "end"), To("count", "end")} : Becomes(r, t)
    BY RequestIsOther DEF KeyCheckOn, KeyCheckOff, IssueKey, RevokeKey, Becomes, IInv, TypeOK
  <1>4. t \in Task /\ t.at \in {"idle", "stop", "count"}
    BY <1>3, Steps, RequestIsOther DEF Open, IInv, TypeOK
  <1>5. /\ task' \in [Actor -> Task]
        /\ task'[r] = t
        /\ \A b \in Actor : b # r => task'[b] = task[b]
    BY <1>3, <1>4, OneTask, RequestIsOther DEF IInv
  <1>6. keyCheck \in BOOLEAN /\ keys \in Nat /\ MaxKeys \in Nat /\ keys <= MaxKeys
        /\ (keyCheck => keys > 0)
    BY DEF IInv, TypeOK, KeyRemains
  <1>7. keyCheck' \in BOOLEAN /\ keys' \in 0..MaxKeys /\ (keyCheck' => keys' > 0)
    <2>1. CASE KeyCheckOn(r)
      BY <1>6, <2>1 DEF KeyCheckOn
    <2>2. CASE KeyCheckOff(r)
      <3>1. keyCheck' = FALSE /\ keys' = keys
        BY <2>2 DEF KeyCheckOff
      <3>2. ~keyCheck' /\ keyCheck' \in BOOLEAN
        BY <3>1
      <3>3. keys' \in 0..MaxKeys
        BY <1>6, <3>1
      <3> QED
        BY <3>2, <3>3
    <2>3. CASE IssueKey(r)
      BY <1>6, <2>3 DEF IssueKey
    <2>4. CASE RevokeKey(r)
      BY <1>6, <2>4 DEF RevokeKey
    <2> QED
      BY <2>1, <2>2, <2>3, <2>4
  <1>8. ~LoginWatcher(r) /\ ~KeysWatcher(r)
    BY DEF LoginWatcher, KeysWatcher, Found, Open
  <1>9. TypeOK'
    BY <1>1, <1>2, <1>5, <1>7 DEF IInv, TypeOK
  <1>10. \A b \in Actor : /\ LoginWatcher(b) => LoginWatcher(b)'
                          /\ KeysWatcher(b) => KeysWatcher(b)'
    BY <1>5, <1>8 DEF LoginWatcher, KeysWatcher, Found
  <1>11. LoginWatched'
    BY <1>1, <1>2, <1>10 DEF IInv, UnprotectedIsWatched, LoginWatched
  <1>12. KeysWatched'
    <2>1. CASE keyCheck /\ keys > 0 /\ ~(keyCheck' /\ keys' > 0)
      <3>1. KeyCheckOff(r)
        <4>1. ~KeyCheckOn(r)
          BY <2>1 DEF KeyCheckOn
        <4>2. ~IssueKey(r)
          <5> SUFFICES ASSUME IssueKey(r) PROVE FALSE
            OBVIOUS
          <5>1. keyCheck'
            BY <2>1 DEF IssueKey
          <5>2. keys' > 0
            BY <1>6, <2>1 DEF IssueKey
          <5> QED
            BY <2>1, <5>1, <5>2
        <4>3. ~RevokeKey(r)
          <5> SUFFICES ASSUME RevokeKey(r) PROVE FALSE
            OBVIOUS
          <5>1. keyCheck'
            BY <2>1 DEF RevokeKey
          <5>2. keys' > 0
            BY <1>6, <2>1 DEF RevokeKey
          <5> QED
            BY <2>1, <5>1, <5>2
        <4> QED
          BY <4>1, <4>2, <4>3
      <3>2. task'[r] = To("stop", "end")
        BY <3>1, Steps, OneTask, RequestIsOther DEF KeyCheckOff, IInv
      <3>3. KeysWatcher(r)'
        BY <3>2, Steps DEF KeysWatcher
      <3> QED
        BY <3>3, RequestIsOther DEF KeysWatched
    <2>2. CASE ~(keyCheck /\ keys > 0)
      BY <1>2, <1>10, <2>2 DEF IInv, UnprotectedIsWatched, KeysWatched
    <2>3. CASE keyCheck' /\ keys' > 0
      BY <2>3 DEF KeysWatched
    <2> QED
      BY <2>1, <2>2, <2>3
  <1>13. Waits'
    BY <1>2, <1>4, <1>5 DEF IInv, Waits, Open
  <1>14. ChangingOnly'
    BY <1>1, <1>5, RequestIsOther DEF IInv, ChangingOnly
  <1>15. Closing'
    BY <1>2, <1>5, RequestIsOther DEF IInv, Closing
  <1> QED
    BY <1>1, <1>7, <1>9, <1>11, <1>12, <1>13, <1>14, <1>15
    DEF IInv, UnprotectedIsWatched, KeyRemains

-----------------------------------------------------------------------------
(* Steps of the manager.                                                   *)

\* What a step that leaves the login and the keys alone keeps.
LEMMA KeptOutside ==
  ASSUME IInv, UNCHANGED loginVars, UNCHANGED accessVars
  PROVE  /\ LoginIInv' /\ LoginTypeOK' /\ KeyRemains' /\ login' = login /\ change' = change
         /\ keyCheck' = keyCheck /\ keys' = keys
         /\ keyCheck' \in BOOLEAN /\ keys' \in 0..MaxKeys
  BY LoginUntouched DEF IInv, KeyRemains, accessVars, TypeOK

\* A client that is not live needs no watcher.
LEMMA NothingToWatch ==
  ASSUME client' # "live"
  PROVE  UnprotectedIsWatched'
  BY DEF UnprotectedIsWatched, LoginWatched, KeysWatched

\* The start that counts looks at the protections again.
LEMMA StartIInv ==
  ASSUME IInv, NEW r \in Request, Start(r)
  PROVE  IInv'
  <1>1. At(r, "start") /\ holder = None /\ phase = "up" /\ UNCHANGED <<stopping, holder, phase>>
    BY DEF Start
  <1>2. client' \in {"none", "live", "dead"}
    BY DEF Start, IInv, TypeOK
  <1>3. To("auth", "end") \in Task /\ To("auth", "end").at = "auth"
    BY Steps
  <1>4. /\ task' \in [Actor -> Task]
        /\ task'[r].at = "auth"
        /\ \A b \in Actor : b # r => task'[b] = task[b]
    BY <1>3, OneTask, RequestIsOther DEF Start, IInv
  <1>5. /\ LoginIInv' /\ LoginTypeOK' /\ KeyRemains' /\ login' = login /\ change' = change
        /\ keyCheck' \in BOOLEAN /\ keys' \in 0..MaxKeys
    BY KeptOutside DEF Start
  <1>6. TypeOK'
    BY <1>1, <1>2, <1>4, <1>5 DEF IInv, TypeOK
  <1>7. LoginWatcher(r)' /\ KeysWatcher(r)'
    BY <1>4 DEF LoginWatcher, KeysWatcher
  <1>8. UnprotectedIsWatched'
    BY <1>7, RequestIsOther DEF UnprotectedIsWatched, LoginWatched, KeysWatched
  <1>9. Waits'
    BY <1>1, <1>4, RequestIsOther DEF IInv, Waits
  <1>10. ChangingOnly'
    BY <1>4, <1>5, RequestIsOther DEF IInv, ChangingOnly
  <1>11. Closing'
    BY <1>1, <1>4, RequestIsOther DEF IInv, Closing
  <1> QED
    BY <1>5, <1>6, <1>8, <1>9, <1>10, <1>11 DEF IInv

\* The lock is kept until the killed client is reaped ...
LEMMA StopKillsIInv ==
  ASSUME IInv, NEW a \in Actor, StopKills(a)
  PROVE  IInv'
  <1> DEFINE t == [task[a] EXCEPT !.at = "wait"]
  <1>1. /\ At(a, "stop") /\ holder = None /\ holder' = a /\ stopping' = TRUE
        /\ client' = "dead" /\ phase' = phase /\ Becomes(a, t)
    BY DEF StopKills
  <1>2. t \in Task /\ t.at = "wait" /\ t.then = task[a].then
    BY DEF IInv, TypeOK, Task
  <1> HIDE DEF t
  <1>3. /\ task' \in [Actor -> Task]
        /\ task'[a].at = "wait" /\ task'[a].then = task[a].then
        /\ \A b \in Actor : b # a => task'[b] = task[b]
    BY <1>1, <1>2, OneTask DEF IInv
  <1>4. /\ LoginIInv' /\ LoginTypeOK' /\ KeyRemains' /\ login' = login /\ change' = change
        /\ keyCheck' \in BOOLEAN /\ keys' \in 0..MaxKeys
    BY KeptOutside DEF StopKills
  <1>5. TypeOK'
    BY <1>1, <1>3, <1>4 DEF IInv, TypeOK
  <1>6. UnprotectedIsWatched'
    BY <1>1, NothingToWatch
  <1>7. Waits'
    BY <1>1, <1>3 DEF IInv, Waits
  <1>8. ChangingOnly'
    BY <1>1, <1>3, <1>4 DEF IInv, ChangingOnly
  <1>9. Closing'
    BY <1>1, <1>3 DEF IInv, Closing
  <1> QED
    BY <1>4, <1>5, <1>6, <1>7, <1>8, <1>9 DEF IInv

\* ... or until the stop gives up on that.
LEMMA StopEndsIInv ==
  ASSUME IInv, NEW a \in Actor, StopReturns(a) \/ StopGivesUp(a)
  PROVE  IInv'
  <1>1. /\ At(a, "wait") /\ holder' = None /\ client' = client /\ stopping' = stopping
        /\ phase' = phase
    BY DEF StopReturns, StopGivesUp
  <1>2. client # "live" /\ holder = a
    BY <1>1 DEF IInv, Waits
  <1>3. PICK t \in {Idle, After(a)} : Becomes(a, t) /\ (t = Idle => task[a].then = "status" \/ t = After(a))
    BY DEF StopReturns, StopGivesUp
  <1>4. /\ t \in Task /\ t.at \in {"auth", "gone", "idle"}
        /\ a = "main" => t.at = "gone" /\ t.then = "end"
        /\ a # "main" => t.at # "gone"
    <2>1. TypeOK /\ Closing /\ (a = "main" => task[a].then = "end")
      BY DEF IInv, Closing
    <2>2. Idle \in Task /\ Idle.at = "idle"
      BY Steps
    <2> QED
      BY <1>3, <2>1, <2>2, AfterStop
  <1>5. /\ task' \in [Actor -> Task]
        /\ task'[a] = t
        /\ \A b \in Actor : b # a => task'[b] = task[b]
    BY <1>3, <1>4, OneTask DEF IInv
  <1>6. /\ LoginIInv' /\ LoginTypeOK' /\ KeyRemains' /\ login' = login /\ change' = change
        /\ keyCheck' \in BOOLEAN /\ keys' \in 0..MaxKeys
    BY KeptOutside DEF StopReturns, StopGivesUp
  <1>7. TypeOK'
    BY <1>1, <1>5, <1>4, <1>6 DEF IInv, TypeOK
  <1>8. UnprotectedIsWatched'
    BY <1>1, <1>2, NothingToWatch
  <1>9. Waits'
    <2>1. \A b \in Actor : task'[b].at # "wait"
      BY <1>2, <1>4, <1>5 DEF IInv, Waits
    <2>2. \A b \in Actor : b # None
      OBVIOUS
    <2> QED
      BY <1>1, <2>1, <2>2 DEF Waits
  <1>10. ChangingOnly'
    BY <1>1, <1>5, <1>6 DEF IInv, ChangingOnly
  <1>11. Closing'
    BY <1>1, <1>2, <1>4, <1>5 DEF IInv, Closing
  <1> QED
    BY <1>6, <1>7, <1>8, <1>9, <1>10, <1>11 DEF IInv

\* The client ends by itself, or is reaped.
LEMMA ClientIInv ==
  ASSUME IInv, ClientEnds \/ Reap
  PROVE  IInv'
  <1>1. /\ client' \in {"dead", "none"} /\ stopping' \in BOOLEAN
        /\ UNCHANGED <<holder, task, phase>>
    BY DEF ClientEnds, Reap, IInv, TypeOK
  <1>2. /\ LoginIInv' /\ LoginTypeOK' /\ KeyRemains' /\ change' = change
        /\ keyCheck' \in BOOLEAN /\ keys' \in 0..MaxKeys
    BY KeptOutside DEF ClientEnds, Reap
  <1>3. TypeOK'
    BY <1>1, <1>2 DEF IInv, TypeOK
  <1>4. UnprotectedIsWatched'
    BY <1>1, NothingToWatch
  <1>5. Waits' /\ ChangingOnly' /\ Closing'
    BY <1>1, <1>2 DEF IInv, Waits, ChangingOnly, Closing
  <1> QED
    BY <1>2, <1>3, <1>4, <1>5 DEF IInv

-----------------------------------------------------------------------------
(* The login, and the life of the program.                                 *)

\* Steps of the login that keep the settings in memory.
LEMMA LoginStepsIInv ==
  ASSUME IInv, Sessions \/ ChangeSecurity \/ ChangeSteps
  PROVE  IInv'
  <1>1. UNCHANGED <<accessVars, managerVars, task, phase>>
    BY DEF Sessions, ChangeSecurity, ChangeSteps
  <1>2. LoginNext /\ login' = login
    BY DEF Sessions, ChangeSecurity, ChangeSteps, LoginNext, Enter, LoginPlain, LoginRemembered,
           LoginUnsaved, Logout, ChangeBegin, Commit, CommitFails, Restore, RestoreFails, memoryVars
  <1>3. change' # "idle" => At("admin", "idle")
    BY DEF Sessions, ChangeSecurity, ChangeSteps, Open, IInv, ChangingOnly, Enter, LoginPlain,
           LoginRemembered, LoginUnsaved, Logout, Commit, CommitFails, Restore, RestoreFails,
           changeVars
  <1>4. LoginIInv' /\ LoginTypeOK'
    BY <1>2, LoginNextIInv DEF IInv, LoginIInv
  <1>5. /\ keyCheck' = keyCheck /\ keys' = keys /\ client' = client /\ stopping' = stopping
        /\ holder' = holder /\ task' = task /\ phase' = phase
    BY <1>1 DEF accessVars, managerVars
  <1>6. TypeOK'
    BY <1>4, <1>5 DEF IInv, TypeOK
  <1>7. UnprotectedIsWatched'
    BY <1>2, <1>5 DEF IInv, UnprotectedIsWatched, LoginWatched, KeysWatched, LoginWatcher, KeysWatcher, Found
  <1>8. Waits' /\ ChangingOnly' /\ Closing' /\ KeyRemains'
    BY <1>3, <1>5 DEF IInv, Waits, ChangingOnly, Closing, KeyRemains
  <1> QED
    BY <1>4, <1>6, <1>7, <1>8 DEF IInv

\* The login is turned off and its handler goes on to the stop.
LEMMA AdoptIInv ==
  ASSUME IInv, AdoptAndStop
  PROVE  IInv'
  <1>1. /\ keyCheck' = keyCheck /\ keys' = keys /\ client' = client /\ stopping' = stopping
        /\ holder' = holder /\ phase' = phase
    BY DEF AdoptAndStop, accessVars, managerVars
  <1>2. Adopt /\ change = "committed" /\ login' = wanted /\ change' = "idle"
    BY DEF AdoptAndStop, Adopt, Finish
  <1>3. LoginIInv' /\ LoginTypeOK'
    BY <1>2, LoginNextIInv DEF IInv, LoginIInv, LoginNext
  <1>4. PICK t \in {Idle, To("stop", "end")} :
            Becomes("admin", t) /\ (~wanted.enabled => t = To("stop", "end"))
    BY DEF AdoptAndStop
  <1>5. t \in Task /\ t.at \in {"idle", "stop"} /\ (~wanted.enabled => t.at = "stop")
    BY <1>4, Steps
  <1>6. /\ task' \in [Actor -> Task]
        /\ task'["admin"] = t
        /\ \A b \in Actor : b # "admin" => task'[b] = task[b]
    BY <1>4, <1>5, OneTask DEF IInv
  <1>7. task["admin"].at = "idle"
    BY <1>2 DEF IInv, ChangingOnly
  <1>8. TypeOK'
    BY <1>1, <1>3, <1>6 DEF IInv, TypeOK
  <1>9. LoginWatched'
    <2>1. CASE wanted.enabled
      BY <1>2, <2>1 DEF LoginWatched
    <2>2. CASE ~wanted.enabled
      <3>1. LoginWatcher("admin")'
        BY <1>5, <1>6, <2>2 DEF LoginWatcher
      <3> QED
        BY <3>1 DEF LoginWatched
    <2> QED
      BY <2>1, <2>2
  <1>10. KeysWatched'
    <2>1. \A b \in Actor : KeysWatcher(b) => KeysWatcher(b)'
      BY <1>6, <1>7 DEF KeysWatcher, Found
    <2> QED
      BY <1>1, <2>1 DEF IInv, UnprotectedIsWatched, KeysWatched
  <1>11. Waits'
    BY <1>1, <1>5, <1>6, <1>7 DEF IInv, Waits
  <1>12. ChangingOnly'
    BY <1>2 DEF ChangingOnly
  <1>13. Closing'
    BY <1>1, <1>6 DEF IInv, Closing
  <1>14. KeyRemains'
    BY <1>1 DEF IInv, KeyRemains
  <1> QED
    BY <1>3, <1>8, <1>9, <1>10, <1>11, <1>12, <1>13, <1>14 DEF IInv, UnprotectedIsWatched

\* The end begins, or is complete.
LEMMA CloseIInv ==
  ASSUME IInv, Close \/ Exit
  PROVE  IInv'
  <1>1. UNCHANGED <<loginVars, accessVars, managerVars, task>> /\ phase' \in {"closing", "exited"}
        /\ (phase' = "exited" => At("main", "gone"))
    BY DEF Close, Exit
  <1>2. client' = client /\ stopping' = stopping /\ holder' = holder /\ task' = task
        /\ login' = login
    BY <1>1 DEF managerVars, loginVars, memoryVars
  <1>3. /\ LoginIInv' /\ LoginTypeOK' /\ KeyRemains' /\ change' = change
        /\ keyCheck' = keyCheck /\ keys' = keys
        /\ keyCheck' \in BOOLEAN /\ keys' \in 0..MaxKeys
    BY <1>1, KeptOutside
  <1>4. TypeOK'
    BY <1>1, <1>2, <1>3 DEF IInv, TypeOK
  <1>5. UnprotectedIsWatched'
    BY <1>2, <1>3 DEF IInv, UnprotectedIsWatched, LoginWatched, KeysWatched, LoginWatcher, KeysWatcher, Found
  <1>6. Waits' /\ ChangingOnly' /\ Closing'
    BY <1>1, <1>2, <1>3 DEF IInv, Waits, ChangingOnly, Closing
  <1> QED
    BY <1>3, <1>4, <1>5, <1>6 DEF IInv

\* A crash, or the next launch.
LEMMA RelaunchIInv ==
  ASSUME IInv, Relaunch
  PROVE  IInv'
  <1>1. /\ client' = "none" /\ stopping' = FALSE /\ holder' = None /\ phase' = "up"
        /\ keyCheck' = keyCheck /\ keys' = keys /\ change' = "idle"
    BY DEF Relaunch, accessVars, LoginRelaunch, Finish
  <1>2. LoginIInv' /\ LoginTypeOK'
    BY LoginNextIInv DEF Relaunch, IInv, LoginIInv, LoginNext
  <1>3. task' \in [Actor -> Task] /\ \A b \in Actor : task'[b].at = "idle" /\ task'[b].then = "end"
    BY Steps DEF Relaunch
  <1>4. TypeOK'
    BY <1>1, <1>2, <1>3 DEF IInv, TypeOK
  <1>5. UnprotectedIsWatched'
    BY <1>1, NothingToWatch
  <1>6. Waits'
    <2>1. \A b \in Actor : b # None
      OBVIOUS
    <2> QED
      BY <1>1, <1>3, <2>1 DEF Waits
  <1>7. ChangingOnly' /\ Closing' /\ KeyRemains'
    BY <1>1, <1>3 DEF IInv, ChangingOnly, Closing, KeyRemains
  <1> QED
    BY <1>2, <1>4, <1>5, <1>6, <1>7 DEF IInv

-----------------------------------------------------------------------------
(* The invariant and what follows from it.                                 *)

\* The initial states.
LEMMA InitIInv == Init => IInv
  <1> SUFFICES ASSUME Init PROVE IInv
    OBVIOUS
  <1>1. LoginIInv /\ LoginTypeOK /\ change = "idle"
    BY LoginInitIInv DEF Init, LoginIInv, LoginInit
  <1>2. task \in [Actor -> Task] /\ \A b \in Actor : task[b].at = "idle" /\ task[b].then = "end"
    BY Steps DEF Init
  <1>3. TypeOK
    <2>1. keyCheck \in BOOLEAN /\ stopping \in BOOLEAN
      BY DEF Init
    <2>2. keys \in 0..MaxKeys
      BY DEF Init
    <2> QED
      BY <1>1, <1>2, <2>1, <2>2 DEF Init, TypeOK
  <1>4. Waits
    <2>1. \A b \in Actor : b # None
      OBVIOUS
    <2> QED
      BY <1>2, <2>1 DEF Init, Waits
  <1>5. UnprotectedIsWatched /\ ChangingOnly /\ Closing /\ KeyRemains
    BY <1>1, <1>2 DEF Init, UnprotectedIsWatched, LoginWatched, KeysWatched, ChangingOnly, Closing, KeyRemains
  <1> QED
    BY <1>1, <1>3, <1>4, <1>5 DEF IInv

\* Every step keeps the invariant.
LEMMA NextIInv == IInv /\ [Next]_vars => IInv'
  <1> SUFFICES ASSUME IInv, [Next]_vars PROVE IInv'
    OBVIOUS
  <1>1. ASSUME NEW r \in Request, Ask(r) PROVE IInv'
    <2>1. CASE AskStatus(r) \/ AskStart(r) \/ AskStop(r)
      BY <2>1, AskMoves
    <2>2. CASE KeyCheckOn(r) \/ KeyCheckOff(r) \/ IssueKey(r) \/ RevokeKey(r)
      BY <2>2, KeyIInv DEF KeyCheckOn, KeyCheckOff, IssueKey, RevokeKey
    <2> QED
      BY <1>1, <2>1, <2>2 DEF Ask
  <1>2. ASSUME NEW r \in Request, Handle(r) PROVE IInv'
    BY <1>2, CountMoves, ReadMoves, NoStartMoves, StartIInv DEF Handle
  <1>3. ASSUME NEW a \in Actor, Stop(a) PROVE IInv'
    BY <1>3, StopNothingMoves, StopKillsIInv, StopEndsIInv DEF Stop
  <1>4. CASE UNCHANGED vars
    <2>1. /\ UNCHANGED loginVars /\ UNCHANGED accessVars
          /\ client' = client /\ stopping' = stopping /\ holder' = holder /\ task' = task
          /\ phase' = phase
      BY <1>4 DEF vars, managerVars
    <2>2. /\ LoginIInv' /\ LoginTypeOK' /\ KeyRemains' /\ login' = login /\ change' = change
          /\ keyCheck' = keyCheck /\ keys' = keys
          /\ keyCheck' \in BOOLEAN /\ keys' \in 0..MaxKeys
      BY <2>1, KeptOutside
    <2>3. TypeOK'
      BY <2>1, <2>2 DEF IInv, TypeOK
    <2>4. UnprotectedIsWatched'
      BY <2>1, <2>2 DEF IInv, UnprotectedIsWatched, LoginWatched, KeysWatched, LoginWatcher, KeysWatcher, Found
    <2>5. Waits' /\ ChangingOnly' /\ Closing'
      BY <2>1, <2>2 DEF IInv, Waits, ChangingOnly, Closing
    <2> QED
      BY <2>2, <2>3, <2>4, <2>5 DEF IInv
  <1> QED
    BY <1>1, <1>2, <1>3, <1>4, ClientIInv, LoginStepsIInv, AdoptIInv, CloseIInv, MainMoves,
       RelaunchIInv DEF Next

\* The inductive invariant holds in every reachable state, the types among it.
THEOREM TunnelInvariant == Spec => []IInv
  BY InitIInv, NextIInv, PTL DEF Spec

\* A live tunnel without both protections always has somebody on the way who will
\* stop it, whatever handlers interleave with the start.
THEOREM TunnelIsWatched == Spec => []UnprotectedIsWatched
  <1>1. IInv => UnprotectedIsWatched
    BY DEF IInv
  <1> QED
    BY <1>1, TunnelInvariant, PTL

\* The orderly end of the program leaves no live client.
THEOREM OrderlyEnd == Spec => []NothingLeft
  <1>1. IInv => NothingLeft
    BY DEF IInv, Closing, NothingLeft
  <1> QED
    BY <1>1, TunnelInvariant, PTL

\* Seen through the login alone, every step of the program is one of the login.
LEMMA TunnelLoginStep == [Next]_vars => [LoginNext]_loginVars
  <1> SUFFICES ASSUME [Next]_vars PROVE [LoginNext]_loginVars
    OBVIOUS
  <1>1. CASE Sessions \/ ChangeSecurity \/ ChangeSteps \/ AdoptAndStop \/ Relaunch
    BY <1>1 DEF Sessions, ChangeSecurity, ChangeSteps, AdoptAndStop, Relaunch, LoginNext
  <1>2. ASSUME NEW r \in Request, Ask(r) \/ Handle(r) PROVE UNCHANGED loginVars
    BY <1>2 DEF Ask, Handle, AskStatus, AskStart, AskStop, KeyCheckOn, KeyCheckOff, IssueKey,
                RevokeKey, CountKeys, ReadAuth, ReadAccess, ReadStatus, StartRefused, StartFails,
                Start
  <1>3. ASSUME NEW a \in Actor, Stop(a) PROVE UNCHANGED loginVars
    BY <1>3 DEF Stop, StopNothing, StopKills, StopReturns, StopGivesUp
  <1>4. CASE ClientEnds \/ Reap \/ Close \/ MainStops \/ Exit
    BY <1>4 DEF ClientEnds, Reap, Close, MainStops, Exit
  <1>5. CASE UNCHANGED vars
    BY <1>5 DEF vars
  <1> QED
    BY <1>1, <1>2, <1>3, <1>4, <1>5 DEF Next

\* The program with its tunnel runs the login as LoginSessions has it.
THEOREM TunnelRunsLogin == Spec => LoginSpec
  <1>1. Init => LoginInit
    BY DEF Init
  <1> QED
    BY <1>1, TunnelLoginStep, PTL DEF Spec, LoginSpec

\* So memory is disk, and the abstract login is implemented, with the tunnel too.
THEOREM TunnelMemoryIsDisk == Spec => []MemoryIsDisk
  BY TunnelRunsLogin, MemoryFollowsDisk, PTL

\* Tokens that ended stay ended in the program with its tunnel.
THEOREM TunnelImplementsLogin == Spec => ImplementsLogin
  BY TunnelRunsLogin, StoreImplementsLogin, PTL
=============================================================================
