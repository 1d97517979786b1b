------------------------- MODULE LoginSessionsProofs -------------------------
(***************************************************************************)
(* The session store keeps memory and disk together and implements the     *)
(* abstract login service, for any number of tokens and credentials.       *)
(***************************************************************************)
EXTENDS LoginSessions, FiniteSetTheorems, TLAPS

USE LimitsAndNames
USE DEF Policy, Phase

\* The invariant holds at the first launch.
LEMMA LoginInitIInv == LoginInit => LoginIInv
  <1> SUFFICES ASSUME LoginInit PROVE LoginIInv
    OBVIOUS
  <1>1. LoginTypeOK
    BY DEF LoginInit, LoginTypeOK
  <1>2. MemoryIsDisk /\ SignedNow /\ Phases
    BY DEF LoginInit, MemoryIsDisk, SignedNow, Phases
  <1> QED
    BY <1>1, <1>2 DEF LoginIInv

\* A login of either kind, and one that could not be saved.
LEMMA EnterIInv ==
  ASSUME LoginIInv, NEW t \in Token, Enter(t)
  PROVE  LoginIInv'
  <1> USE DEF LoginIInv, LoginTypeOK, Unlocked, Fresh
  <1>1. CASE LoginPlain(t)
    <2>1. LoginTypeOK'
      BY <1>1 DEF LoginPlain, changeVars, diskVars
    <2>2. MemoryIsDisk' /\ Phases'
      BY <1>1 DEF LoginPlain, changeVars, diskVars, MemoryIsDisk, Phases
    <2>3. SignedNow'
      BY <1>1 DEF LoginPlain, changeVars, diskVars, SignedNow
    <2> QED
      BY <2>1, <2>2, <2>3
  <1>2. CASE LoginRemembered(t)
    <2>1. LoginTypeOK'
      BY <1>2 DEF LoginRemembered, changeVars
    <2>2. MemoryIsDisk' /\ Phases'
      BY <1>2 DEF LoginRemembered, changeVars, MemoryIsDisk, Phases
    <2>3. SignedNow'
      BY <1>2 DEF LoginRemembered, changeVars, SignedNow, MemoryIsDisk
    <2> QED
      BY <2>1, <2>2, <2>3
  <1>3. CASE LoginUnsaved(t)
    <2>1. LoginTypeOK'
      BY <1>3 DEF LoginUnsaved, memoryVars, changeVars, diskVars
    <2>2. MemoryIsDisk' /\ Phases'
      BY <1>3 DEF LoginUnsaved, memoryVars, changeVars, diskVars, MemoryIsDisk, Phases
    <2>3. SignedNow'
      BY <1>3 DEF LoginUnsaved, memoryVars, changeVars, diskVars, SignedNow
    <2> QED
      BY <2>1, <2>2, <2>3
  <1> QED
    BY <1>1, <1>2, <1>3 DEF Enter

\* A logout.
LEMMA LogoutIInv ==
  ASSUME LoginIInv, NEW t \in Token, Logout(t)
  PROVE  LoginIInv'
  <1> USE DEF LoginIInv, LoginTypeOK, Logout, Unlocked, changeVars
  <1>1. LoginTypeOK'
    OBVIOUS
  <1>2. MemoryIsDisk' /\ Phases'
    BY DEF MemoryIsDisk, Phases
  <1>3. SignedNow'
    BY DEF SignedNow, MemoryIsDisk
  <1> QED
    BY <1>1, <1>2, <1>3

\* The steps of a change of the security settings.
LEMMA ChangeIInv ==
  ASSUME LoginIInv,
         (\E p \in Policy : ChangeBegin(p)) \/ Commit \/ CommitFails \/ Restore
           \/ RestoreFails \/ Adopt
  PROVE  LoginIInv'
  <1> USE DEF LoginIInv, LoginTypeOK, Unlocked
  <1>1. CASE \E p \in Policy : ChangeBegin(p)
    BY <1>1 DEF ChangeBegin, MemoryIsDisk, SignedNow, Phases
  <1>2. CASE Commit
    BY <1>2 DEF Commit, memoryVars, MemoryIsDisk, SignedNow, Phases
  <1>3. CASE CommitFails
    BY <1>3 DEF CommitFails, memoryVars, diskVars, MemoryIsDisk, SignedNow, Phases
  <1>4. CASE Restore
    BY <1>4 DEF Restore, Finish, MemoryIsDisk, SignedNow, Phases
  <1>5. CASE RestoreFails
    BY <1>5 DEF RestoreFails, Finish, MemoryIsDisk, SignedNow, Phases
  <1>6. CASE Adopt
    BY <1>6 DEF Adopt, Finish, MemoryIsDisk, SignedNow, Phases
  <1> QED
    BY <1>1, <1>2, <1>3, <1>4, <1>5, <1>6

\* The end of the program at any of these steps, and its next launch.
LEMMA LoginRelaunchIInv ==
  ASSUME LoginIInv, LoginRelaunch
  PROVE  LoginIInv'
  BY DEF LoginIInv, LoginTypeOK, LoginRelaunch, Finish, Unlocked, MemoryIsDisk, SignedNow, Phases

\* The invariant is inductive.
LEMMA LoginNextIInv == LoginIInv /\ [LoginNext]_loginVars => LoginIInv'
  <1> SUFFICES ASSUME LoginIInv, [LoginNext]_loginVars PROVE LoginIInv'
    OBVIOUS
  <1>1. CASE LoginNext
    BY <1>1, EnterIInv, LogoutIInv, ChangeIInv, LoginRelaunchIInv DEF LoginNext
  <1>2. CASE UNCHANGED loginVars
    BY <1>2 DEF loginVars, memoryVars, changeVars, diskVars, LoginIInv, LoginTypeOK, Unlocked,
                MemoryIsDisk, SignedNow, Phases
  <1> QED
    BY <1>1, <1>2

\* The inductive invariant holds in every reachable state.
THEOREM LoginInvariant == LoginSpec => []LoginIInv
  BY LoginInitIInv, LoginNextIInv, PTL DEF LoginSpec

\* Memory and disk hold the same settings and sessions whenever the lock is free,
\* whatever write failed and wherever the program was killed.
THEOREM MemoryFollowsDisk == LoginSpec => []MemoryIsDisk
  <1>1. LoginIInv => MemoryIsDisk
    BY DEF LoginIInv
  <1> QED
    BY <1>1, LoginInvariant, PTL

-----------------------------------------------------------------------------
(* The store implements the service.                                       *)

\* A login that counts issues its token; one that was not saved ends it at once.
LEMMA EnterServes ==
  ASSUME LoginIInv, NEW t \in Token, Enter(t)
  PROVE  Service!Next
  <1> USE DEF LoginIInv, LoginTypeOK, Unlocked, Fresh
  <1>1. change = "idle" /\ change' = "idle" /\ properties' = properties /\ login' = login
    BY DEF Enter, LoginPlain, LoginRemembered, LoginUnsaved, memoryVars, changeVars, diskVars
  <1>2. t \notin Valid /\ t \notin Ended
    BY <1>1 DEF Enter, LoginPlain, LoginRemembered, LoginUnsaved, Valid, Kept, Ended, SignedNow
  <1>3. CASE LoginPlain(t) \/ LoginRemembered(t)
    <2>1. Valid' = Valid \cup {t}
      <3>1. CASE LoginPlain(t)
        BY <1>1, <1>3, <3>1 DEF LoginPlain, changeVars, Valid, Kept, SignedNow
      <3>2. CASE LoginRemembered(t)
        BY <1>1, <1>3, <3>2 DEF LoginRemembered, changeVars, Valid, Kept, SignedNow
      <3> QED
        BY <1>3, <3>1, <3>2
    <2>2. {u \in Token : ~Fresh(u)}' = {u \in Token : ~Fresh(u)} \cup {t}
      BY <1>3 DEF LoginPlain, LoginRemembered
    <2>3. Ended' = Ended
      BY <1>2, <2>1, <2>2 DEF Ended
    <2>4. properties' = properties
      BY <1>1
    <2> HIDE DEF LoginIInv, LoginTypeOK, Unlocked, Fresh
    <2>5. Service!Issue(t)
      BY <1>2, <2>1, <2>3, <2>4 DEF Service!Issue
    <2> QED
      BY <2>5 DEF Service!Next
  <1>4. CASE LoginUnsaved(t)
    <2>1. Valid' = Valid
      BY <1>1, <1>4 DEF LoginUnsaved, memoryVars, changeVars, Valid, Kept, SignedNow
    <2>2. {u \in Token : ~Fresh(u)}' = {u \in Token : ~Fresh(u)} \cup {t}
      BY <1>4 DEF LoginUnsaved
    <2>3. Ended' = Ended \cup {t}
      BY <1>2, <2>1, <2>2 DEF Ended
    <2>4. Valid' = Valid \ {t}
      BY <1>2, <2>1
    <2> HIDE DEF LoginIInv, LoginTypeOK, Unlocked, Fresh
    <2>5. {t} \in SUBSET Token
      OBVIOUS
    <2>6. Service!End({t})
      BY <1>1, <2>3, <2>4 DEF Service!End
    <2> QED
      BY <2>5, <2>6 DEF Service!Next
  <1> QED
    BY <1>3, <1>4 DEF Enter

\* A step that makes no token and keeps the settings, and after which a part of the
\* valid tokens is left, ends the others.
LEMMA EndServes ==
  ASSUME LoginIInv, signed' = signed, properties' = properties, Valid' \subseteq Valid
  PROVE  Service!Next
  <1> DEFINE S == Valid \ Valid'
  <1>1. {u \in Token : ~Fresh(u)}' = {u \in Token : ~Fresh(u)}
    BY DEF Fresh
  <1>2. Valid \subseteq {u \in Token : ~Fresh(u)}
    BY DEF LoginIInv, LoginTypeOK, Valid, Kept, SignedNow, Fresh
  <1>3. S \in SUBSET Token
    BY <1>2
  <1>4. Valid' = Valid \ S /\ Ended' = Ended \cup S
    BY <1>1, <1>2 DEF Ended
  <1> QED
    BY <1>3, <1>4 DEF Service!Next, Service!End

\* The settings change, and no token is left, in the step that commits them.
LEMMA CommitServes ==
  ASSUME LoginIInv, Commit
  PROVE  Service!Next
  <1>1. {u \in Token : ~Fresh(u)}' = {u \in Token : ~Fresh(u)}
    BY DEF Fresh, Commit
  <1>2. Valid \subseteq {u \in Token : ~Fresh(u)}
    BY DEF LoginIInv, LoginTypeOK, Valid, Kept, SignedNow, Fresh
  <1>3. Valid' = {}
    BY DEF Commit, Valid
  <1>4. Ended' = Ended \cup Valid
    BY <1>1, <1>2, <1>3 DEF Ended
  <1>5. properties' \in Policy
    BY DEF LoginIInv, LoginTypeOK, Commit
  <1> QED
    BY <1>3, <1>4, <1>5 DEF Service!Next, Service!Change

\* Every step of the store is one of the service, or none.
LEMMA LoginStep ==
  ASSUME LoginIInv, [LoginNext]_loginVars
  PROVE  [Service!Next]_<<Valid, Ended, properties>>
  <1> USE DEF LoginIInv, LoginTypeOK
  <1>1. ASSUME NEW t \in Token, Enter(t) PROVE Service!Next
    BY <1>1, EnterServes
  <1>2. ASSUME NEW t \in Token, Logout(t) PROVE Service!Next
    <2>1. Valid' \subseteq Valid
      BY <1>2 DEF Logout, Unlocked, changeVars, Valid, Kept
    <2> QED
      BY <1>2, <2>1, EndServes DEF Logout
  <1>3. ASSUME NEW p \in Policy, ChangeBegin(p) PROVE Service!Next
    <2>1. Valid' \subseteq Valid
      BY <1>3 DEF ChangeBegin, Unlocked, Valid, Kept
    <2> QED
      BY <1>3, <2>1, EndServes DEF ChangeBegin
  <1>4. CASE Commit
    BY <1>4, CommitServes
  <1>5. CASE CommitFails \/ Restore \/ RestoreFails
    <2>1. Valid' \subseteq Valid
      BY <1>5 DEF CommitFails, Restore, RestoreFails, Finish, memoryVars, Valid, Kept, Phases
    <2> QED
      BY <1>5, <2>1, EndServes DEF CommitFails, Restore, RestoreFails, Finish, diskVars
  <1>6. CASE Adopt
    <2>1. Valid' \subseteq Valid
      BY <1>6 DEF Adopt, Finish, Valid, Kept, Phases
    <2> QED
      BY <1>6, <2>1, EndServes DEF Adopt, Finish
  <1>7. CASE LoginRelaunch
    <2>1. Valid' \subseteq Valid
      BY <1>7 DEF LoginRelaunch, Finish, Valid, Kept, Phases, MemoryIsDisk, Unlocked
    <2> QED
      BY <1>7, <2>1, EndServes DEF LoginRelaunch, Finish
  <1>8. CASE UNCHANGED loginVars
    BY <1>8 DEF loginVars, memoryVars, changeVars, diskVars, Valid, Kept, Ended, Fresh
  <1> QED
    BY <1>1, <1>2, <1>3, <1>4, <1>5, <1>6, <1>7, <1>8 DEF LoginNext

\* A token that ended never opens a session again, launches included, and a change
\* of the settings ends all of them in the step that takes effect.
THEOREM StoreImplementsLogin == LoginSpec => ImplementsLogin
  <1>1. LoginInit => Service!Init
    BY DEF LoginInit, Service!Init, Valid, Kept, Ended, Fresh
  <1>2. LoginIInv /\ [LoginNext]_loginVars => [Service!Next]_<<Valid, Ended, properties>>
    BY LoginStep
  <1> QED
    BY <1>1, <1>2, LoginInvariant, PTL DEF LoginSpec, ImplementsLogin, Service!Spec
=============================================================================
