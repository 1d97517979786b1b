---------------------------- MODULE LoginSessions ----------------------------
(***************************************************************************)
(* session.Store and the file it shares with config.UpdateAgentSecurity.   *)
(* Sessions of a browser window live in memory; remembered ones are signed *)
(* with the credentials in force and listed in a file.  A change of the    *)
(* security settings writes the empty list, then agent.properties, then    *)
(* the memory, all under one lock; the program may be killed, and a write  *)
(* may fail, at each of these steps.                                       *)
(***************************************************************************)
EXTENDS Naturals, FiniteSets

CONSTANTS
  Token,          \* the tokens ever made
  Cred,           \* pairs of an account and a password
  MaxRemembered,  \* 10000 in the code
  None

ASSUME LimitsAndNames ==
  /\ MaxRemembered \in Nat \ {0}
  /\ IsFiniteSet(Token)
  /\ None \notin Cred /\ "plain" \notin Cred /\ None # "plain"

VARIABLES
  login,       \* the settings in memory: authenticationEnabled, account and password
  properties,  \* the settings in agent.properties
  signed,      \* what a token was made with; "plain" for one that lives in memory
  sessions,    \* s.sessions
  remembered,  \* s.remembered
  file,        \* the list of remembered sessions on disk
  change,      \* where UpdateSecurityWith is; anything but idle holds s.mu
  previous,    \* the list it may have to restore
  wanted       \* the settings it is about to put in force

memoryVars == <<login, sessions, remembered>>
changeVars == <<change, previous, wanted>>
diskVars == <<properties, file>>
loginVars == <<memoryVars, changeVars, diskVars, signed>>

Policy == [enabled : BOOLEAN, cred : Cred]
Phase == {"idle", "emptied", "undoing", "committed"}

LoginTypeOK ==
  /\ login \in Policy /\ properties \in Policy /\ wanted \in Policy
  /\ signed \in [Token -> Cred \cup {"plain", None}]
  /\ sessions \subseteq Token /\ remembered \subseteq Token
  /\ file \subseteq Token /\ previous \subseteq Token
  /\ change \in Phase

LoginInit ==
  /\ properties \in Policy
  /\ login = properties /\ wanted = properties
  /\ signed = [t \in Token |-> None]
  /\ sessions = {} /\ remembered = {} /\ file = {} /\ previous = {}
  /\ change = "idle"

-----------------------------------------------------------------------------
(* Login and Logout.  While authentication is off nobody needs a token and *)
(* none is made.                                                           *)

Unlocked == change = "idle"
Fresh(t) == signed[t] = None

LoginPlain(t) ==
  /\ Unlocked /\ login.enabled /\ Fresh(t)
  /\ signed' = [signed EXCEPT ![t] = "plain"]
  /\ sessions' = sessions \cup {t}
  /\ UNCHANGED <<login, remembered, changeVars, diskVars>>

\* The list is on disk before the token counts ...
LoginRemembered(t) ==
  /\ Unlocked /\ login.enabled /\ Fresh(t)
  /\ Cardinality(remembered) < MaxRemembered
  /\ signed' = [signed EXCEPT ![t] = login.cred]
  /\ remembered' = remembered \cup {t}
  /\ file' = remembered'
  /\ UNCHANGED <<login, sessions, properties, changeVars>>

\* Faulty: the token stays in the list that could not be written.
LoginUnsavedKeeping(t) ==
  /\ Unlocked /\ login.enabled /\ Fresh(t)
  /\ Cardinality(remembered) < MaxRemembered
  /\ signed' = [signed EXCEPT ![t] = login.cred]
  /\ remembered' = remembered \cup {t}
  /\ UNCHANGED <<login, sessions, diskVars, changeVars>>

\* ... and when the list cannot be written the token is dropped.
LoginUnsaved(t) ==
  /\ Unlocked /\ login.enabled /\ Fresh(t)
  /\ Cardinality(remembered) < MaxRemembered
  /\ signed' = [signed EXCEPT ![t] = login.cred]
  /\ UNCHANGED <<memoryVars, diskVars, changeVars>>

\* A logout that cannot write the list puts the token back and reports the error.
Logout(t) ==
  /\ Unlocked
  /\ t \in sessions \cup remembered
  /\ sessions' = sessions \ {t}
  /\ remembered' = remembered \ {t}
  /\ file' = IF t \in remembered THEN remembered' ELSE file
  /\ UNCHANGED <<login, signed, properties, changeVars>>

-----------------------------------------------------------------------------
(* UpdateSecurityWith.                                                     *)

\* Faulty: the remembered sessions are left to the new signature to refuse.
ChangeBeginKeeping(p) ==
  /\ Unlocked
  /\ change' = "emptied"
  /\ wanted' = p
  /\ previous' = remembered
  /\ remembered' = {}
  /\ UNCHANGED <<login, sessions, file, properties, signed>>

\* The empty list is on disk; when it cannot be written nothing has changed.
ChangeBegin(p) ==
  /\ Unlocked
  /\ change' = "emptied"
  /\ wanted' = p
  /\ previous' = remembered
  /\ remembered' = {} /\ file' = {}
  /\ UNCHANGED <<login, sessions, properties, signed>>

\* UpdateAgentSecurity renamed the new agent.properties into its place.
Commit ==
  /\ change = "emptied"
  /\ change' = "committed"
  /\ properties' = wanted
  /\ UNCHANGED <<memoryVars, file, signed, previous, wanted>>

CommitFails ==
  /\ change = "emptied"
  /\ change' = "undoing"
  /\ UNCHANGED <<memoryVars, diskVars, signed, previous, wanted>>

Finish ==
  /\ change' = "idle"
  /\ previous' = {} /\ wanted' = properties
  /\ UNCHANGED <<properties, signed>>

Restore ==
  /\ change = "undoing"
  /\ remembered' = previous /\ file' = previous
  /\ UNCHANGED <<login, sessions>>
  /\ Finish

\* Not even the old list can be written: everybody has to log in again.
RestoreFails ==
  /\ change = "undoing"
  /\ sessions' = {}
  /\ UNCHANGED <<login, remembered, file>>
  /\ Finish

\* Memory follows what was committed.
Adopt ==
  /\ change = "committed"
  /\ login' = wanted
  /\ sessions' = {}
  /\ UNCHANGED <<remembered, file>>
  /\ Finish

\* The program ends anywhere, and NewPersistentStore reads what it left.
LoginRelaunch ==
  /\ login' = properties
  /\ sessions' = {}
  /\ remembered' = file
  /\ UNCHANGED file
  /\ Finish

Enter(t) == LoginPlain(t) \/ LoginRemembered(t) \/ LoginUnsaved(t)

LoginNext ==
  \/ \E t \in Token : Enter(t) \/ Logout(t)
  \/ \E p \in Policy : ChangeBegin(p)
  \/ Commit \/ CommitFails \/ Restore \/ RestoreFails \/ Adopt
  \/ LoginRelaunch

LoginSpec == LoginInit /\ [][LoginNext]_loginVars

-----------------------------------------------------------------------------
(* Properties.                                                             *)

\* Whenever the lock is free, memory and disk hold the same settings and the same
\* remembered sessions: no failed write or kill makes a later launch differ.
MemoryIsDisk == Unlocked => login = properties /\ remembered = file

\* The store implements the abstract service.  A change takes effect when its
\* agent.properties is in place; until then its old list may come back.  Valid are
\* the tokens that Authenticated accepts as soon as it gets the lock.
Kept == IF change \in {"emptied", "undoing"} THEN previous ELSE remembered
Valid ==
  IF change = "committed" THEN {}
  ELSE sessions \cup {t \in Kept : signed[t] = login.cred}
Ended == {t \in Token : ~Fresh(t)} \ Valid

Service == INSTANCE LoginService WITH
  valid <- Valid, ended <- Ended, policy <- properties
ImplementsLogin == Service!Spec

-----------------------------------------------------------------------------
(* The inductive invariant behind them.                                    *)

\* Every remembered session was signed with the credentials in force.
SignedNow ==
  /\ \A t \in remembered \cup previous : signed[t] = login.cred
  /\ \A t \in file : signed[t] = properties.cred
  /\ \A t \in sessions : signed[t] = "plain"

\* What holds at each step of a change.
Phases ==
  /\ change \in {"emptied", "undoing"} => login = properties /\ remembered = {} /\ file = {}
  /\ change = "committed" => remembered = {} /\ file = {} /\ properties = wanted
  /\ change = "idle" => previous = {}

LoginIInv == LoginTypeOK /\ MemoryIsDisk /\ SignedNow /\ Phases
=============================================================================
