--------------------------- MODULE FastGGUFProofs ---------------------------
(***************************************************************************)
(* Proofs about FastGGUF.  At most one mlx-server prepares a model at a    *)
(* time and none during a deletion, so that the package a step finds is    *)
(* the one that the step before left; what a removal relies on follows     *)
(* from what the process it acts for has loaded.                           *)
(***************************************************************************)
EXTENDS FastGGUF, TLAPS

Window == {"identity", "package", "remove"}

\* One mlx-server prepares; while a deletion is on, none does and none runs.
OneAtATime ==
  /\ \A r \in Runtime : run[r].pc = "unused" => monitor[r].pc = "off" /\ cmd # r
  /\ \A r, s \in Runtime :
       run[r].pc \in Preparing /\ run[s].pc \in Preparing => r = s
  /\ cmd # None => \A r \in Runtime \ {cmd} : run[r].pc \notin Preparing
  /\ ~Unlocked => cmd = None /\ \A r \in Runtime : run[r].pc \notin Preparing

\* What a process has in hand at each of its steps.
ProcessOf(r) ==
  /\ run[r].pc \in Preparing \ {"planning", "bare"} => run[r].key \in Version
  /\ run[r].pc = "planning" => run[r].key = None
  /\ run[r].pc \in {"unused", "planning", "checking", "upgrading"} => ~run[r].standalone
  /\ run[r].pc \in Preparing \cup {"unused"} => ~run[r].mapped /\ ~run[r].line
  /\ run[r].line => run[r].mapped
  /\ run[r].mapped => run[r].key \in Version

\* What it knows of its package.
StepOf(r) ==
  /\ At(r, "loading") /\ run[r].standalone => Standalone(Own(r))
  /\ At(r, "upgrading") => Contains(Own(r)) /\ Own(r).assets
  /\ run[r].pc \in {"dropping shards", "dropping assets"} => Own(r).manifest # 0
  /\ At(r, "dropping assets") => Own(r).manifest = 4
  /\ run[r].pc \in {"dropping assets", "dropping manifest"} => ~Own(r).shards
  /\ run[r].pc \in {"moving shards", "moving assets", "publishing"} =>
       Own(r).manifest = 0
  /\ run[r].pc \in {"moving assets", "publishing"} => Own(r).shards
  /\ At(r, "publishing") => Own(r).assets

ProcessShape == \A r \in Runtime : ProcessOf(r) /\ StepOf(r)

\* A package that lost its assets lost its shards before.
PackageShape ==
  /\ \A v \in Version : pkg[v].manifest = 4 /\ pkg[v].shards => pkg[v].assets
  /\ ~Unlocked /\ deleter.part # "shards" => ~pkg[deleter.of].shards

\* What the running mlx-server has mapped is there.
MappedShape ==
  \A r \in Runtime : cmd = r /\ run[r].mapped => Contains(pkg[run[r].key])

\* What a removal stands on, from the start of its mlx-server on.
RemovalShape ==
  /\ cmd = None => pending = None
  /\ pending # None => pending.of \in used
  /\ \A r \in Runtime :
       /\ cmd = r /\ pending # None /\ source = pending.of /\ run[r].key # None =>
            run[r].key = pending.of
       /\ cmd = r /\ pending # None /\ pending.loaded => run[r].mapped
       /\ monitor[r].pc \in Window => run[r].mapped /\ monitor[r].of \in used
       /\ monitor[r].pc = "identity" /\ source = monitor[r].of =>
            run[r].key = monitor[r].of

\* Packages of schema 3 are older than this program's downloads.
LegacyIsOld ==
  /\ \A v \in Version : pkg[v].manifest # 0 => v \in used
  /\ pkg[latest].manifest = 3 => used = {latest}
  /\ \A r \in Runtime : run[r].key \in used \cup {None}
  /\ latest \in used
  /\ source \in {latest, None}

\* Without requests in between, a removal finds what it checked.
Undisturbed ==
  Prompt =>
    /\ \A r \in Runtime : monitor[r].pc \in Window =>
         /\ Unlocked
         /\ \A s \in Runtime : run[s].pc \notin Preparing
         /\ Contains(pkg[run[r].key])
    /\ \A r \in Runtime : monitor[r].pc \in {"package", "remove"} =>
         source \in {monitor[r].of, None}
    /\ \A r \in Runtime : monitor[r].pc = "remove" =>
         source = None \/ Standalone(pkg[source])
    /\ ~Unlocked => source # None
    /\ source = None /\ ~discarded =>
         \A r \in Runtime : run[r].pc \in Preparing => run[r].pc = "standalone"
    /\ LatestSurvives

IInv ==
  /\ TypeOK
  /\ OneAtATime
  /\ ProcessShape
  /\ PackageShape
  /\ MappedShape
  /\ RemovalShape
  /\ OnlyLoadedIsRemoved
  /\ LegacyIsOld
  /\ Undisturbed

-----------------------------------------------------------------------------
(* What does not change stays                                              *)

\* What the processes know of their packages depends on nothing else.
LEMMA ProcessFrame ==
  ASSUME ProcessShape, UNCHANGED <<run, pkg>>
  PROVE  ProcessShape'
  <1> SUFFICES ASSUME NEW r \in Runtime PROVE (ProcessOf(r) /\ StepOf(r))'
    BY DEF ProcessShape
  <1>1. ProcessOf(r) /\ StepOf(r)
    BY DEF ProcessShape
  <1>2. ProcessOf(r)'
    BY <1>1 DEF ProcessOf
  <1>3. StepOf(r)'
    BY <1>1 DEF StepOf, At, Own
  <1> QED
    BY <1>2, <1>3

\* No other mlx-server comes to prepare by a step that starts none.
LEMMA OneAtATimeFrame ==
  ASSUME OneAtATime, UNCHANGED <<cmd, monitor, deleter>>,
         \A s \in Runtime : /\ run'[s].pc = "unused" => run[s].pc = "unused"
                            /\ run'[s].pc \in Preparing => run[s].pc \in Preparing
  PROVE  OneAtATime'
  <1>1. \A s \in Runtime : run'[s].pc = "unused" => monitor'[s].pc = "off" /\ cmd' # s
    BY DEF OneAtATime
  <1>2. \A s, t \in Runtime :
          run'[s].pc \in Preparing /\ run'[t].pc \in Preparing => s = t
    BY DEF OneAtATime
  <1>3. cmd' # None => \A s \in Runtime \ {cmd'} : run'[s].pc \notin Preparing
    BY DEF OneAtATime
  <1>4. ~Unlocked' => cmd' = None /\ \A s \in Runtime : run'[s].pc \notin Preparing
    BY DEF OneAtATime, Unlocked
  <1> QED
    BY <1>1, <1>2, <1>3, <1>4 DEF OneAtATime

\* Where only monitors move, their windows decide.
LEMMA UndisturbedFrame ==
  ASSUME Undisturbed,
         UNCHANGED <<source, pkg, run, deleter, latest, discarded>>,
         Prompt => \A r \in Runtime : monitor'[r].pc \in Window =>
           /\ Unlocked
           /\ \A s \in Runtime : run[s].pc \notin Preparing
           /\ Contains(pkg[run[r].key]),
         Prompt => \A r \in Runtime : monitor'[r].pc \in {"package", "remove"} =>
           source \in {monitor'[r].of, None},
         Prompt => \A r \in Runtime : monitor'[r].pc = "remove" =>
           source = None \/ Standalone(pkg[source])
  PROVE  Undisturbed'
  <1> SUFFICES ASSUME Prompt PROVE Undisturbed'
    BY DEF Undisturbed
  <1>1. /\ ~Unlocked => source # None
        /\ source = None /\ ~discarded =>
             \A r \in Runtime : run[r].pc \in Preparing => run[r].pc = "standalone"
        /\ LatestSurvives
    BY DEF Undisturbed
  <1>2. LatestSurvives'
    BY <1>1 DEF LatestSurvives, Standalone
  <1> QED
    BY <1>1, <1>2 DEF Undisturbed, Unlocked, Contains, Standalone

-----------------------------------------------------------------------------
(* Steps of mlx-server                                                     *)

Writing == {"checking", "upgrading", "dropping shards", "dropping assets",
            "dropping manifest", "moving shards", "moving assets", "publishing"}

\* What every step of a process has in common.
Advance(r) ==
  /\ UNCHANGED <<source, program, history>>
  /\ run[r].pc \in Preparing \cup Loaded
  /\ run' \in [Runtime -> Process]
  /\ \A s \in Runtime \ {r} : run'[s] = run[s]
  /\ pkg' \in [Version -> Package]
  /\ \A v \in Version : pkg'[v] # pkg[v] => run[r].pc \in Writing /\ v = run[r].key
  /\ run'[r].pc \in Preparing => run[r].pc \in Preparing \ {"standalone"}
  /\ run'[r].pc \in Preparing => run[r].pc # "planning" \/ source # None
  /\ run'[r].pc \notin {"unused", "planning"}
  /\ run'[r].key = run[r].key \/ (run[r].pc = "planning" /\ run'[r].key = source)
  /\ run[r].mapped => run'[r].mapped
  /\ run'[r].mapped => run[r].mapped \/ Contains(pkg'[run'[r].key])
  /\ ProcessOf(r)'
  /\ StepOf(r)'
  /\ \A v \in Version : pkg'[v].manifest = 4 /\ pkg'[v].shards => pkg'[v].assets
  /\ \A v \in Version : pkg'[v].manifest = 3 => pkg[v].manifest = 3
  /\ \A v \in Version :
       pkg[v].manifest # 4 /\ pkg'[v].manifest = 4 => Standalone(pkg'[v])

USE PromptIsBoolean, NoneIsNew
USE DEF program, history, Preparing, Loaded, Contains, Standalone, Unlocked,
        At, Own, Window

\* A step of one process keeps the invariant.
LEMMA AdvanceIInv ==
  ASSUME IInv, NEW r \in Runtime, Advance(r)
  PROVE  IInv'
  <1> USE DEF IInv, Advance
  <1>1. TypeOK'
    BY DEF TypeOK
  <1>2. OneAtATime'
    <2>1. OneAtATime /\ UNCHANGED <<cmd, monitor, deleter>>
      OBVIOUS
    <2>2. \A s \in Runtime : /\ run'[s].pc = "unused" => run[s].pc = "unused"
                            /\ run'[s].pc \in Preparing => run[s].pc \in Preparing
      <3>1. /\ run'[r].pc # "unused"
            /\ run'[r].pc \in Preparing => run[r].pc \in Preparing
            /\ \A s \in Runtime \ {r} : run'[s] = run[s]
        OBVIOUS
      <3> HIDE DEF IInv, Advance, Preparing, Loaded
      <3> QED
        BY <3>1
    <2> QED
      BY <2>1, <2>2, OneAtATimeFrame
  <1>3. ProcessShape'
    <2> SUFFICES ASSUME NEW s \in Runtime PROVE (ProcessOf(s) /\ StepOf(s))'
      BY DEF ProcessShape
    <2>1. CASE s = r
      BY <2>1
    <2>2. CASE s # r
      <3>1. run'[s] = run[s] /\ ProcessOf(s) /\ StepOf(s)
        BY <2>2 DEF ProcessShape
      <3>2. ProcessOf(s)'
        BY <3>1 DEF ProcessOf
      <3>3. run[s].pc \in Preparing \ {"planning", "bare"} =>
              pkg'[run[s].key] = pkg[run[s].key]
        BY <2>2, <3>1 DEF OneAtATime, Writing, ProcessOf
      <3> HIDE DEF IInv, Advance
      <3>4. StepOf(s)'
        BY <3>1, <3>3 DEF StepOf
      <3> QED
        BY <3>2, <3>4
    <2> QED
      BY <2>1, <2>2
  <1>a. run[r].mapped \/ run[r].pc \notin Writing => \A v \in Version : pkg'[v] = pkg[v]
    BY DEF ProcessShape, ProcessOf, Writing
  <1>b. \A s \in Runtime : run[s].key \in Version \cup {None} /\ run'[s].key \in Version \cup {None}
    BY <1>1 DEF TypeOK, Process
  <1>4. PackageShape'
    <2>1. ~Unlocked => deleter.of \in Version /\ run[r].pc \notin Writing
      BY DEF TypeOK, Deletion, OneAtATime, Writing
    <2> QED
      BY <2>1, <1>a DEF PackageShape
  <1>5. MappedShape'
    <2> SUFFICES ASSUME NEW s \in Runtime, cmd = s, run'[s].mapped
                 PROVE  Contains(pkg[run[s].key])'
      BY DEF MappedShape
    <2>1. CASE s = r
      <3>1. CASE run[r].mapped
        <4>1. run[r].key \in Version /\ run'[r].key = run[r].key /\ cmd = r
          BY <2>1, <3>1 DEF ProcessShape, ProcessOf
        <4>2. pkg'[run[r].key] = pkg[run[r].key] /\ Contains(pkg[run[r].key])
          BY <3>1, <4>1, <1>a DEF MappedShape
        <4> QED
          BY <2>1, <4>1, <4>2
      <3>2. CASE ~run[r].mapped
        BY <2>1, <3>2
      <3> QED
        BY <3>1, <3>2
    <2>2. CASE s # r
      <3>1. run[r].pc \notin Writing
        BY <2>2 DEF OneAtATime, Writing
      <3>2. run'[s] = run[s] /\ run[s].key \in Version
        BY <2>2 DEF ProcessShape, ProcessOf
      <3>3. pkg'[run[s].key] = pkg[run[s].key] /\ Contains(pkg[run[s].key])
        BY <3>1, <3>2, <1>a DEF MappedShape
      <3> QED
        BY <3>2, <3>3
    <2> QED
      BY <2>1, <2>2
  <1>6. RemovalShape'
    <2>1. \A s \in Runtime : run[s].mapped => run'[s].mapped /\ run'[s].key = run[s].key
      BY DEF ProcessShape, ProcessOf
    <2>2. \A s \in Runtime : run'[s].key # run[s].key => run'[s].key = source /\ ~run[s].mapped
      BY DEF ProcessShape, ProcessOf
    <2>3. RemovalShape /\ UNCHANGED <<source, cmd, pending, monitor, used>>
      OBVIOUS
    <2> HIDE DEF IInv, Advance
    <2> QED
      BY <2>1, <2>2, <2>3 DEF RemovalShape
  <1>7. OnlyLoadedIsRemoved'
    <2>1. \A s \in Runtime : run[s].mapped => run'[s].mapped /\ run'[s].key = run[s].key
      BY DEF ProcessShape, ProcessOf
    <2>2. OnlyLoadedIsRemoved /\ UNCHANGED monitor
      OBVIOUS
    <2> QED
      BY <2>1, <2>2 DEF OnlyLoadedIsRemoved
  <1>8. LegacyIsOld'
    <2>1. \A v \in Version : pkg'[v].manifest # 0 => v \in used
      BY <1>b DEF LegacyIsOld
    <2>2. \A s \in Runtime : run'[s].key \in used \cup {None}
      BY DEF LegacyIsOld
    <2>3. latest \in Version
      BY DEF TypeOK
    <2> QED
      BY <2>1, <2>2, <2>3 DEF LegacyIsOld
  <1>9. Undisturbed'
    <2> SUFFICES ASSUME Prompt PROVE Undisturbed'
      BY DEF Undisturbed
    <2>1. \A s \in Runtime : monitor[s].pc \in Window =>
            /\ run[s].mapped /\ run'[s].key = run[s].key /\ run[s].key \in Version
            /\ run[r].pc \notin Preparing
      BY DEF Undisturbed, RemovalShape, ProcessShape, ProcessOf
    <2>2. \A s \in Runtime : monitor[s].pc \in Window =>
            /\ Unlocked
            /\ \A t \in Runtime : run'[t].pc \notin Preparing
            /\ Contains(pkg'[run'[s].key])
      <3> SUFFICES ASSUME NEW s \in Runtime, monitor[s].pc \in Window
                   PROVE  /\ Unlocked
                          /\ \A t \in Runtime : run'[t].pc \notin Preparing
                          /\ Contains(pkg'[run'[s].key])
        OBVIOUS
      <3>1. Unlocked /\ \A t \in Runtime : run[t].pc \notin Preparing
        BY DEF Undisturbed
      <3>2. \A t \in Runtime : run'[t].pc \notin Preparing
        BY <3>1
      <3>3. Contains(pkg[run[s].key])
        BY DEF Undisturbed
      <3>4. pkg'[run[s].key] = pkg[run[s].key]
        BY <2>1, <3>1, <1>a DEF Writing
      <3> QED
        BY <2>1, <3>1, <3>2, <3>3, <3>4
    <2>3. \A s \in Runtime : monitor[s].pc = "remove" =>
            source = None \/ Standalone(pkg'[source])
      BY <2>1, <1>a DEF Undisturbed, Writing, TypeOK
    <2>4. source = None /\ ~discarded =>
            /\ run[r].pc \notin Writing
            /\ \A s \in Runtime : run'[s].pc \in Preparing => run'[s].pc = "standalone"
      BY DEF Undisturbed, Writing
    <2>5. LatestSurvives'
      BY <2>4, <1>a DEF Undisturbed, LatestSurvives, LegacyIsOld, TypeOK
    <2> QED
      BY <2>2, <2>3, <2>4, <2>5 DEF Undisturbed
  <1> QED
    BY <1>1, <1>2, <1>3, <1>4, <1>5, <1>6, <1>7, <1>8, <1>9

\* What a step of one process does to run.
LEMMA StepFacts ==
  ASSUME TypeOK, NEW r \in Runtime, NEW process \in Process, Step(r, process)
  PROVE  /\ run' \in [Runtime -> Process]
         /\ run'[r] = process
         /\ \A s \in Runtime \ {r} : run'[s] = run[s]
         /\ UNCHANGED <<source, program, history>>
  BY DEF TypeOK, Step

\* What a move of one process changes and what it leaves.
LEMMA GotoFacts ==
  ASSUME TypeOK, NEW r \in Runtime,
         NEW label \in {"unused", "ended"} \cup Preparing \cup Loaded, Goto(r, label)
  PROVE  /\ run' \in [Runtime -> Process]
         /\ run'[r].pc = label /\ run'[r].key = run[r].key
         /\ run'[r].standalone = run[r].standalone
         /\ run'[r].line = run[r].line /\ run'[r].mapped = run[r].mapped
         /\ \A s \in Runtime \ {r} : run'[s] = run[s]
         /\ UNCHANGED <<source, program, history>>
  <1>0. run[r] \in Process
    BY DEF TypeOK
  <1>1. [run[r] EXCEPT !.pc = label] \in Process
    BY <1>0 DEF Process
  <1>2. /\ run' \in [Runtime -> Process]
        /\ run'[r] = [run[r] EXCEPT !.pc = label]
        /\ \A s \in Runtime \ {r} : run'[s] = run[s]
        /\ UNCHANGED <<source, program, history>>
    BY <1>1, StepFacts DEF Goto
  <1> QED
    BY <1>0, <1>2 DEF Process

\* What the end of loading changes and what it leaves.
LEMMA FinishFacts ==
  ASSUME TypeOK, NEW r \in Runtime, NEW mapped \in BOOLEAN, NEW line \in BOOLEAN,
         Finish(r, mapped, line)
  PROVE  /\ run' \in [Runtime -> Process]
         /\ run'[r].pc = "loaded" /\ run'[r].key = run[r].key
         /\ run'[r].line = line /\ run'[r].mapped = mapped
         /\ \A s \in Runtime \ {r} : run'[s] = run[s]
         /\ UNCHANGED <<source, program, history>>
  <1> DEFINE process == [run[r] EXCEPT !.pc = "loaded", !.standalone = FALSE,
                                       !.mapped = mapped, !.line = line]
  <1>0. run[r] \in Process
    BY DEF TypeOK
  <1>1. process \in Process
    BY <1>0 DEF Process
  <1>2. /\ run' \in [Runtime -> Process]
        /\ run'[r] = process
        /\ \A s \in Runtime \ {r} : run'[s] = run[s]
        /\ UNCHANGED <<source, program, history>>
    BY <1>1, StepFacts DEF Finish
  <1> QED
    BY <1>0, <1>2 DEF Process

\* What a file operation of mlx-server does to pkg.
LEMMA WriteFacts ==
  ASSUME TypeOK, NEW r \in Runtime, run[r].key \in Version,
         NEW package \in Package, Write(r, package)
  PROVE  /\ pkg' \in [Version -> Package]
         /\ pkg'[run[r].key] = package
         /\ \A v \in Version \ {run[r].key} : pkg'[v] = pkg[v]
  BY DEF TypeOK, Write

\* The key of the package is computed, or there is no plan.
LEMMA PlanAdvances ==
  ASSUME IInv, NEW r \in Runtime, Plan(r)
  PROVE  Advance(r)
  <1>0. TypeOK /\ ProcessOf(r) /\ StepOf(r) /\ run[r] \in Process
    BY DEF IInv, ProcessShape, TypeOK
  <1>b. run[r].standalone \in BOOLEAN
    BY <1>0 DEF Process
  <1>p. pkg \in [Version -> Package]
    BY <1>0 DEF TypeOK
  <1>s. \A v \in Version : pkg[v].manifest = 4 /\ pkg[v].shards => pkg[v].assets
    BY DEF IInv, PackageShape
  <1>9. Advance(r)
    <2>1. CASE Step(r, [run[r] EXCEPT !.pc = "checking", !.key = source])
      <3> DEFINE process == [run[r] EXCEPT !.pc = "checking", !.key = source]
      <3>1. source \in Version
        BY <1>0 DEF Plan, TypeOK
      <3>2. process \in Process
        BY <1>0, <3>1 DEF Process
      <3>3. /\ run' \in [Runtime -> Process]
            /\ run'[r] = process
            /\ \A s \in Runtime \ {r} : run'[s] = run[s]
            /\ UNCHANGED <<source, program, history>>
        BY <1>0, <2>1, <3>2, StepFacts
      <3>4. /\ run'[r].pc = "checking" /\ run'[r].key = source
            /\ run'[r].line = run[r].line /\ run'[r].mapped = run[r].mapped
            /\ run'[r].standalone = run[r].standalone
        BY <1>0, <3>3 DEF Process
      <3> HIDE DEF process
      <3>5. ProcessOf(r)'
        BY <1>0, <2>1, <3>1, <3>3, <3>4 DEF Plan, ProcessOf
      <3>6. StepOf(r)'
        BY <1>0, <1>p, <2>1, <3>1, <3>3, <3>4 DEF Plan, StepOf, ProcessOf
      <3> QED
        BY <1>0, <1>p, <1>s, <2>1, <3>1, <3>3, <3>4, <3>5, <3>6 DEF Plan, Advance, ProcessOf, Writing
    <2>2. CASE Goto(r, "bare")
      <3>1. /\ run' \in [Runtime -> Process]
            /\ run'[r].pc = "bare" /\ run'[r].key = run[r].key
            /\ run'[r].standalone = run[r].standalone
            /\ run'[r].line = run[r].line /\ run'[r].mapped = run[r].mapped
            /\ \A s \in Runtime \ {r} : run'[s] = run[s]
            /\ UNCHANGED <<source, program, history>>
        BY <1>0, <1>b, <2>2, GotoFacts DEF Plan
      <3>2. ProcessOf(r)'
        BY <1>0, <2>2, <3>1 DEF Plan, ProcessOf
      <3>3. StepOf(r)'
        BY <1>0, <1>p, <2>2, <3>1 DEF Plan, StepOf, ProcessOf
      <3> QED
        BY <1>0, <1>p, <1>s, <2>2, <3>1, <3>2, <3>3 DEF Plan, Advance, ProcessOf, Writing
    <2> QED
      BY <2>1, <2>2 DEF Plan
  <1> QED
    BY <1>9

\* The assets are complete, or are written, or cannot be.
LEMMA EnsureAdvances ==
  ASSUME IInv, NEW r \in Runtime, Ensure(r)
  PROVE  Advance(r)
  <1>0. TypeOK /\ ProcessOf(r) /\ StepOf(r) /\ run[r] \in Process
    BY DEF IInv, ProcessShape, TypeOK
  <1>b. run[r].standalone \in BOOLEAN
    BY <1>0 DEF Process
  <1>p. pkg \in [Version -> Package]
    BY <1>0 DEF TypeOK
  <1>s. \A v \in Version : pkg[v].manifest = 4 /\ pkg[v].shards => pkg[v].assets
    BY DEF IInv, PackageShape
  <1>9. Advance(r)
    <2>1. CASE /\ Contains(Own(r)) /\ Standalone(Own(r)) /\ UNCHANGED pkg
               /\ Step(r, [run[r] EXCEPT !.pc = "loading", !.standalone = TRUE])
      <3>1. /\ run' \in [Runtime -> Process]
            /\ run'[r].pc = "loading" /\ run'[r].key = run[r].key /\ run'[r].standalone
            /\ run'[r].line = run[r].line /\ run'[r].mapped = run[r].mapped
            /\ \A s \in Runtime \ {r} : run'[s] = run[s]
            /\ UNCHANGED <<source, program, history>>
        <4> DEFINE process == [run[r] EXCEPT !.pc = "loading", !.standalone = TRUE]
        <4>1. process \in Process
          BY <1>0 DEF Process
        <4>2. /\ run' \in [Runtime -> Process]
              /\ run'[r] = process
              /\ \A s \in Runtime \ {r} : run'[s] = run[s]
              /\ UNCHANGED <<source, program, history>>
          BY <1>0, <2>1, <4>1, StepFacts
        <4> QED
          BY <1>0, <4>2 DEF Process
      <3>2. ProcessOf(r)'
        BY <1>0, <2>1, <3>1 DEF Ensure, ProcessOf
      <3>3. StepOf(r)'
        BY <1>0, <1>p, <2>1, <3>1 DEF Ensure, StepOf, ProcessOf
      <3> QED
        BY <1>0, <1>p, <1>s, <2>1, <3>1, <3>2, <3>3 DEF Ensure, Advance, ProcessOf, Writing
    <2>2. CASE /\ Contains(Own(r)) /\ Write(r, [Own(r) EXCEPT !.assets = TRUE])
               /\ Goto(r, "upgrading")
      <3>0. run[r].key \in Version /\ Own(r) \in Package
        BY <1>0, <1>p, <2>2 DEF Ensure, ProcessOf
      <3>1. [Own(r) EXCEPT !.assets = TRUE] \in Package
        BY <3>0 DEF Package
      <3>2. /\ pkg' \in [Version -> Package]
            /\ pkg'[run[r].key] = [Own(r) EXCEPT !.assets = TRUE]
            /\ \A v \in Version \ {run[r].key} : pkg'[v] = pkg[v]
        BY <1>0, <2>2, <3>0, <3>1, WriteFacts DEF Ensure
      <3>3. /\ pkg'[run[r].key].shards = Own(r).shards
            /\ pkg'[run[r].key].assets = TRUE
            /\ pkg'[run[r].key].manifest = Own(r).manifest
        BY <3>0, <3>2 DEF Package
      <3>r. pkg' \in [Version -> Package] /\ \A v \in Version \ {run[r].key} : pkg'[v] = pkg[v]
        BY <3>2
      <3>4. /\ run' \in [Runtime -> Process]
            /\ run'[r].pc = "upgrading" /\ run'[r].key = run[r].key
            /\ run'[r].standalone = run[r].standalone
            /\ run'[r].line = run[r].line /\ run'[r].mapped = run[r].mapped
            /\ \A s \in Runtime \ {r} : run'[s] = run[s]
            /\ UNCHANGED <<source, program, history>>
        BY <1>0, <1>b, <2>2, GotoFacts DEF Ensure
      <3>5. ProcessOf(r)'
        BY <1>0, <2>2, <3>r, <3>3, <3>4 DEF Ensure, ProcessOf
      <3>6. StepOf(r)'
        BY <1>0, <1>p, <2>2, <3>r, <3>3, <3>4 DEF Ensure, StepOf, ProcessOf
      <3>7. run[r].pc \in Writing /\ ~run[r].mapped
        BY <1>0, <2>2 DEF Ensure, Writing, ProcessOf
      <3>8. \A v \in Version : pkg'[v].manifest = 4 /\ pkg'[v].shards => pkg'[v].assets
        BY <1>0, <1>s, <2>2, <3>0, <3>r, <3>3 DEF Ensure, StepOf
      <3>9. \A v \in Version : pkg'[v].manifest = 3 => pkg[v].manifest = 3
        BY <3>0, <3>r, <3>3
      <3>10. \A v \in Version :
             pkg[v].manifest # 4 /\ pkg'[v].manifest = 4 => Standalone(pkg'[v])
        BY <1>0, <2>2, <3>0, <3>r, <3>3 DEF Ensure, StepOf
      <3> QED
        BY <1>0, <2>2, <3>r, <3>3, <3>4, <3>5, <3>6, <3>7, <3>8, <3>9, <3>10 DEF Ensure, Advance
    <2>3. CASE Goto(r, "loading") /\ UNCHANGED pkg
      <3>1. /\ run' \in [Runtime -> Process]
            /\ run'[r].pc = "loading" /\ run'[r].key = run[r].key
            /\ run'[r].standalone = run[r].standalone
            /\ run'[r].line = run[r].line /\ run'[r].mapped = run[r].mapped
            /\ \A s \in Runtime \ {r} : run'[s] = run[s]
            /\ UNCHANGED <<source, program, history>>
        BY <1>0, <1>b, <2>3, GotoFacts DEF Ensure
      <3>2. ProcessOf(r)'
        BY <1>0, <2>3, <3>1 DEF Ensure, ProcessOf
      <3>3. StepOf(r)'
        BY <1>0, <1>p, <2>3, <3>1 DEF Ensure, StepOf, ProcessOf
      <3> QED
        BY <1>0, <1>p, <1>s, <2>3, <3>1, <3>2, <3>3 DEF Ensure, Advance, ProcessOf, Writing
    <2> QED
      BY <2>1, <2>2, <2>3 DEF Ensure
  <1> QED
    BY <1>9

\* The manifest of an older package is replaced, or cannot be.
LEMMA UpgradeAdvances ==
  ASSUME IInv, NEW r \in Runtime, Upgrade(r)
  PROVE  Advance(r)
  <1>0. TypeOK /\ ProcessOf(r) /\ StepOf(r) /\ run[r] \in Process
    BY DEF IInv, ProcessShape, TypeOK
  <1>b. run[r].standalone \in BOOLEAN
    BY <1>0 DEF Process
  <1>p. pkg \in [Version -> Package]
    BY <1>0 DEF TypeOK
  <1>s. \A v \in Version : pkg[v].manifest = 4 /\ pkg[v].shards => pkg[v].assets
    BY DEF IInv, PackageShape
  <1>9. Advance(r)
    <2>1. CASE /\ Write(r, [Own(r) EXCEPT !.manifest = 4])
               /\ Step(r, [run[r] EXCEPT !.pc = "loading", !.standalone = TRUE])
      <3>0. run[r].key \in Version /\ Own(r) \in Package
        BY <1>0, <1>p, <2>1 DEF Upgrade, ProcessOf
      <3>1. [Own(r) EXCEPT !.manifest = 4] \in Package
        BY <3>0 DEF Package
      <3>2. /\ pkg' \in [Version -> Package]
            /\ pkg'[run[r].key] = [Own(r) EXCEPT !.manifest = 4]
            /\ \A v \in Version \ {run[r].key} : pkg'[v] = pkg[v]
        BY <1>0, <2>1, <3>0, <3>1, WriteFacts DEF Upgrade
      <3>3. /\ pkg'[run[r].key].shards = Own(r).shards
            /\ pkg'[run[r].key].assets = Own(r).assets
            /\ pkg'[run[r].key].manifest = 4
        BY <3>0, <3>2 DEF Package
      <3>r. pkg' \in [Version -> Package] /\ \A v \in Version \ {run[r].key} : pkg'[v] = pkg[v]
        BY <3>2
      <3>4. /\ run' \in [Runtime -> Process]
            /\ run'[r].pc = "loading" /\ run'[r].key = run[r].key /\ run'[r].standalone
            /\ run'[r].line = run[r].line /\ run'[r].mapped = run[r].mapped
            /\ \A s \in Runtime \ {r} : run'[s] = run[s]
            /\ UNCHANGED <<source, program, history>>
        <4> DEFINE process == [run[r] EXCEPT !.pc = "loading", !.standalone = TRUE]
        <4>1. process \in Process
          BY <1>0 DEF Process
        <4>2. /\ run' \in [Runtime -> Process]
              /\ run'[r] = process
              /\ \A s \in Runtime \ {r} : run'[s] = run[s]
              /\ UNCHANGED <<source, program, history>>
          BY <1>0, <2>1, <4>1, StepFacts
        <4> QED
          BY <1>0, <4>2 DEF Process
      <3>5. ProcessOf(r)'
        BY <1>0, <2>1, <3>r, <3>3, <3>4 DEF Upgrade, ProcessOf
      <3>6. StepOf(r)'
        BY <1>0, <1>p, <2>1, <3>r, <3>3, <3>4 DEF Upgrade, StepOf, ProcessOf
      <3>7. run[r].pc \in Writing /\ ~run[r].mapped
        BY <1>0, <2>1 DEF Upgrade, Writing, ProcessOf
      <3>8. \A v \in Version : pkg'[v].manifest = 4 /\ pkg'[v].shards => pkg'[v].assets
        BY <1>0, <1>s, <2>1, <3>0, <3>r, <3>3 DEF Upgrade, StepOf
      <3>9. \A v \in Version : pkg'[v].manifest = 3 => pkg[v].manifest = 3
        BY <3>0, <3>r, <3>3
      <3>10. \A v \in Version :
             pkg[v].manifest # 4 /\ pkg'[v].manifest = 4 => Standalone(pkg'[v])
        BY <1>0, <2>1, <3>0, <3>r, <3>3 DEF Upgrade, StepOf
      <3> QED
        BY <1>0, <2>1, <3>r, <3>3, <3>4, <3>5, <3>6, <3>7, <3>8, <3>9, <3>10 DEF Upgrade, Advance
    <2>2. CASE Goto(r, "loading") /\ UNCHANGED pkg
      <3>1. /\ run' \in [Runtime -> Process]
            /\ run'[r].pc = "loading" /\ run'[r].key = run[r].key
            /\ run'[r].standalone = run[r].standalone
            /\ run'[r].line = run[r].line /\ run'[r].mapped = run[r].mapped
            /\ \A s \in Runtime \ {r} : run'[s] = run[s]
            /\ UNCHANGED <<source, program, history>>
        BY <1>0, <1>b, <2>2, GotoFacts DEF Upgrade
      <3>2. ProcessOf(r)'
        BY <1>0, <2>2, <3>1 DEF Upgrade, ProcessOf
      <3>3. StepOf(r)'
        BY <1>0, <1>p, <2>2, <3>1 DEF Upgrade, StepOf, ProcessOf
      <3> QED
        BY <1>0, <1>p, <1>s, <2>2, <3>1, <3>2, <3>3 DEF Upgrade, Advance, ProcessOf, Writing
    <2> QED
      BY <2>1, <2>2 DEF Upgrade
  <1> QED
    BY <1>9

\* The package is loaded, or not.
LEMMA LoadAdvances ==
  ASSUME IInv, NEW r \in Runtime, Load(r)
  PROVE  Advance(r)
  <1>0. TypeOK /\ ProcessOf(r) /\ StepOf(r) /\ run[r] \in Process
    BY DEF IInv, ProcessShape, TypeOK
  <1>b. run[r].standalone \in BOOLEAN
    BY <1>0 DEF Process
  <1>p. pkg \in [Version -> Package]
    BY <1>0 DEF TypeOK
  <1>s. \A v \in Version : pkg[v].manifest = 4 /\ pkg[v].shards => pkg[v].assets
    BY DEF IInv, PackageShape
  <1>9. Advance(r)
    <2>1. CASE Own(r).manifest = 0 /\ Goto(r, "converting")
      <3>1. /\ run' \in [Runtime -> Process]
            /\ run'[r].pc = "converting" /\ run'[r].key = run[r].key
            /\ run'[r].standalone = run[r].standalone
            /\ run'[r].line = run[r].line /\ run'[r].mapped = run[r].mapped
            /\ \A s \in Runtime \ {r} : run'[s] = run[s]
            /\ UNCHANGED <<source, program, history>>
        BY <1>0, <1>b, <2>1, GotoFacts DEF Load
      <3>2. ProcessOf(r)'
        BY <1>0, <2>1, <3>1 DEF Load, ProcessOf
      <3>3. StepOf(r)'
        BY <1>0, <1>p, <2>1, <3>1 DEF Load, StepOf, ProcessOf
      <3> QED
        BY <1>0, <1>p, <1>s, <2>1, <3>1, <3>2, <3>3 DEF Load, Advance, ProcessOf, Writing
    <2>2. CASE Contains(Own(r)) /\ Finish(r, TRUE, run[r].standalone)
      <3>1. /\ run' \in [Runtime -> Process]
            /\ run'[r].pc = "loaded" /\ run'[r].key = run[r].key
            /\ run'[r].line = run[r].standalone /\ run'[r].mapped = TRUE
            /\ \A s \in Runtime \ {r} : run'[s] = run[s]
            /\ UNCHANGED <<source, program, history>>
        BY <1>0, <1>b, <2>2, FinishFacts DEF Load
      <3>2. ProcessOf(r)'
        BY <1>0, <2>2, <3>1 DEF Load, ProcessOf
      <3>3. StepOf(r)'
        BY <1>0, <1>p, <2>2, <3>1 DEF Load, StepOf, ProcessOf
      <3> QED
        BY <1>0, <1>p, <1>s, <2>2, <3>1, <3>2, <3>3 DEF Load, Advance, ProcessOf, Writing
    <2>3. CASE Own(r).manifest # 0 /\ Goto(r, "dropping shards")
      <3>1. /\ run' \in [Runtime -> Process]
            /\ run'[r].pc = "dropping shards" /\ run'[r].key = run[r].key
            /\ run'[r].standalone = run[r].standalone
            /\ run'[r].line = run[r].line /\ run'[r].mapped = run[r].mapped
            /\ \A s \in Runtime \ {r} : run'[s] = run[s]
            /\ UNCHANGED <<source, program, history>>
        BY <1>0, <1>b, <2>3, GotoFacts DEF Load
      <3>2. ProcessOf(r)'
        BY <1>0, <2>3, <3>1 DEF Load, ProcessOf
      <3>3. StepOf(r)'
        BY <1>0, <1>p, <2>3, <3>1 DEF Load, StepOf, ProcessOf
      <3> QED
        BY <1>0, <1>p, <1>s, <2>3, <3>1, <3>2, <3>3 DEF Load, Advance, ProcessOf, Writing
    <2>4. CASE Own(r).manifest # 0 /\ Goto(r, "converting")
      <3>1. /\ run' \in [Runtime -> Process]
            /\ run'[r].pc = "converting" /\ run'[r].key = run[r].key
            /\ run'[r].standalone = run[r].standalone
            /\ run'[r].line = run[r].line /\ run'[r].mapped = run[r].mapped
            /\ \A s \in Runtime \ {r} : run'[s] = run[s]
            /\ UNCHANGED <<source, program, history>>
        BY <1>0, <1>b, <2>4, GotoFacts DEF Load
      <3>2. ProcessOf(r)'
        BY <1>0, <2>4, <3>1 DEF Load, ProcessOf
      <3>3. StepOf(r)'
        BY <1>0, <1>p, <2>4, <3>1 DEF Load, StepOf, ProcessOf
      <3> QED
        BY <1>0, <1>p, <1>s, <2>4, <3>1, <3>2, <3>3 DEF Load, Advance, ProcessOf, Writing
    <2> QED
      BY <2>1, <2>2, <2>3, <2>4 DEF Load
  <1> QED
    BY <1>9

\* A part of an unusable package goes.
LEMMA InvalidateAdvances ==
  ASSUME IInv, NEW r \in Runtime, Invalidate(r)
  PROVE  Advance(r)
  <1>0. TypeOK /\ ProcessOf(r) /\ StepOf(r) /\ run[r] \in Process
    BY DEF IInv, ProcessShape, TypeOK
  <1>b. run[r].standalone \in BOOLEAN
    BY <1>0 DEF Process
  <1>p. pkg \in [Version -> Package]
    BY <1>0 DEF TypeOK
  <1>s. \A v \in Version : pkg[v].manifest = 4 /\ pkg[v].shards => pkg[v].assets
    BY DEF IInv, PackageShape
  <1>9. Advance(r)
    <2>1. CASE At(r, "dropping shards") /\ Own(r).manifest = 4
      <3>0. run[r].key \in Version /\ Own(r) \in Package
        BY <1>0, <1>p, <2>1 DEF Invalidate, ProcessOf
      <3>1. [Own(r) EXCEPT !.shards = FALSE] \in Package
        BY <3>0 DEF Package
      <3>2. /\ pkg' \in [Version -> Package]
            /\ pkg'[run[r].key] = [Own(r) EXCEPT !.shards = FALSE]
            /\ \A v \in Version \ {run[r].key} : pkg'[v] = pkg[v]
        BY <1>0, <2>1, <3>0, <3>1, WriteFacts DEF Invalidate
      <3>3. /\ pkg'[run[r].key].shards = FALSE
            /\ pkg'[run[r].key].assets = Own(r).assets
            /\ pkg'[run[r].key].manifest = Own(r).manifest
        BY <3>0, <3>2 DEF Package
      <3>r. pkg' \in [Version -> Package] /\ \A v \in Version \ {run[r].key} : pkg'[v] = pkg[v]
        BY <3>2
      <3>4. /\ run' \in [Runtime -> Process]
            /\ run'[r].pc = "dropping assets" /\ run'[r].key = run[r].key
            /\ run'[r].standalone = run[r].standalone
            /\ run'[r].line = run[r].line /\ run'[r].mapped = run[r].mapped
            /\ \A s \in Runtime \ {r} : run'[s] = run[s]
            /\ UNCHANGED <<source, program, history>>
        BY <1>0, <1>b, <2>1, GotoFacts DEF Invalidate
      <3>5. ProcessOf(r)'
        BY <1>0, <2>1, <3>r, <3>3, <3>4 DEF Invalidate, ProcessOf
      <3>6. StepOf(r)'
        BY <1>0, <1>p, <2>1, <3>r, <3>3, <3>4 DEF Invalidate, StepOf, ProcessOf
      <3>7. run[r].pc \in Writing /\ ~run[r].mapped
        BY <1>0, <2>1 DEF Invalidate, Writing, ProcessOf
      <3>8. \A v \in Version : pkg'[v].manifest = 4 /\ pkg'[v].shards => pkg'[v].assets
        BY <1>0, <1>s, <2>1, <3>0, <3>r, <3>3 DEF Invalidate, StepOf
      <3>9. \A v \in Version : pkg'[v].manifest = 3 => pkg[v].manifest = 3
        BY <3>0, <3>r, <3>3
      <3>10. \A v \in Version :
             pkg[v].manifest # 4 /\ pkg'[v].manifest = 4 => Standalone(pkg'[v])
        BY <3>0, <3>r, <3>3
      <3> QED
        BY <1>0, <2>1, <3>r, <3>3, <3>4, <3>5, <3>6, <3>7, <3>8, <3>9, <3>10 DEF Invalidate, Advance
    <2>2. CASE At(r, "dropping shards") /\ Own(r).manifest # 4
      <3>0. run[r].key \in Version /\ Own(r) \in Package
        BY <1>0, <1>p, <2>2 DEF Invalidate, ProcessOf
      <3>1. [Own(r) EXCEPT !.shards = FALSE] \in Package
        BY <3>0 DEF Package
      <3>2. /\ pkg' \in [Version -> Package]
            /\ pkg'[run[r].key] = [Own(r) EXCEPT !.shards = FALSE]
            /\ \A v \in Version \ {run[r].key} : pkg'[v] = pkg[v]
        BY <1>0, <2>2, <3>0, <3>1, WriteFacts DEF Invalidate
      <3>3. /\ pkg'[run[r].key].shards = FALSE
            /\ pkg'[run[r].key].assets = Own(r).assets
            /\ pkg'[run[r].key].manifest = Own(r).manifest
        BY <3>0, <3>2 DEF Package
      <3>r. pkg' \in [Version -> Package] /\ \A v \in Version \ {run[r].key} : pkg'[v] = pkg[v]
        BY <3>2
      <3>4. /\ run' \in [Runtime -> Process]
            /\ run'[r].pc = "dropping manifest" /\ run'[r].key = run[r].key
            /\ run'[r].standalone = run[r].standalone
            /\ run'[r].line = run[r].line /\ run'[r].mapped = run[r].mapped
            /\ \A s \in Runtime \ {r} : run'[s] = run[s]
            /\ UNCHANGED <<source, program, history>>
        BY <1>0, <1>b, <2>2, GotoFacts DEF Invalidate
      <3>5. ProcessOf(r)'
        BY <1>0, <2>2, <3>r, <3>3, <3>4 DEF Invalidate, ProcessOf
      <3>6. StepOf(r)'
        BY <1>0, <1>p, <2>2, <3>r, <3>3, <3>4 DEF Invalidate, StepOf, ProcessOf
      <3>7. run[r].pc \in Writing /\ ~run[r].mapped
        BY <1>0, <2>2 DEF Invalidate, Writing, ProcessOf
      <3>8. \A v \in Version : pkg'[v].manifest = 4 /\ pkg'[v].shards => pkg'[v].assets
        BY <1>0, <1>s, <2>2, <3>0, <3>r, <3>3 DEF Invalidate, StepOf
      <3>9. \A v \in Version : pkg'[v].manifest = 3 => pkg[v].manifest = 3
        BY <3>0, <3>r, <3>3
      <3>10. \A v \in Version :
             pkg[v].manifest # 4 /\ pkg'[v].manifest = 4 => Standalone(pkg'[v])
        BY <3>0, <3>r, <3>3
      <3> QED
        BY <1>0, <2>2, <3>r, <3>3, <3>4, <3>5, <3>6, <3>7, <3>8, <3>9, <3>10 DEF Invalidate, Advance
    <2>3. CASE At(r, "dropping assets")
      <3>0. run[r].key \in Version /\ Own(r) \in Package
        BY <1>0, <1>p, <2>3 DEF Invalidate, ProcessOf
      <3>1. [Own(r) EXCEPT !.assets = FALSE] \in Package
        BY <3>0 DEF Package
      <3>2. /\ pkg' \in [Version -> Package]
            /\ pkg'[run[r].key] = [Own(r) EXCEPT !.assets = FALSE]
            /\ \A v \in Version \ {run[r].key} : pkg'[v] = pkg[v]
        BY <1>0, <2>3, <3>0, <3>1, WriteFacts DEF Invalidate
      <3>3. /\ pkg'[run[r].key].shards = Own(r).shards
            /\ pkg'[run[r].key].assets = FALSE
            /\ pkg'[run[r].key].manifest = Own(r).manifest
        BY <3>0, <3>2 DEF Package
      <3>r. pkg' \in [Version -> Package] /\ \A v \in Version \ {run[r].key} : pkg'[v] = pkg[v]
        BY <3>2
      <3>4. /\ run' \in [Runtime -> Process]
            /\ run'[r].pc = "dropping manifest" /\ run'[r].key = run[r].key
            /\ run'[r].standalone = run[r].standalone
            /\ run'[r].line = run[r].line /\ run'[r].mapped = run[r].mapped
            /\ \A s \in Runtime \ {r} : run'[s] = run[s]
            /\ UNCHANGED <<source, program, history>>
        BY <1>0, <1>b, <2>3, GotoFacts DEF Invalidate
      <3>5. ProcessOf(r)'
        BY <1>0, <2>3, <3>r, <3>3, <3>4 DEF Invalidate, ProcessOf
      <3>6. StepOf(r)'
        BY <1>0, <1>p, <2>3, <3>r, <3>3, <3>4 DEF Invalidate, StepOf, ProcessOf
      <3>7. run[r].pc \in Writing /\ ~run[r].mapped
        BY <1>0, <2>3 DEF Invalidate, Writing, ProcessOf
      <3>8. \A v \in Version : pkg'[v].manifest = 4 /\ pkg'[v].shards => pkg'[v].assets
        BY <1>0, <1>s, <2>3, <3>0, <3>r, <3>3 DEF Invalidate, StepOf
      <3>9. \A v \in Version : pkg'[v].manifest = 3 => pkg[v].manifest = 3
        BY <3>0, <3>r, <3>3
      <3>10. \A v \in Version :
             pkg[v].manifest # 4 /\ pkg'[v].manifest = 4 => Standalone(pkg'[v])
        BY <3>0, <3>r, <3>3
      <3> QED
        BY <1>0, <2>3, <3>r, <3>3, <3>4, <3>5, <3>6, <3>7, <3>8, <3>9, <3>10 DEF Invalidate, Advance
    <2>4. CASE At(r, "dropping manifest")
      <3>0. run[r].key \in Version /\ Own(r) \in Package
        BY <1>0, <1>p, <2>4 DEF Invalidate, ProcessOf
      <3>1. [Own(r) EXCEPT !.manifest = 0] \in Package
        BY <3>0 DEF Package
      <3>2. /\ pkg' \in [Version -> Package]
            /\ pkg'[run[r].key] = [Own(r) EXCEPT !.manifest = 0]
            /\ \A v \in Version \ {run[r].key} : pkg'[v] = pkg[v]
        BY <1>0, <2>4, <3>0, <3>1, WriteFacts DEF Invalidate
      <3>3. /\ pkg'[run[r].key].shards = Own(r).shards
            /\ pkg'[run[r].key].assets = Own(r).assets
            /\ pkg'[run[r].key].manifest = 0
        BY <3>0, <3>2 DEF Package
      <3>r. pkg' \in [Version -> Package] /\ \A v \in Version \ {run[r].key} : pkg'[v] = pkg[v]
        BY <3>2
      <3>4. /\ run' \in [Runtime -> Process]
            /\ run'[r].pc = "converting" /\ run'[r].key = run[r].key
            /\ run'[r].standalone = run[r].standalone
            /\ run'[r].line = run[r].line /\ run'[r].mapped = run[r].mapped
            /\ \A s \in Runtime \ {r} : run'[s] = run[s]
            /\ UNCHANGED <<source, program, history>>
        BY <1>0, <1>b, <2>4, GotoFacts DEF Invalidate
      <3>5. ProcessOf(r)'
        BY <1>0, <2>4, <3>r, <3>3, <3>4 DEF Invalidate, ProcessOf
      <3>6. StepOf(r)'
        BY <1>0, <1>p, <2>4, <3>r, <3>3, <3>4 DEF Invalidate, StepOf, ProcessOf
      <3>7. run[r].pc \in Writing /\ ~run[r].mapped
        BY <1>0, <2>4 DEF Invalidate, Writing, ProcessOf
      <3>8. \A v \in Version : pkg'[v].manifest = 4 /\ pkg'[v].shards => pkg'[v].assets
        BY <1>0, <1>s, <2>4, <3>0, <3>r, <3>3 DEF Invalidate, StepOf
      <3>9. \A v \in Version : pkg'[v].manifest = 3 => pkg[v].manifest = 3
        BY <3>0, <3>r, <3>3
      <3>10. \A v \in Version :
             pkg[v].manifest # 4 /\ pkg'[v].manifest = 4 => Standalone(pkg'[v])
        BY <3>0, <3>r, <3>3
      <3> QED
        BY <1>0, <2>4, <3>r, <3>3, <3>4, <3>5, <3>6, <3>7, <3>8, <3>9, <3>10 DEF Invalidate, Advance
    <2> QED
      BY <2>1, <2>2, <2>3, <2>4 DEF Invalidate
  <1> QED
    BY <1>9

\* The conversion ends.
LEMMA ConvertAdvances ==
  ASSUME IInv, NEW r \in Runtime, Convert(r)
  PROVE  Advance(r)
  <1>0. TypeOK /\ ProcessOf(r) /\ StepOf(r) /\ run[r] \in Process
    BY DEF IInv, ProcessShape, TypeOK
  <1>b. run[r].standalone \in BOOLEAN
    BY <1>0 DEF Process
  <1>p. pkg \in [Version -> Package]
    BY <1>0 DEF TypeOK
  <1>s. \A v \in Version : pkg[v].manifest = 4 /\ pkg[v].shards => pkg[v].assets
    BY DEF IInv, PackageShape
  <1>9. Advance(r)
    <2>1. CASE Own(r).manifest # 0 /\ Goto(r, "stored")
      <3>1. /\ run' \in [Runtime -> Process]
            /\ run'[r].pc = "stored" /\ run'[r].key = run[r].key
            /\ run'[r].standalone = run[r].standalone
            /\ run'[r].line = run[r].line /\ run'[r].mapped = run[r].mapped
            /\ \A s \in Runtime \ {r} : run'[s] = run[s]
            /\ UNCHANGED <<source, program, history>>
        BY <1>0, <1>b, <2>1, GotoFacts DEF Convert
      <3>2. ProcessOf(r)'
        BY <1>0, <2>1, <3>1 DEF Convert, ProcessOf
      <3>3. StepOf(r)'
        BY <1>0, <1>p, <2>1, <3>1 DEF Convert, StepOf, ProcessOf
      <3> QED
        BY <1>0, <1>p, <1>s, <2>1, <3>1, <3>2, <3>3 DEF Convert, Advance, ProcessOf, Writing
    <2>2. CASE Own(r).manifest = 0 /\ Goto(r, "moving shards")
      <3>1. /\ run' \in [Runtime -> Process]
            /\ run'[r].pc = "moving shards" /\ run'[r].key = run[r].key
            /\ run'[r].standalone = run[r].standalone
            /\ run'[r].line = run[r].line /\ run'[r].mapped = run[r].mapped
            /\ \A s \in Runtime \ {r} : run'[s] = run[s]
            /\ UNCHANGED <<source, program, history>>
        BY <1>0, <1>b, <2>2, GotoFacts DEF Convert
      <3>2. ProcessOf(r)'
        BY <1>0, <2>2, <3>1 DEF Convert, ProcessOf
      <3>3. StepOf(r)'
        BY <1>0, <1>p, <2>2, <3>1 DEF Convert, StepOf, ProcessOf
      <3> QED
        BY <1>0, <1>p, <1>s, <2>2, <3>1, <3>2, <3>3 DEF Convert, Advance, ProcessOf, Writing
    <2> QED
      BY <2>1, <2>2 DEF Convert
  <1> QED
    BY <1>9

\* A part of a package comes, or goes before it comes.
LEMMA StoreAdvances ==
  ASSUME IInv, NEW r \in Runtime, Store(r)
  PROVE  Advance(r)
  <1>0. TypeOK /\ ProcessOf(r) /\ StepOf(r) /\ run[r] \in Process
    BY DEF IInv, ProcessShape, TypeOK
  <1>b. run[r].standalone \in BOOLEAN
    BY <1>0 DEF Process
  <1>p. pkg \in [Version -> Package]
    BY <1>0 DEF TypeOK
  <1>s. \A v \in Version : pkg[v].manifest = 4 /\ pkg[v].shards => pkg[v].assets
    BY DEF IInv, PackageShape
  <1>9. Advance(r)
    <2>1. CASE At(r, "moving shards") /\ Own(r).shards
      <3>0. run[r].key \in Version /\ Own(r) \in Package
        BY <1>0, <1>p, <2>1 DEF Store, ProcessOf
      <3>1. [Own(r) EXCEPT !.shards = ~Own(r).shards] \in Package
        BY <3>0 DEF Package
      <3>2. /\ pkg' \in [Version -> Package]
            /\ pkg'[run[r].key] = [Own(r) EXCEPT !.shards = ~Own(r).shards]
            /\ \A v \in Version \ {run[r].key} : pkg'[v] = pkg[v]
        BY <1>0, <2>1, <3>0, <3>1, WriteFacts DEF Store
      <3>3. /\ pkg'[run[r].key].shards = ~Own(r).shards
            /\ pkg'[run[r].key].assets = Own(r).assets
            /\ pkg'[run[r].key].manifest = Own(r).manifest
        BY <3>0, <3>2 DEF Package
      <3>r. pkg' \in [Version -> Package] /\ \A v \in Version \ {run[r].key} : pkg'[v] = pkg[v]
        BY <3>2
      <3>4. /\ run' \in [Runtime -> Process]
            /\ run'[r].pc = "moving shards" /\ run'[r].key = run[r].key
            /\ run'[r].standalone = run[r].standalone
            /\ run'[r].line = run[r].line /\ run'[r].mapped = run[r].mapped
            /\ \A s \in Runtime \ {r} : run'[s] = run[s]
            /\ UNCHANGED <<source, program, history>>
        BY <1>0, <1>b, <2>1, GotoFacts DEF Store
      <3>5. ProcessOf(r)'
        BY <1>0, <2>1, <3>r, <3>3, <3>4 DEF Store, ProcessOf
      <3>6. StepOf(r)'
        BY <1>0, <1>p, <2>1, <3>r, <3>3, <3>4 DEF Store, StepOf, ProcessOf
      <3>7. run[r].pc \in Writing /\ ~run[r].mapped
        BY <1>0, <2>1 DEF Store, Writing, ProcessOf
      <3>m. pkg'[run[r].key].manifest = 0
        BY <1>0, <2>1, <3>3 DEF StepOf
      <3>8. \A v \in Version : pkg'[v].manifest = 4 /\ pkg'[v].shards => pkg'[v].assets
        BY <1>s, <3>r, <3>m
      <3>9. \A v \in Version : pkg'[v].manifest = 3 => pkg[v].manifest = 3
        BY <3>0, <3>r, <3>3
      <3>10. \A v \in Version :
             pkg[v].manifest # 4 /\ pkg'[v].manifest = 4 => Standalone(pkg'[v])
        BY <1>0, <2>1, <3>0, <3>r, <3>3 DEF StepOf
      <3> QED
        BY <1>0, <2>1, <3>r, <3>3, <3>4, <3>5, <3>6, <3>7, <3>8, <3>9, <3>10 DEF Store, Advance
    <2>2. CASE At(r, "moving shards") /\ ~Own(r).shards
      <3>0. run[r].key \in Version /\ Own(r) \in Package
        BY <1>0, <1>p, <2>2 DEF Store, ProcessOf
      <3>1. [Own(r) EXCEPT !.shards = ~Own(r).shards] \in Package
        BY <3>0 DEF Package
      <3>2. /\ pkg' \in [Version -> Package]
            /\ pkg'[run[r].key] = [Own(r) EXCEPT !.shards = ~Own(r).shards]
            /\ \A v \in Version \ {run[r].key} : pkg'[v] = pkg[v]
        BY <1>0, <2>2, <3>0, <3>1, WriteFacts DEF Store
      <3>3. /\ pkg'[run[r].key].shards = ~Own(r).shards
            /\ pkg'[run[r].key].assets = Own(r).assets
            /\ pkg'[run[r].key].manifest = Own(r).manifest
        BY <3>0, <3>2 DEF Package
      <3>r. pkg' \in [Version -> Package] /\ \A v \in Version \ {run[r].key} : pkg'[v] = pkg[v]
        BY <3>2
      <3>4. /\ run' \in [Runtime -> Process]
            /\ run'[r].pc = "moving assets" /\ run'[r].key = run[r].key
            /\ run'[r].standalone = run[r].standalone
            /\ run'[r].line = run[r].line /\ run'[r].mapped = run[r].mapped
            /\ \A s \in Runtime \ {r} : run'[s] = run[s]
            /\ UNCHANGED <<source, program, history>>
        BY <1>0, <1>b, <2>2, GotoFacts DEF Store
      <3>5. ProcessOf(r)'
        BY <1>0, <2>2, <3>r, <3>3, <3>4 DEF Store, ProcessOf
      <3>6. StepOf(r)'
        BY <1>0, <1>p, <2>2, <3>r, <3>3, <3>4 DEF Store, StepOf, ProcessOf
      <3>7. run[r].pc \in Writing /\ ~run[r].mapped
        BY <1>0, <2>2 DEF Store, Writing, ProcessOf
      <3>m. pkg'[run[r].key].manifest = 0
        BY <1>0, <2>2, <3>3 DEF StepOf
      <3>8. \A v \in Version : pkg'[v].manifest = 4 /\ pkg'[v].shards => pkg'[v].assets
        BY <1>s, <3>r, <3>m
      <3>9. \A v \in Version : pkg'[v].manifest = 3 => pkg[v].manifest = 3
        BY <3>0, <3>r, <3>3
      <3>10. \A v \in Version :
             pkg[v].manifest # 4 /\ pkg'[v].manifest = 4 => Standalone(pkg'[v])
        BY <1>0, <2>2, <3>0, <3>r, <3>3 DEF StepOf
      <3> QED
        BY <1>0, <2>2, <3>r, <3>3, <3>4, <3>5, <3>6, <3>7, <3>8, <3>9, <3>10 DEF Store, Advance
    <2>3. CASE At(r, "moving assets") /\ Own(r).assets
      <3>0. run[r].key \in Version /\ Own(r) \in Package
        BY <1>0, <1>p, <2>3 DEF Store, ProcessOf
      <3>1. [Own(r) EXCEPT !.assets = ~Own(r).assets] \in Package
        BY <3>0 DEF Package
      <3>2. /\ pkg' \in [Version -> Package]
            /\ pkg'[run[r].key] = [Own(r) EXCEPT !.assets = ~Own(r).assets]
            /\ \A v \in Version \ {run[r].key} : pkg'[v] = pkg[v]
        BY <1>0, <2>3, <3>0, <3>1, WriteFacts DEF Store
      <3>3. /\ pkg'[run[r].key].shards = Own(r).shards
            /\ pkg'[run[r].key].assets = ~Own(r).assets
            /\ pkg'[run[r].key].manifest = Own(r).manifest
        BY <3>0, <3>2 DEF Package
      <3>r. pkg' \in [Version -> Package] /\ \A v \in Version \ {run[r].key} : pkg'[v] = pkg[v]
        BY <3>2
      <3>4. /\ run' \in [Runtime -> Process]
            /\ run'[r].pc = "moving assets" /\ run'[r].key = run[r].key
            /\ run'[r].standalone = run[r].standalone
            /\ run'[r].line = run[r].line /\ run'[r].mapped = run[r].mapped
            /\ \A s \in Runtime \ {r} : run'[s] = run[s]
            /\ UNCHANGED <<source, program, history>>
        BY <1>0, <1>b, <2>3, GotoFacts DEF Store
      <3>5. ProcessOf(r)'
        BY <1>0, <2>3, <3>r, <3>3, <3>4 DEF Store, ProcessOf
      <3>6. StepOf(r)'
        BY <1>0, <1>p, <2>3, <3>r, <3>3, <3>4 DEF Store, StepOf, ProcessOf
      <3>7. run[r].pc \in Writing /\ ~run[r].mapped
        BY <1>0, <2>3 DEF Store, Writing, ProcessOf
      <3>m. pkg'[run[r].key].manifest = 0
        BY <1>0, <2>3, <3>3 DEF StepOf
      <3>8. \A v \in Version : pkg'[v].manifest = 4 /\ pkg'[v].shards => pkg'[v].assets
        BY <1>s, <3>r, <3>m
      <3>9. \A v \in Version : pkg'[v].manifest = 3 => pkg[v].manifest = 3
        BY <3>0, <3>r, <3>3
      <3>10. \A v \in Version :
             pkg[v].manifest # 4 /\ pkg'[v].manifest = 4 => Standalone(pkg'[v])
        BY <1>0, <2>3, <3>0, <3>r, <3>3 DEF StepOf
      <3> QED
        BY <1>0, <2>3, <3>r, <3>3, <3>4, <3>5, <3>6, <3>7, <3>8, <3>9, <3>10 DEF Store, Advance
    <2>4. CASE At(r, "moving assets") /\ ~Own(r).assets
      <3>0. run[r].key \in Version /\ Own(r) \in Package
        BY <1>0, <1>p, <2>4 DEF Store, ProcessOf
      <3>1. [Own(r) EXCEPT !.assets = ~Own(r).assets] \in Package
        BY <3>0 DEF Package
      <3>2. /\ pkg' \in [Version -> Package]
            /\ pkg'[run[r].key] = [Own(r) EXCEPT !.assets = ~Own(r).assets]
            /\ \A v \in Version \ {run[r].key} : pkg'[v] = pkg[v]
        BY <1>0, <2>4, <3>0, <3>1, WriteFacts DEF Store
      <3>3. /\ pkg'[run[r].key].shards = Own(r).shards
            /\ pkg'[run[r].key].assets = ~Own(r).assets
            /\ pkg'[run[r].key].manifest = Own(r).manifest
        BY <3>0, <3>2 DEF Package
      <3>r. pkg' \in [Version -> Package] /\ \A v \in Version \ {run[r].key} : pkg'[v] = pkg[v]
        BY <3>2
      <3>4. /\ run' \in [Runtime -> Process]
            /\ run'[r].pc = "publishing" /\ run'[r].key = run[r].key
            /\ run'[r].standalone = run[r].standalone
            /\ run'[r].line = run[r].line /\ run'[r].mapped = run[r].mapped
            /\ \A s \in Runtime \ {r} : run'[s] = run[s]
            /\ UNCHANGED <<source, program, history>>
        BY <1>0, <1>b, <2>4, GotoFacts DEF Store
      <3>5. ProcessOf(r)'
        BY <1>0, <2>4, <3>r, <3>3, <3>4 DEF Store, ProcessOf
      <3>6. StepOf(r)'
        BY <1>0, <1>p, <2>4, <3>r, <3>3, <3>4 DEF Store, StepOf, ProcessOf
      <3>7. run[r].pc \in Writing /\ ~run[r].mapped
        BY <1>0, <2>4 DEF Store, Writing, ProcessOf
      <3>m. pkg'[run[r].key].manifest = 0
        BY <1>0, <2>4, <3>3 DEF StepOf
      <3>8. \A v \in Version : pkg'[v].manifest = 4 /\ pkg'[v].shards => pkg'[v].assets
        BY <1>s, <3>r, <3>m
      <3>9. \A v \in Version : pkg'[v].manifest = 3 => pkg[v].manifest = 3
        BY <3>0, <3>r, <3>3
      <3>10. \A v \in Version :
             pkg[v].manifest # 4 /\ pkg'[v].manifest = 4 => Standalone(pkg'[v])
        BY <1>0, <2>4, <3>0, <3>r, <3>3 DEF StepOf
      <3> QED
        BY <1>0, <2>4, <3>r, <3>3, <3>4, <3>5, <3>6, <3>7, <3>8, <3>9, <3>10 DEF Store, Advance
    <2>5. CASE At(r, "publishing")
      <3>0. run[r].key \in Version /\ Own(r) \in Package
        BY <1>0, <1>p, <2>5 DEF Store, ProcessOf
      <3>1. [Own(r) EXCEPT !.manifest = 4] \in Package
        BY <3>0 DEF Package
      <3>2. /\ pkg' \in [Version -> Package]
            /\ pkg'[run[r].key] = [Own(r) EXCEPT !.manifest = 4]
            /\ \A v \in Version \ {run[r].key} : pkg'[v] = pkg[v]
        BY <1>0, <2>5, <3>0, <3>1, WriteFacts DEF Store
      <3>3. /\ pkg'[run[r].key].shards = Own(r).shards
            /\ pkg'[run[r].key].assets = Own(r).assets
            /\ pkg'[run[r].key].manifest = 4
        BY <3>0, <3>2 DEF Package
      <3>r. pkg' \in [Version -> Package] /\ \A v \in Version \ {run[r].key} : pkg'[v] = pkg[v]
        BY <3>2
      <3>4. /\ run' \in [Runtime -> Process]
            /\ run'[r].pc = "stored" /\ run'[r].key = run[r].key
            /\ run'[r].standalone = run[r].standalone
            /\ run'[r].line = run[r].line /\ run'[r].mapped = run[r].mapped
            /\ \A s \in Runtime \ {r} : run'[s] = run[s]
            /\ UNCHANGED <<source, program, history>>
        BY <1>0, <1>b, <2>5, GotoFacts DEF Store
      <3>5. ProcessOf(r)'
        BY <1>0, <2>5, <3>r, <3>3, <3>4 DEF Store, ProcessOf
      <3>6. StepOf(r)'
        BY <1>0, <1>p, <2>5, <3>r, <3>3, <3>4 DEF Store, StepOf, ProcessOf
      <3>7. run[r].pc \in Writing /\ ~run[r].mapped
        BY <1>0, <2>5 DEF Store, Writing, ProcessOf
      <3>8. \A v \in Version : pkg'[v].manifest = 4 /\ pkg'[v].shards => pkg'[v].assets
        BY <1>0, <1>s, <2>5, <3>0, <3>r, <3>3 DEF StepOf
      <3>9. \A v \in Version : pkg'[v].manifest = 3 => pkg[v].manifest = 3
        BY <3>0, <3>r, <3>3
      <3>10. \A v \in Version :
             pkg[v].manifest # 4 /\ pkg'[v].manifest = 4 => Standalone(pkg'[v])
        BY <1>0, <2>5, <3>0, <3>r, <3>3 DEF StepOf
      <3> QED
        BY <1>0, <2>5, <3>r, <3>3, <3>4, <3>5, <3>6, <3>7, <3>8, <3>9, <3>10 DEF Store, Advance
    <2> QED
      BY <2>1, <2>2, <2>3, <2>4, <2>5 DEF Store
  <1> QED
    BY <1>9

\* A package cannot be stored.
LEMMA StoreFailsAdvances ==
  ASSUME IInv, NEW r \in Runtime, StoreFails(r)
  PROVE  Advance(r)
  <1>0. TypeOK /\ ProcessOf(r) /\ StepOf(r) /\ run[r] \in Process
    BY DEF IInv, ProcessShape, TypeOK
  <1>b. run[r].standalone \in BOOLEAN
    BY <1>0 DEF Process
  <1>p. pkg \in [Version -> Package]
    BY <1>0 DEF TypeOK
  <1>s. \A v \in Version : pkg[v].manifest = 4 /\ pkg[v].shards => pkg[v].assets
    BY DEF IInv, PackageShape
  <1>9. Advance(r)
    <2>1. CASE Finish(r, FALSE, FALSE)
      <3>1. /\ run' \in [Runtime -> Process]
            /\ run'[r].pc = "loaded" /\ run'[r].key = run[r].key
            /\ run'[r].line = FALSE /\ run'[r].mapped = FALSE
            /\ \A s \in Runtime \ {r} : run'[s] = run[s]
            /\ UNCHANGED <<source, program, history>>
        BY <1>0, <1>b, <2>1, FinishFacts DEF StoreFails
      <3>2. ProcessOf(r)'
        BY <1>0, <2>1, <3>1 DEF StoreFails, ProcessOf
      <3>3. StepOf(r)'
        BY <1>0, <1>p, <2>1, <3>1 DEF StoreFails, StepOf, ProcessOf
      <3> QED
        BY <1>0, <1>p, <1>s, <2>1, <3>1, <3>2, <3>3 DEF StoreFails, Advance, ProcessOf, Writing
    <2> QED
      BY <2>1 DEF StoreFails
  <1> QED
    BY <1>9

\* The stored package is loaded, or not.
LEMMA ReloadAdvances ==
  ASSUME IInv, NEW r \in Runtime, Reload(r)
  PROVE  Advance(r)
  <1>0. TypeOK /\ ProcessOf(r) /\ StepOf(r) /\ run[r] \in Process
    BY DEF IInv, ProcessShape, TypeOK
  <1>b. run[r].standalone \in BOOLEAN
    BY <1>0 DEF Process
  <1>p. pkg \in [Version -> Package]
    BY <1>0 DEF TypeOK
  <1>s. \A v \in Version : pkg[v].manifest = 4 /\ pkg[v].shards => pkg[v].assets
    BY DEF IInv, PackageShape
  <1>9. Advance(r)
    <2>1. CASE Contains(Own(r)) /\ Finish(r, TRUE, TRUE)
      <3>1. /\ run' \in [Runtime -> Process]
            /\ run'[r].pc = "loaded" /\ run'[r].key = run[r].key
            /\ run'[r].line = TRUE /\ run'[r].mapped = TRUE
            /\ \A s \in Runtime \ {r} : run'[s] = run[s]
            /\ UNCHANGED <<source, program, history>>
        BY <1>0, <1>b, <2>1, FinishFacts DEF Reload
      <3>2. ProcessOf(r)'
        BY <1>0, <2>1, <3>1 DEF Reload, ProcessOf
      <3>3. StepOf(r)'
        BY <1>0, <1>p, <2>1, <3>1 DEF Reload, StepOf, ProcessOf
      <3> QED
        BY <1>0, <1>p, <1>s, <2>1, <3>1, <3>2, <3>3 DEF Reload, Advance, ProcessOf, Writing
    <2>2. CASE Finish(r, FALSE, FALSE)
      <3>1. /\ run' \in [Runtime -> Process]
            /\ run'[r].pc = "loaded" /\ run'[r].key = run[r].key
            /\ run'[r].line = FALSE /\ run'[r].mapped = FALSE
            /\ \A s \in Runtime \ {r} : run'[s] = run[s]
            /\ UNCHANGED <<source, program, history>>
        BY <1>0, <1>b, <2>2, FinishFacts DEF Reload
      <3>2. ProcessOf(r)'
        BY <1>0, <2>2, <3>1 DEF Reload, ProcessOf
      <3>3. StepOf(r)'
        BY <1>0, <1>p, <2>2, <3>1 DEF Reload, StepOf, ProcessOf
      <3> QED
        BY <1>0, <1>p, <1>s, <2>2, <3>1, <3>2, <3>3 DEF Reload, Advance, ProcessOf, Writing
    <2> QED
      BY <2>1, <2>2 DEF Reload
  <1> QED
    BY <1>9

\* A conversion without the cache ends.
LEMMA LoadBareAdvances ==
  ASSUME IInv, NEW r \in Runtime, LoadBare(r)
  PROVE  Advance(r)
  <1>0. TypeOK /\ ProcessOf(r) /\ StepOf(r) /\ run[r] \in Process
    BY DEF IInv, ProcessShape, TypeOK
  <1>b. run[r].standalone \in BOOLEAN
    BY <1>0 DEF Process
  <1>p. pkg \in [Version -> Package]
    BY <1>0 DEF TypeOK
  <1>s. \A v \in Version : pkg[v].manifest = 4 /\ pkg[v].shards => pkg[v].assets
    BY DEF IInv, PackageShape
  <1>9. Advance(r)
    <2>1. CASE Finish(r, FALSE, FALSE)
      <3>1. /\ run' \in [Runtime -> Process]
            /\ run'[r].pc = "loaded" /\ run'[r].key = run[r].key
            /\ run'[r].line = FALSE /\ run'[r].mapped = FALSE
            /\ \A s \in Runtime \ {r} : run'[s] = run[s]
            /\ UNCHANGED <<source, program, history>>
        BY <1>0, <1>b, <2>1, FinishFacts DEF LoadBare
      <3>2. ProcessOf(r)'
        BY <1>0, <2>1, <3>1 DEF LoadBare, ProcessOf
      <3>3. StepOf(r)'
        BY <1>0, <1>p, <2>1, <3>1 DEF LoadBare, StepOf, ProcessOf
      <3> QED
        BY <1>0, <1>p, <1>s, <2>1, <3>1, <3>2, <3>3 DEF LoadBare, Advance, ProcessOf, Writing
    <2> QED
      BY <2>1 DEF LoadBare
  <1> QED
    BY <1>9

\* A package is loaded without its source.
LEMMA LoadStandaloneAdvances ==
  ASSUME IInv, NEW r \in Runtime, LoadStandalone(r)
  PROVE  Advance(r)
  <1>0. TypeOK /\ ProcessOf(r) /\ StepOf(r) /\ run[r] \in Process
    BY DEF IInv, ProcessShape, TypeOK
  <1>b. run[r].standalone \in BOOLEAN
    BY <1>0 DEF Process
  <1>p. pkg \in [Version -> Package]
    BY <1>0 DEF TypeOK
  <1>s. \A v \in Version : pkg[v].manifest = 4 /\ pkg[v].shards => pkg[v].assets
    BY DEF IInv, PackageShape
  <1>9. Advance(r)
    <2>1. CASE Finish(r, TRUE, FALSE)
      <3>1. /\ run' \in [Runtime -> Process]
            /\ run'[r].pc = "loaded" /\ run'[r].key = run[r].key
            /\ run'[r].line = FALSE /\ run'[r].mapped = TRUE
            /\ \A s \in Runtime \ {r} : run'[s] = run[s]
            /\ UNCHANGED <<source, program, history>>
        BY <1>0, <1>b, <2>1, FinishFacts DEF LoadStandalone
      <3>2. ProcessOf(r)'
        BY <1>0, <2>1, <3>1 DEF LoadStandalone, ProcessOf
      <3>3. StepOf(r)'
        BY <1>0, <1>p, <2>1, <3>1 DEF LoadStandalone, StepOf, ProcessOf
      <3> QED
        BY <1>0, <1>p, <1>s, <2>1, <3>1, <3>2, <3>3 DEF LoadStandalone, Advance, ProcessOf, Writing
    <2> QED
      BY <2>1 DEF LoadStandalone
  <1> QED
    BY <1>9

\* The server listens.
LEMMA ListenAdvances ==
  ASSUME IInv, NEW r \in Runtime, Listen(r)
  PROVE  Advance(r)
  <1>0. TypeOK /\ ProcessOf(r) /\ StepOf(r) /\ run[r] \in Process
    BY DEF IInv, ProcessShape, TypeOK
  <1>b. run[r].standalone \in BOOLEAN
    BY <1>0 DEF Process
  <1>p. pkg \in [Version -> Package]
    BY <1>0 DEF TypeOK
  <1>s. \A v \in Version : pkg[v].manifest = 4 /\ pkg[v].shards => pkg[v].assets
    BY DEF IInv, PackageShape
  <1>9. Advance(r)
    <2>1. CASE Goto(r, "listening")
      <3>1. /\ run' \in [Runtime -> Process]
            /\ run'[r].pc = "listening" /\ run'[r].key = run[r].key
            /\ run'[r].standalone = run[r].standalone
            /\ run'[r].line = run[r].line /\ run'[r].mapped = run[r].mapped
            /\ \A s \in Runtime \ {r} : run'[s] = run[s]
            /\ UNCHANGED <<source, program, history>>
        BY <1>0, <1>b, <2>1, GotoFacts DEF Listen
      <3>2. ProcessOf(r)'
        BY <1>0, <2>1, <3>1 DEF Listen, ProcessOf
      <3>3. StepOf(r)'
        BY <1>0, <1>p, <2>1, <3>1 DEF Listen, StepOf, ProcessOf
      <3> QED
        BY <1>0, <1>p, <1>s, <2>1, <3>1, <3>2, <3>3 DEF Listen, Advance, ProcessOf, Writing
    <2> QED
      BY <2>1 DEF Listen
  <1> QED
    BY <1>9

\* A process ends.
LEMMA EndAdvances ==
  ASSUME IInv, NEW r \in Runtime, End(r)
  PROVE  Advance(r)
  <1>0. TypeOK /\ ProcessOf(r) /\ StepOf(r) /\ run[r] \in Process
    BY DEF IInv, ProcessShape, TypeOK
  <1>b. run[r].standalone \in BOOLEAN
    BY <1>0 DEF Process
  <1>p. pkg \in [Version -> Package]
    BY <1>0 DEF TypeOK
  <1>s. \A v \in Version : pkg[v].manifest = 4 /\ pkg[v].shards => pkg[v].assets
    BY DEF IInv, PackageShape
  <1>9. Advance(r)
    <2>1. CASE Goto(r, "ended")
      <3>1. /\ run' \in [Runtime -> Process]
            /\ run'[r].pc = "ended" /\ run'[r].key = run[r].key
            /\ run'[r].standalone = run[r].standalone
            /\ run'[r].line = run[r].line /\ run'[r].mapped = run[r].mapped
            /\ \A s \in Runtime \ {r} : run'[s] = run[s]
            /\ UNCHANGED <<source, program, history>>
        BY <1>0, <1>b, <2>1, GotoFacts DEF End
      <3>2. ProcessOf(r)'
        BY <1>0, <2>1, <3>1 DEF End, ProcessOf
      <3>3. StepOf(r)'
        BY <1>0, <1>p, <2>1, <3>1 DEF End, StepOf, ProcessOf
      <3> QED
        BY <1>0, <1>p, <1>s, <2>1, <3>1, <3>2, <3>3 DEF End, Advance, ProcessOf, Writing
    <2> QED
      BY <2>1 DEF End
  <1> QED
    BY <1>9

-----------------------------------------------------------------------------
(* Starts                                                                  *)

USE DEF Removal, Off

\* The invariant holds of a directory with the source, and perhaps a package of
\* an earlier version of the program.
LEMMA InitIInv == Init => IInv
  <1> SUFFICES ASSUME Init PROVE IInv
    OBVIOUS
  <1>1. PICK p \in {Absent, Legacy} :
          pkg = [v \in Version |-> IF v = source THEN p ELSE Absent]
    BY DEF Init
  <1>2. Absent \in Package /\ Legacy \in Package /\ Unused \in Process
    BY DEF Absent, Legacy, Unused, Package, Process
  <1>3. pkg \in [Version -> Package]
    BY <1>1, <1>2
  <1>4. TypeOK
    BY <1>2, <1>3 DEF Init, TypeOK, Watch
  <1>5. \A v \in Version : /\ pkg[v].manifest \in {0, 3}
                           /\ pkg[v].manifest # 0 => v = source
    BY <1>1 DEF Absent, Legacy
  <1>6. \A r \in Runtime :
          /\ run[r].pc = "unused" /\ run[r].key = None /\ monitor[r].pc = "off"
          /\ ~run[r].standalone /\ ~run[r].line /\ ~run[r].mapped
    BY DEF Init, Unused
  <1>c. cmd = None /\ deleter = None
    BY DEF Init
  <1>7. OneAtATime
    BY <1>6, <1>c DEF OneAtATime
  <1>8. ProcessShape
    BY <1>6 DEF ProcessShape, ProcessOf, StepOf
  <1>9. PackageShape /\ MappedShape
    BY <1>5, <1>6 DEF Init, PackageShape, MappedShape
  <1>10. RemovalShape /\ OnlyLoadedIsRemoved
    BY <1>6 DEF Init, RemovalShape, OnlyLoadedIsRemoved
  <1>11. LegacyIsOld
    BY <1>5, <1>6 DEF Init, LegacyIsOld
  <1>12. Undisturbed
    BY <1>6 DEF Init, Undisturbed, LatestSurvives
  <1> QED
    BY <1>4, <1>7, <1>8, <1>9, <1>10, <1>11, <1>12 DEF IInv

\* A start: no other mlx-server prepares, no deletion and, with Prompt, no
\* removal is on.
LEMMA LaunchIInv ==
  ASSUME IInv, NEW r \in Runtime, NEW process \in Process,
         NEW removal \in Removal \cup {None}, Launch(r, process, removal),
         process.pc \in {"planning", "bare", "standalone"},
         ~process.mapped, ~process.line, ~process.standalone,
         process.pc = "standalone" =>
           process.key \in Version /\ Standalone(pkg[process.key]),
         process.pc # "standalone" => process.key = None /\ source # None,
         removal # None =>
           removal.of = source /\ ~removal.loaded /\ process.key = None
  PROVE  IInv'
  <1> USE DEF IInv
  <1>1. /\ cmd = None /\ run[r].pc = "unused" /\ cmd' = r /\ pending' = removal
        /\ r # None /\ ready' = FALSE
        /\ UNCHANGED <<source, pkg, removeOriginal, deleter, history>>
        /\ Unlocked /\ Calm /\ Settled
    BY DEF Launch
  <1>2. run' \in [Runtime -> Process] /\ run'[r] = process
        /\ \A s \in Runtime \ {r} : run'[s] = run[s]
    BY DEF Launch, TypeOK
  <1>3. /\ monitor' \in [Runtime -> Watch]
        /\ monitor'[r].pc = "watching"
        /\ \A s \in Runtime \ {r} : monitor'[s] = monitor[s]
    <2>1. [pc |-> "watching", of |-> None] \in Watch
      BY DEF Watch
    <2> QED
      BY <2>1 DEF Launch, TypeOK
  <1>4. \A s \in Runtime \ {r} : run[s].pc \notin Preparing
    BY <1>1 DEF Settled
  <1>5. TypeOK'
    BY <1>1, <1>2, <1>3 DEF TypeOK
  <1>6. OneAtATime'
    <2>1. ASSUME NEW s \in Runtime, run'[s].pc = "unused"
          PROVE  monitor'[s].pc = "off" /\ cmd' # s
      <3>1. s # r /\ OneAtATime
        BY <1>2, <2>1
      <3>2. run'[s] = run[s] /\ monitor'[s] = monitor[s] /\ cmd' # s
        BY <1>1, <1>2, <1>3, <3>1
      <3> HIDE DEF IInv
      <3> QED
        BY <2>1, <3>1, <3>2 DEF OneAtATime
    <2>2. \A s \in Runtime : run'[s].pc \in Preparing => s = r
      BY <1>2, <1>4
    <2>3. Unlocked'
      BY <1>1
    <2> HIDE DEF Unlocked, IInv
    <2> QED
      BY <1>1, <2>1, <2>2, <2>3 DEF OneAtATime
  <1>7. ProcessShape'
    <2> SUFFICES ASSUME NEW s \in Runtime PROVE (ProcessOf(s) /\ StepOf(s))'
      BY DEF ProcessShape
    <2>1. CASE s = r
      BY <1>1, <1>2, <2>1 DEF ProcessOf, StepOf
    <2>2. CASE s # r
      <3>1. ProcessOf(s) /\ StepOf(s) /\ run'[s] = run[s] /\ pkg' = pkg
        BY <1>1, <1>2, <2>2 DEF ProcessShape
      <3> HIDE DEF IInv
      <3>2. ProcessOf(s)'
        BY <3>1 DEF ProcessOf
      <3>3. StepOf(s)'
        BY <3>1 DEF StepOf
      <3> QED
        BY <3>2, <3>3
    <2> QED
      BY <2>1, <2>2
  <1>8. PackageShape'
    BY <1>1 DEF PackageShape
  <1>9. MappedShape'
    BY <1>1, <1>2 DEF MappedShape
  <1>10. RemovalShape'
    BY <1>1, <1>2, <1>3 DEF RemovalShape, LegacyIsOld
  <1>11. OnlyLoadedIsRemoved'
    BY <1>1, <1>2, <1>3 DEF OnlyLoadedIsRemoved
  <1>12. LegacyIsOld'
    <2>1. process.key \in used \cup {None}
      BY DEF LegacyIsOld
    <2> QED
      BY <1>1, <1>2, <2>1 DEF LegacyIsOld
  <1>13. Undisturbed'
    <2> SUFFICES ASSUME Prompt PROVE Undisturbed'
      BY DEF Undisturbed
    <2>1. \A s \in Runtime : monitor'[s].pc \notin Window
      BY <1>1, <1>3 DEF Calm, InRemoval
    <2> QED
      BY <1>1, <1>2, <1>4, <2>1 DEF Undisturbed, LatestSurvives
  <1> QED
    BY <1>5, <1>6, <1>7, <1>8, <1>9, <1>10, <1>11, <1>12, <1>13

\* A start from the GGUF.
LEMMA StartSourceIInv ==
  ASSUME IInv, NEW r \in Runtime, NEW skip \in BOOLEAN, StartSource(r, skip)
  PROVE  IInv'
  <1> DEFINE process == [Unused EXCEPT !.pc = IF skip THEN "bare" ELSE "planning"]
  <1> DEFINE removal == IF removeOriginal /\ ~skip
                        THEN [of |-> source, loaded |-> FALSE] ELSE None
  <1>1. source \in Version
    BY DEF StartSource, IInv, TypeOK
  <1>2. removal \in Removal \cup {None}
    BY <1>1
  <1>3. /\ process \in Process
        /\ process.pc \in {"planning", "bare"}
        /\ process.key = None
        /\ ~process.mapped /\ ~process.line /\ ~process.standalone
    BY DEF Unused, Process
  <1>4. Launch(r, process, removal)
    BY DEF StartSource
  <1>5. removal # None => removal.of = source /\ ~removal.loaded
    OBVIOUS
  <1> HIDE DEF process, removal
  <1> QED
    BY <1>1, <1>2, <1>3, <1>4, <1>5, LaunchIInv

\* A start from a package whose source is gone.
LEMMA StartFallbackIInv ==
  ASSUME IInv, NEW r \in Runtime, NEW v \in Version, StartFallback(r, v)
  PROVE  IInv'
  <1> DEFINE process == [Unused EXCEPT !.pc = "standalone", !.key = v]
  <1>1. /\ process \in Process
        /\ process.pc = "standalone" /\ process.key = v
        /\ ~process.mapped /\ ~process.line /\ ~process.standalone
    BY DEF Unused, Process
  <1>2. Launch(r, process, None) /\ Standalone(pkg[v])
    BY DEF StartFallback
  <1> HIDE DEF process
  <1> QED
    BY <1>1, <1>2, LaunchIInv

-----------------------------------------------------------------------------
(* The manager                                                             *)

\* The manager reads the line of one that has mapped its package.
LEMMA OutputIInv ==
  ASSUME IInv, NEW r \in Runtime, Output(r)
  PROVE  IInv'
  <1> USE DEF IInv
  <1>a. /\ Unlocked /\ run[r].line /\ run[r].mapped
        /\ UNCHANGED <<source, pkg, cmd, ready, removeOriginal, monitor, deleter, history>>
    BY DEF Output, ProcessShape, ProcessOf
  <1>b. /\ run' \in [Runtime -> Process]
        /\ \A s \in Runtime : /\ run'[s].pc = run[s].pc /\ run'[s].key = run[s].key
                              /\ run'[s].standalone = run[s].standalone
                              /\ run'[s].mapped = run[s].mapped
                              /\ run'[s].line => run[s].line
    <2>0. run[r] \in Process
      BY DEF TypeOK
    <2>1. [run[r] EXCEPT !.line = FALSE] \in Process
      <3> HIDE DEF IInv
      <3> QED
        BY <2>0 DEF Process
    <2>2. /\ run' \in [Runtime -> Process]
          /\ run'[r] = [run[r] EXCEPT !.line = FALSE]
          /\ \A s \in Runtime \ {r} : run'[s] = run[s]
      BY <2>1 DEF Output, TypeOK
    <2> HIDE DEF IInv
    <2>3. ASSUME NEW s \in Runtime
          PROVE  /\ run'[s].pc = run[s].pc /\ run'[s].key = run[s].key
                 /\ run'[s].standalone = run[s].standalone
                 /\ run'[s].mapped = run[s].mapped
                 /\ run'[s].line => run[s].line
      <3>1. CASE s = r
        BY <2>0, <2>2, <3>1 DEF Process
      <3>2. CASE s # r
        BY <2>2, <3>2
      <3> QED
        BY <3>1, <3>2
    <2> QED
      BY <2>2, <2>3
  <1>c. \/ pending' = pending
        \/ /\ cmd = r /\ pending # None
           /\ pending' \in Removal /\ pending'.of = pending.of
    <2>1. CASE cmd = r /\ ~ready /\ pending # None
      <3>1. pending \in Removal /\ pending' = [pending EXCEPT !.loaded = TRUE]
        BY <2>1 DEF Output, TypeOK
      <3>2. pending' \in Removal /\ pending'.of = pending.of
        BY <3>1
      <3> QED
        BY <2>1, <3>2
    <2>2. CASE ~(cmd = r /\ ~ready /\ pending # None)
      BY <2>2 DEF Output
    <2> QED
      BY <2>1, <2>2
  <1>1. TypeOK'
    BY <1>a, <1>b, <1>c DEF TypeOK
  <1>2. OneAtATime'
    BY <1>a, <1>b, <1>c DEF OneAtATime
  <1>3. ProcessShape'
    <2> SUFFICES ASSUME NEW s \in Runtime PROVE (ProcessOf(s) /\ StepOf(s))'
      BY DEF ProcessShape
    <2>1. ProcessOf(s) /\ StepOf(s)
      BY DEF ProcessShape
    <2>2. ProcessOf(s)'
      BY <1>a, <1>b, <2>1 DEF ProcessOf
    <2>3. StepOf(s)'
      BY <1>a, <1>b, <2>1 DEF StepOf
    <2> QED
      BY <2>2, <2>3
  <1>4. PackageShape'
    BY <1>a, <1>b, <1>c DEF PackageShape
  <1>5. MappedShape'
    BY <1>a, <1>b, <1>c DEF MappedShape
  <1>6. RemovalShape'
    BY <1>a, <1>b, <1>c DEF RemovalShape
  <1>7. OnlyLoadedIsRemoved'
    BY <1>a, <1>b, <1>c DEF OnlyLoadedIsRemoved
  <1>8. LegacyIsOld'
    BY <1>a, <1>b, <1>c DEF LegacyIsOld
  <1>9. Undisturbed'
    BY <1>a, <1>b, <1>c DEF Undisturbed, LatestSurvives
  <1> QED
    BY <1>1, <1>2, <1>3, <1>4, <1>5, <1>6, <1>7, <1>8, <1>9

\* The manager sees the end of its child.
LEMMA WaitIInv ==
  ASSUME IInv, NEW r \in Runtime, Wait(r)
  PROVE  IInv'
  <1> USE DEF IInv
  <1>a. /\ cmd' = None /\ ready' = FALSE /\ pending' = None /\ Unlocked
        /\ run[r].pc = "ended" /\ cmd = r
        /\ UNCHANGED <<source, pkg, run, removeOriginal, monitor, deleter, history>>
    BY DEF Wait
  <1>1. TypeOK'
    BY <1>a DEF TypeOK
  <1>2. OneAtATime'
    BY <1>a DEF OneAtATime
  <1>3. ProcessShape'
    BY <1>a DEF ProcessShape, ProcessOf, StepOf
  <1>4. PackageShape'
    BY <1>a DEF PackageShape
  <1>5. MappedShape'
    BY <1>a DEF MappedShape
  <1>6. RemovalShape'
    BY <1>a DEF RemovalShape
  <1>7. OnlyLoadedIsRemoved'
    BY <1>a DEF OnlyLoadedIsRemoved
  <1>8. LegacyIsOld'
    BY <1>a DEF LegacyIsOld
  <1>9. Undisturbed'
    BY <1>a DEF Undisturbed, LatestSurvives
  <1> QED
    BY <1>1, <1>2, <1>3, <1>4, <1>5, <1>6, <1>7, <1>8, <1>9

\* The server answers: a removal stands on what is mapped.
LEMMA MonitorSettleIInv ==
  ASSUME IInv, NEW r \in Runtime, MonitorSettle(r)
  PROVE  IInv'
  <1> USE DEF IInv
  <1>a. /\ Unlocked /\ cmd = r /\ ready' = TRUE /\ pending' = None
        /\ monitor[r].pc = "watching" /\ run[r].pc # "unused"
        /\ UNCHANGED <<source, pkg, run, cmd, removeOriginal, deleter, history>>
    BY DEF MonitorSettle, OneAtATime
  <1>b. /\ monitor' \in [Runtime -> Watch]
        /\ \A s \in Runtime \ {r} : monitor'[s] = monitor[s]
        /\ \/ monitor'[r].pc = "off"
           \/ /\ pending # None /\ pending.loaded /\ pending.of \in used
              /\ monitor'[r].pc = "identity" /\ monitor'[r].of = pending.of
    <2>1. CASE pending # None /\ pending.loaded /\ removeOriginal
      <3>1. [pc |-> "identity", of |-> pending.of] \in Watch
        BY <2>1 DEF TypeOK, Watch
      <3> QED
        BY <2>1, <3>1 DEF MonitorSettle, TypeOK, RemovalShape
    <2>2. CASE ~(pending # None /\ pending.loaded /\ removeOriginal)
      BY <2>2 DEF MonitorSettle, TypeOK, Watch
    <2> QED
      BY <2>1, <2>2
  <1>c. pending # None /\ pending.loaded =>
          /\ run[r].mapped /\ run[r].key \in Version
          /\ source = pending.of => run[r].key = pending.of
          /\ Contains(pkg[run[r].key])
          /\ \A s \in Runtime : run[s].pc \notin Preparing
    <2> SUFFICES ASSUME pending # None, pending.loaded
                 PROVE  /\ run[r].mapped /\ run[r].key \in Version
                        /\ source = pending.of => run[r].key = pending.of
                        /\ Contains(pkg[run[r].key])
                        /\ \A s \in Runtime : run[s].pc \notin Preparing
      OBVIOUS
    <2>1. run[r].mapped /\ run[r].key \in Version /\ run[r].pc \notin Preparing
      BY <1>a DEF RemovalShape, ProcessShape, ProcessOf
    <2>2. source = pending.of => run[r].key = pending.of
      BY <1>a, <2>1 DEF RemovalShape
    <2>3. Contains(pkg[run[r].key])
      BY <1>a, <2>1 DEF MappedShape
    <2>4. \A s \in Runtime : run[s].pc \notin Preparing
      BY <1>a, <2>1 DEF OneAtATime
    <2> QED
      BY <2>1, <2>2, <2>3, <2>4
  <1>1. TypeOK'
    BY <1>a, <1>b, <1>c DEF TypeOK
  <1>2. OneAtATime'
    BY <1>a, <1>b, <1>c DEF OneAtATime
  <1>3. ProcessShape'
    BY <1>a, ProcessFrame
  <1>4. PackageShape'
    BY <1>a, <1>b, <1>c DEF PackageShape
  <1>5. MappedShape'
    BY <1>a, <1>b, <1>c DEF MappedShape
  <1>6. RemovalShape'
    <2>1. RemovalShape /\ ProcessShape
      OBVIOUS
    <2> HIDE DEF IInv
    <2>2. ASSUME NEW s \in Runtime
          PROVE  /\ monitor'[s].pc \in Window => run'[s].mapped /\ monitor'[s].of \in used'
                 /\ monitor'[s].pc = "identity" /\ source' = monitor'[s].of =>
                      run'[s].key = monitor'[s].of
      <3>1. CASE s = r
        BY <1>a, <1>b, <1>c, <3>1
      <3>2. CASE s # r
        BY <1>a, <1>b, <2>1, <3>2 DEF RemovalShape
      <3> QED
        BY <3>1, <3>2
    <2> QED
      BY <1>a, <2>2 DEF RemovalShape
  <1>7. OnlyLoadedIsRemoved'
    BY <1>a, <1>b, <1>c DEF OnlyLoadedIsRemoved
  <1>8. LegacyIsOld'
    BY <1>a, <1>b, <1>c DEF LegacyIsOld
  <1>9. Undisturbed'
    <2>1. Undisturbed
      OBVIOUS
    <2> HIDE DEF IInv
    <2>2. Prompt => \A s \in Runtime : monitor'[s].pc \in Window =>
            /\ Unlocked
            /\ \A t \in Runtime : run[t].pc \notin Preparing
            /\ Contains(pkg[run[s].key])
      BY <1>a, <1>b, <1>c, <2>1 DEF Undisturbed
    <2>3. Prompt => \A s \in Runtime :
            monitor'[s].pc \in {"package", "remove"} => source \in {monitor'[s].of, None}
      BY <1>a, <1>b, <1>c, <2>1 DEF Undisturbed
    <2>4. Prompt => \A s \in Runtime :
            monitor'[s].pc = "remove" => source = None \/ Standalone(pkg[source])
      BY <1>a, <1>b, <1>c, <2>1 DEF Undisturbed
    <2> HIDE DEF Window, Unlocked, Contains, Standalone, Preparing
    <2> QED
      BY <1>a, <2>1, <2>2, <2>3, <2>4, UndisturbedFrame
  <1> QED
    BY <1>1, <1>2, <1>3, <1>4, <1>5, <1>6, <1>7, <1>8, <1>9

\* A monitor finds its child gone.
LEMMA MonitorLeaveIInv ==
  ASSUME IInv, NEW r \in Runtime, MonitorLeave(r)
  PROVE  IInv'
  <1> USE DEF IInv
  <1>a. /\ monitor' \in [Runtime -> Watch]
        /\ monitor'[r].pc = "off"
        /\ \A s \in Runtime \ {r} : monitor'[s] = monitor[s]
        /\ UNCHANGED <<source, pkg, run, cmd, ready, pending, removeOriginal, deleter, history>>
    BY DEF MonitorLeave, TypeOK, Watch
  <1>1. TypeOK'
    BY <1>a DEF TypeOK
  <1>2. OneAtATime'
    BY <1>a DEF OneAtATime
  <1>3. ProcessShape'
    BY <1>a, ProcessFrame
  <1>4. PackageShape'
    BY <1>a DEF PackageShape
  <1>5. MappedShape'
    BY <1>a DEF MappedShape
  <1>6. RemovalShape'
    BY <1>a DEF RemovalShape
  <1>7. OnlyLoadedIsRemoved'
    BY <1>a DEF OnlyLoadedIsRemoved
  <1>8. LegacyIsOld'
    BY <1>a DEF LegacyIsOld
  <1>9. Undisturbed'
    <2>1. Undisturbed
      OBVIOUS
    <2> HIDE DEF IInv
    <2>2. Prompt => \A s \in Runtime : monitor'[s].pc \in Window =>
            /\ Unlocked
            /\ \A t \in Runtime : run[t].pc \notin Preparing
            /\ Contains(pkg[run[s].key])
      BY <1>a, <2>1 DEF Undisturbed
    <2>3. Prompt => \A s \in Runtime :
            monitor'[s].pc \in {"package", "remove"} => source \in {monitor'[s].of, None}
      BY <1>a, <2>1 DEF Undisturbed
    <2>4. Prompt => \A s \in Runtime :
            monitor'[s].pc = "remove" => source = None \/ Standalone(pkg[source])
      BY <1>a, <2>1 DEF Undisturbed
    <2> HIDE DEF Window, Unlocked, Contains, Standalone, Preparing
    <2> QED
      BY <1>a, <2>1, <2>2, <2>3, <2>4, UndisturbedFrame
  <1> QED
    BY <1>1, <1>2, <1>3, <1>4, <1>5, <1>6, <1>7, <1>8, <1>9

\* The file is still the one that was started from.
LEMMA RemovalIdentityIInv ==
  ASSUME IInv, NEW r \in Runtime, RemovalIdentity(r)
  PROVE  IInv'
  <1> USE DEF IInv
  <1>a. /\ monitor[r].pc = "identity"
        /\ UNCHANGED <<source, pkg, run, cmd, ready, pending, removeOriginal, deleter, history>>
    BY DEF RemovalIdentity, Proceed
  <1>b. /\ monitor' \in [Runtime -> Watch]
        /\ \A s \in Runtime \ {r} : monitor'[s] = monitor[s]
        /\ \/ monitor'[r].pc = "off"
           \/ /\ monitor'[r].pc = "package" /\ monitor'[r].of = monitor[r].of
              /\ source = monitor[r].of
    BY DEF RemovalIdentity, Proceed, TypeOK, Watch
  <1>c. run[r].mapped /\ (source = monitor[r].of => run[r].key = monitor[r].of)
    BY <1>a DEF RemovalShape
  <1>1. TypeOK'
    BY <1>a, <1>b, <1>c DEF TypeOK
  <1>2. OneAtATime'
    BY <1>a, <1>b, <1>c DEF OneAtATime
  <1>3. ProcessShape'
    BY <1>a, ProcessFrame
  <1>4. PackageShape'
    BY <1>a, <1>b, <1>c DEF PackageShape
  <1>5. MappedShape'
    BY <1>a, <1>b, <1>c DEF MappedShape
  <1>6. RemovalShape'
    BY <1>a, <1>b, <1>c DEF RemovalShape
  <1>7. OnlyLoadedIsRemoved'
    BY <1>a, <1>b, <1>c DEF OnlyLoadedIsRemoved
  <1>8. LegacyIsOld'
    BY <1>a, <1>b, <1>c DEF LegacyIsOld
  <1>9. Undisturbed'
    <2>1. Undisturbed
      OBVIOUS
    <2> HIDE DEF IInv
    <2>2. Prompt => \A s \in Runtime : monitor'[s].pc \in Window =>
            /\ Unlocked
            /\ \A t \in Runtime : run[t].pc \notin Preparing
            /\ Contains(pkg[run[s].key])
      BY <1>a, <1>b, <2>1 DEF Undisturbed
    <2>3. Prompt => \A s \in Runtime :
            monitor'[s].pc \in {"package", "remove"} => source \in {monitor'[s].of, None}
      BY <1>a, <1>b, <2>1 DEF Undisturbed
    <2>4. Prompt => \A s \in Runtime :
            monitor'[s].pc = "remove" => source = None \/ Standalone(pkg[source])
      BY <1>a, <1>b, <2>1 DEF Undisturbed
    <2> HIDE DEF Window, Unlocked, Contains, Standalone, Preparing
    <2> QED
      BY <1>a, <2>1, <2>2, <2>3, <2>4, UndisturbedFrame
  <1> QED
    BY <1>1, <1>2, <1>3, <1>4, <1>5, <1>6, <1>7, <1>8, <1>9

\* A package that starts alone is there.
LEMMA RemovalPackageIInv ==
  ASSUME IInv, NEW r \in Runtime, RemovalPackage(r)
  PROVE  IInv'
  <1> USE DEF IInv
  <1>a. /\ monitor[r].pc = "package"
        /\ UNCHANGED <<source, pkg, run, cmd, ready, pending, removeOriginal, deleter, history>>
    BY DEF RemovalPackage, Proceed
  <1>b. /\ monitor' \in [Runtime -> Watch]
        /\ \A s \in Runtime \ {r} : monitor'[s] = monitor[s]
        /\ \/ monitor'[r].pc = "off"
           \/ /\ monitor'[r].pc = "remove" /\ monitor'[r].of = monitor[r].of
              /\ \E v \in Version : Standalone(pkg[v])
    BY DEF RemovalPackage, Proceed, TypeOK, Watch
  <1>c. run[r].mapped /\ run[r].key = monitor[r].of /\ monitor[r].of \in used
    BY <1>a DEF RemovalShape, OnlyLoadedIsRemoved
  <1>d. Prompt /\ source # None /\ (\E v \in Version : Standalone(pkg[v])) =>
          Standalone(pkg[source])
    <2> SUFFICES ASSUME Prompt, source # None, NEW v \in Version, Standalone(pkg[v])
                 PROVE  Standalone(pkg[source])
      OBVIOUS
    <2>1. source = latest /\ source = run[r].key /\ source \in Version
      BY <1>a, <1>c DEF Undisturbed, LegacyIsOld, TypeOK
    <2>2. pkg[source].shards /\ pkg[source].manifest # 0
      BY <1>a, <2>1 DEF Undisturbed
    <2>3. pkg[source].manifest # 3
      BY <2>1 DEF LegacyIsOld
    <2>4. pkg[source].manifest = 4
      BY <2>1, <2>2, <2>3 DEF TypeOK, Package
    <2> QED
      BY <2>1, <2>2, <2>4 DEF PackageShape
  <1>1. TypeOK'
    BY <1>a, <1>b, <1>c, <1>d DEF TypeOK
  <1>2. OneAtATime'
    BY <1>a, <1>b, <1>c, <1>d DEF OneAtATime
  <1>3. ProcessShape'
    BY <1>a, ProcessFrame
  <1>4. PackageShape'
    BY <1>a, <1>b, <1>c, <1>d DEF PackageShape
  <1>5. MappedShape'
    BY <1>a, <1>b, <1>c, <1>d DEF MappedShape
  <1>6. RemovalShape'
    BY <1>a, <1>b, <1>c, <1>d DEF RemovalShape
  <1>7. OnlyLoadedIsRemoved'
    BY <1>a, <1>b, <1>c, <1>d DEF OnlyLoadedIsRemoved
  <1>8. LegacyIsOld'
    BY <1>a, <1>b, <1>c, <1>d DEF LegacyIsOld
  <1>9. Undisturbed'
    <2>1. Undisturbed
      OBVIOUS
    <2> HIDE DEF IInv
    <2>2. Prompt => \A s \in Runtime : monitor'[s].pc \in Window =>
            /\ Unlocked
            /\ \A t \in Runtime : run[t].pc \notin Preparing
            /\ Contains(pkg[run[s].key])
      BY <1>a, <1>b, <1>c, <1>d, <2>1 DEF Undisturbed
    <2>3. Prompt => \A s \in Runtime :
            monitor'[s].pc \in {"package", "remove"} => source \in {monitor'[s].of, None}
      BY <1>a, <1>b, <1>c, <1>d, <2>1 DEF Undisturbed
    <2>4. Prompt => \A s \in Runtime :
            monitor'[s].pc = "remove" => source = None \/ Standalone(pkg[source])
      BY <1>a, <1>b, <1>c, <1>d, <2>1 DEF Undisturbed
    <2> HIDE DEF Window, Unlocked, Contains, Standalone, Preparing
    <2> QED
      BY <1>a, <2>1, <2>2, <2>3, <2>4, UndisturbedFrame
  <1> QED
    BY <1>1, <1>2, <1>3, <1>4, <1>5, <1>6, <1>7, <1>8, <1>9

\* The original goes; with Prompt its package stays.
LEMMA RemovalRemoveIInv ==
  ASSUME IInv, NEW r \in Runtime, RemovalRemove(r)
  PROVE  IInv'
  <1> USE DEF IInv
  <1>a. /\ monitor[r].pc = "remove" /\ source' \in {source, None}
        /\ UNCHANGED <<pkg, run, cmd, ready, pending, removeOriginal, deleter, history>>
    BY DEF RemovalRemove
  <1>b. /\ monitor' \in [Runtime -> Watch]
        /\ monitor'[r].pc = "off"
        /\ \A s \in Runtime \ {r} : monitor'[s] = monitor[s]
    BY DEF RemovalRemove, TypeOK, Watch
  <1>c. /\ pending # None => pending.of # None
        /\ \A s \in Runtime : monitor[s].pc \in Window => monitor[s].of # None
    BY DEF TypeOK, RemovalShape
  <1>d. Prompt => /\ Unlocked /\ \A s \in Runtime : run[s].pc \notin Preparing
                  /\ source # None => source = latest /\ Standalone(pkg[source])
    BY <1>a DEF Undisturbed, LegacyIsOld
  <1>1. TypeOK'
    BY <1>a, <1>b, <1>c, <1>d DEF TypeOK
  <1>2. OneAtATime'
    BY <1>a, <1>b, <1>c, <1>d DEF OneAtATime
  <1>3. ProcessShape'
    BY <1>a, ProcessFrame
  <1>4. PackageShape'
    BY <1>a, <1>b, <1>c, <1>d DEF PackageShape
  <1>5. MappedShape'
    BY <1>a, <1>b, <1>c, <1>d DEF MappedShape
  <1>6. RemovalShape'
    BY <1>a, <1>b, <1>c, <1>d DEF RemovalShape
  <1>7. OnlyLoadedIsRemoved'
    BY <1>a, <1>b, <1>c, <1>d DEF OnlyLoadedIsRemoved
  <1>8. LegacyIsOld'
    BY <1>a, <1>b, <1>c, <1>d DEF LegacyIsOld
  <1>9. Undisturbed'
    <2> SUFFICES ASSUME Prompt PROVE Undisturbed'
      BY DEF Undisturbed
    <2>1. \A s \in Runtime : monitor'[s].pc \in Window =>
            /\ monitor'[s] = monitor[s] /\ Unlocked'
            /\ \A t \in Runtime : run'[t].pc \notin Preparing
            /\ Contains(pkg'[run'[s].key])
      BY <1>a, <1>b, <1>d DEF Undisturbed
    <2>2. \A s \in Runtime : monitor'[s].pc \in {"package", "remove"} =>
            source' \in {monitor'[s].of, None}
      BY <1>a, <1>b DEF Undisturbed
    <2>3. \A s \in Runtime : monitor'[s].pc = "remove" =>
            source' = None \/ Standalone(pkg'[source'])
      BY <1>a, <1>b, <1>d
    <2>4. LatestSurvives'
      <3>1. CASE source = None
        BY <1>a, <3>1 DEF Undisturbed, LatestSurvives
      <3>2. CASE source # None
        <4>1. Standalone(pkg[latest])
          BY <1>d, <3>2
        <4> QED
          BY <1>a, <4>1 DEF LatestSurvives
      <3> QED
        BY <3>1, <3>2
    <2>5. Unlocked' /\ \A t \in Runtime : run'[t].pc \notin Preparing
      BY <1>a, <1>d
    <2> HIDE DEF Unlocked, Preparing
    <2> QED
      BY <2>1, <2>2, <2>3, <2>4, <2>5 DEF Undisturbed
  <1> QED
    BY <1>1, <1>2, <1>3, <1>4, <1>5, <1>6, <1>7, <1>8, <1>9

\* A deletion takes the mutex while nothing runs and the source is there.
LEMMA DeleteBeginIInv ==
  ASSUME IInv, DeleteBegin
  PROVE  IInv'
  <1> USE DEF IInv
  <1>a. /\ Unlocked /\ Calm /\ Settled /\ cmd = None /\ source # None
        /\ UNCHANGED <<source, pkg, run, cmd, ready, pending, removeOriginal, monitor, history>>
    BY DEF DeleteBegin
  <1>b. deleter' \in Deletion /\ deleter'.part = "shards"
    <2> DEFINE left == {v \in Version : Listed(pkg[v])}
    <2>1. left # {} /\ deleter' \in NextDeletion(left)
      BY DEF DeleteBegin
    <2>2. PICK v \in left : deleter' = [left |-> left \ {v}, of |-> v, part |-> "shards"]
      BY <2>1 DEF NextDeletion
    <2> QED
      BY <2>2 DEF Deletion
  <1>c. \A r \in Runtime : run[r].pc \notin Preparing
    BY <1>a DEF Settled
  <1>d. Prompt => \A r \in Runtime : monitor[r].pc \notin Window
    BY <1>a DEF Calm, InRemoval
  <1>1. TypeOK'
    BY <1>a, <1>b, <1>c, <1>d DEF TypeOK
  <1>2. OneAtATime'
    BY <1>a, <1>b, <1>c, <1>d DEF OneAtATime
  <1>3. ProcessShape'
    BY <1>a, <1>b, <1>c, <1>d DEF ProcessShape, ProcessOf, StepOf
  <1>4. PackageShape'
    BY <1>a, <1>b, <1>c, <1>d DEF PackageShape
  <1>5. MappedShape'
    BY <1>a, <1>b, <1>c, <1>d DEF MappedShape
  <1>6. RemovalShape'
    BY <1>a, <1>b, <1>c, <1>d DEF RemovalShape
  <1>7. OnlyLoadedIsRemoved'
    BY <1>a, <1>b, <1>c, <1>d DEF OnlyLoadedIsRemoved
  <1>8. LegacyIsOld'
    BY <1>a, <1>b, <1>c, <1>d DEF LegacyIsOld
  <1>9. Undisturbed'
    BY <1>a, <1>b, <1>c, <1>d DEF Undisturbed, LatestSurvives
  <1> QED
    BY <1>1, <1>2, <1>3, <1>4, <1>5, <1>6, <1>7, <1>8, <1>9

\* What a package is after one of its parts was deleted.
LEMMA WithoutFacts ==
  ASSUME NEW p \in Package, NEW part \in {"shards", "assets", "manifest"},
         part # "shards" => ~p.shards
  PROVE  /\ Without(p, part) \in Package
         /\ Without(p, part).shards = (p.shards /\ part # "shards")
         /\ Without(p, part).manifest \in {0, p.manifest}
         /\ Without(p, part).manifest = 4 /\ Without(p, part).shards =>
              Without(p, part).assets
  <1>1. CASE part = "shards"
    <2>1. Without(p, part) = [p EXCEPT !.shards = FALSE]
      BY <1>1 DEF Without
    <2> QED
      BY <1>1, <2>1 DEF Package
  <1>2. CASE part = "assets"
    <2> DEFINE kept == p.assets /\ p.manifest # 4
    <2>1. Without(p, part) = [p EXCEPT !.assets = kept]
      BY <1>2 DEF Without
    <2>2. kept \in BOOLEAN
      OBVIOUS
    <2> HIDE DEF kept
    <2> QED
      BY <1>2, <2>1, <2>2 DEF Package
  <1>3. CASE part = "manifest"
    <2>1. Without(p, part) = [p EXCEPT !.manifest = 0]
      BY <1>3 DEF Without
    <2> QED
      BY <1>3, <2>1 DEF Package
  <1> QED
    BY <1>1, <1>2, <1>3

\* What a deletion of a file finds and leaves.
LEMMA DeletePartFacts ==
  ASSUME IInv, DeletePart
  PROVE  /\ deleter # None /\ deleter \in Deletion /\ deleter.of \in Version /\ cmd = None
         /\ UNCHANGED <<source, run, cmd, ready, pending, removeOriginal, monitor, history>>
         /\ \A r \in Runtime : run[r].pc \notin Preparing
         /\ pkg' \in [Version -> Package]
         /\ \A v \in Version \ {deleter.of} : pkg'[v] = pkg[v]
         /\ pkg'[deleter.of].shards = (pkg[deleter.of].shards /\ deleter.part # "shards")
         /\ pkg'[deleter.of].manifest \in {0, pkg[deleter.of].manifest}
         /\ pkg'[deleter.of].manifest = 4 /\ pkg'[deleter.of].shards =>
             pkg'[deleter.of].assets
  <1> USE DEF IInv
  <1>a. /\ deleter # None /\ deleter \in Deletion /\ deleter.of \in Version /\ cmd = None
        /\ UNCHANGED <<source, run, cmd, ready, pending, removeOriginal, monitor, history>>
        /\ \A r \in Runtime : run[r].pc \notin Preparing
    BY DEF DeletePart, OneAtATime, TypeOK, Deletion
  <1>b. /\ pkg' \in [Version -> Package]
        /\ \A v \in Version \ {deleter.of} : pkg'[v] = pkg[v]
        /\ pkg'[deleter.of].shards = (pkg[deleter.of].shards /\ deleter.part # "shards")
        /\ pkg'[deleter.of].manifest \in {0, pkg[deleter.of].manifest}
        /\ pkg'[deleter.of].manifest = 4 /\ pkg'[deleter.of].shards =>
             pkg'[deleter.of].assets
    <2> DEFINE p == pkg[deleter.of]
    <2>1. /\ p \in Package /\ pkg \in [Version -> Package]
          /\ deleter.part \in {"shards", "assets", "manifest"}
          /\ deleter.part # "shards" => ~p.shards
          /\ p.manifest = 4 /\ p.shards => p.assets
      BY <1>a DEF TypeOK, Deletion, PackageShape
    <2> HIDE DEF p
    <2> DEFINE q == Without(p, deleter.part)
    <2>2. /\ q \in Package
          /\ q.shards = (p.shards /\ deleter.part # "shards")
          /\ q.manifest \in {0, p.manifest}
          /\ q.manifest = 4 /\ q.shards => q.assets
      BY <2>1, WithoutFacts
    <2>3. pkg' = [pkg EXCEPT ![deleter.of] = q]
      BY DEF DeletePart, p
    <2> HIDE DEF q
    <2>4. /\ pkg' \in [Version -> Package] /\ pkg'[deleter.of] = q
          /\ \A v \in Version \ {deleter.of} : pkg'[v] = pkg[v]
      BY <1>a, <2>1, <2>2, <2>3
    <2> QED
      BY <2>2, <2>4 DEF p
  <1> QED
    BY <1>a, <1>b

\* A deletion removes a file.
LEMMA DeletePartIInv ==
  ASSUME IInv, DeletePart
  PROVE  IInv'
  <1> USE DEF IInv
  <1>a. /\ deleter # None /\ deleter \in Deletion /\ deleter.of \in Version /\ cmd = None
        /\ UNCHANGED <<source, run, cmd, ready, pending, removeOriginal, monitor, history>>
        /\ \A r \in Runtime : run[r].pc \notin Preparing
    BY DeletePartFacts
  <1>b. /\ pkg' \in [Version -> Package]
        /\ \A v \in Version \ {deleter.of} : pkg'[v] = pkg[v]
        /\ pkg'[deleter.of].shards = (pkg[deleter.of].shards /\ deleter.part # "shards")
        /\ pkg'[deleter.of].manifest \in {0, pkg[deleter.of].manifest}
        /\ pkg'[deleter.of].manifest = 4 /\ pkg'[deleter.of].shards =>
             pkg'[deleter.of].assets
    BY DeletePartFacts
  <1>c. /\ deleter' \in Deletion \cup {None}
        /\ deleter' # None /\ deleter'.part # "shards" =>
             deleter'.of = deleter.of /\ ~pkg'[deleter.of].shards
    <2>1. CASE deleter.part \in {"shards", "assets"}
      <3>1. ~pkg'[deleter.of].shards
        BY <1>a, <1>b, <2>1 DEF PackageShape
      <3>2. \/ deleter' = [deleter EXCEPT !.part = "assets"]
            \/ deleter' = [deleter EXCEPT !.part = "manifest"]
        BY <2>1 DEF DeletePart
      <3>3. deleter' \in Deletion /\ deleter'.of = deleter.of
        BY <1>a, <3>2 DEF Deletion
      <3> QED
        BY <3>1, <3>3
    <2>2. CASE deleter.part = "manifest"
      <3>1. deleter' \in NextDeletion(deleter.left) /\ deleter.left \in SUBSET Version
        BY <1>a, <2>2 DEF DeletePart, Deletion
      <3>2. CASE deleter.left = {}
        BY <3>1, <3>2 DEF NextDeletion
      <3>3. CASE deleter.left # {}
        <4>1. PICK v \in deleter.left :
                deleter' = [left |-> deleter.left \ {v}, of |-> v, part |-> "shards"]
          BY <3>1, <3>3 DEF NextDeletion
        <4> QED
          BY <3>1, <4>1 DEF Deletion
      <3> QED
        BY <3>2, <3>3
    <2> QED
      BY <1>a, <2>1, <2>2 DEF Deletion
  <1>d. Prompt => source # None /\ \A r \in Runtime : monitor[r].pc \notin Window
    BY <1>a DEF Undisturbed
  <1>e. \A v \in Version : pkg'[v].manifest \in {0, pkg[v].manifest}
    BY <1>b
  <1>f. latest \in Version
    BY DEF TypeOK
  <1>1. TypeOK'
    BY <1>a, <1>b, <1>c, <1>d, <1>e, <1>f DEF TypeOK
  <1>2. OneAtATime'
    BY <1>a, <1>b, <1>c, <1>d, <1>e, <1>f DEF OneAtATime
  <1>3. ProcessShape'
    BY <1>a, <1>b, <1>c, <1>d, <1>e, <1>f DEF ProcessShape, ProcessOf, StepOf
  <1>4. PackageShape'
    BY <1>a, <1>b, <1>c, <1>d, <1>e, <1>f DEF PackageShape
  <1>5. MappedShape'
    BY <1>a, <1>b, <1>c, <1>d, <1>e, <1>f DEF MappedShape
  <1>6. RemovalShape'
    BY <1>a, <1>b, <1>c, <1>d, <1>e, <1>f DEF RemovalShape
  <1>7. OnlyLoadedIsRemoved'
    BY <1>a, <1>b, <1>c, <1>d, <1>e, <1>f DEF OnlyLoadedIsRemoved
  <1>8. LegacyIsOld'
    <2>1. \A v \in Version : /\ pkg'[v].manifest # 0 => pkg[v].manifest # 0
                             /\ pkg'[v].manifest = 3 => pkg[v].manifest = 3
      BY <1>e
    <2>2. UNCHANGED <<source, run, latest, used>>
      BY <1>a
    <2>3. LegacyIsOld
      OBVIOUS
    <2> QED
      BY <1>f, <2>1, <2>2, <2>3 DEF LegacyIsOld
  <1>9. Undisturbed'
    BY <1>a, <1>b, <1>c, <1>d, <1>e, <1>f DEF Undisturbed, LatestSurvives, LegacyIsOld
  <1> QED
    BY <1>1, <1>2, <1>3, <1>4, <1>5, <1>6, <1>7, <1>8, <1>9

\* A deletion ends with an error.
LEMMA DeleteFailsIInv ==
  ASSUME IInv, DeleteFails
  PROVE  IInv'
  <1> USE DEF IInv
  <1>a. /\ deleter' = None
        /\ UNCHANGED <<source, pkg, run, cmd, ready, pending, removeOriginal, monitor, history>>
    BY DEF DeleteFails
  <1>1. TypeOK'
    BY <1>a DEF TypeOK
  <1>2. OneAtATime'
    BY <1>a DEF OneAtATime
  <1>3. ProcessShape'
    BY <1>a DEF ProcessShape, ProcessOf, StepOf
  <1>4. PackageShape'
    BY <1>a DEF PackageShape
  <1>5. MappedShape'
    BY <1>a DEF MappedShape
  <1>6. RemovalShape'
    BY <1>a DEF RemovalShape
  <1>7. OnlyLoadedIsRemoved'
    BY <1>a DEF OnlyLoadedIsRemoved
  <1>8. LegacyIsOld'
    BY <1>a DEF LegacyIsOld
  <1>9. Undisturbed'
    BY <1>a DEF Undisturbed, LatestSurvives
  <1> QED
    BY <1>1, <1>2, <1>3, <1>4, <1>5, <1>6, <1>7, <1>8, <1>9

\* The user deletes the GGUF.
LEMMA DeleteStoredModelIInv ==
  ASSUME IInv, DeleteStoredModel
  PROVE  IInv'
  <1> USE DEF IInv
  <1>a. /\ Unlocked /\ Calm /\ cmd = None /\ source' = None /\ discarded' = TRUE
        /\ UNCHANGED <<pkg, run, cmd, ready, pending, removeOriginal, monitor, deleter, latest, used>>
    BY DEF DeleteStoredModel
  <1>b. /\ Prompt => \A r \in Runtime : monitor[r].pc \notin Window
        /\ \A r \in Runtime : monitor[r].pc \in Window => monitor[r].of # None
    BY <1>a DEF Calm, InRemoval, RemovalShape, TypeOK
  <1>1. TypeOK'
    BY <1>a, <1>b DEF TypeOK
  <1>2. OneAtATime'
    BY <1>a, <1>b DEF OneAtATime
  <1>3. ProcessShape'
    BY <1>a, <1>b DEF ProcessShape, ProcessOf, StepOf
  <1>4. PackageShape'
    BY <1>a, <1>b DEF PackageShape
  <1>5. MappedShape'
    BY <1>a, <1>b DEF MappedShape
  <1>6. RemovalShape'
    BY <1>a, <1>b DEF RemovalShape
  <1>7. OnlyLoadedIsRemoved'
    BY <1>a, <1>b DEF OnlyLoadedIsRemoved
  <1>8. LegacyIsOld'
    BY <1>a, <1>b DEF LegacyIsOld
  <1>9. Undisturbed'
    BY <1>a, <1>b DEF Undisturbed, LatestSurvives
  <1> QED
    BY <1>1, <1>2, <1>3, <1>4, <1>5, <1>6, <1>7, <1>8, <1>9

\* A new GGUF arrives, of a content that no package has.
LEMMA DownloadIInv ==
  ASSUME IInv, NEW v \in Version, Download(v)
  PROVE  IInv'
  <1> USE DEF IInv
  <1>a. /\ Calm /\ v \notin used /\ source' = v /\ latest' = v
        /\ used' = used \cup {v} /\ discarded' = FALSE /\ v # None
        /\ UNCHANGED <<pkg, run, cmd, ready, pending, removeOriginal, monitor, deleter>>
    BY DEF Download
  <1>b. Prompt => \A r \in Runtime : monitor[r].pc \notin Window
    BY <1>a DEF Calm, InRemoval
  <1>1. TypeOK'
    BY <1>a, <1>b DEF TypeOK
  <1>2. OneAtATime'
    BY <1>a, <1>b DEF OneAtATime
  <1>3. ProcessShape'
    BY <1>a, <1>b DEF ProcessShape, ProcessOf, StepOf
  <1>4. PackageShape'
    BY <1>a, <1>b DEF PackageShape
  <1>5. MappedShape'
    BY <1>a, <1>b DEF MappedShape
  <1>6. RemovalShape'
    BY <1>a, <1>b DEF RemovalShape
  <1>7. OnlyLoadedIsRemoved'
    BY <1>a, <1>b DEF OnlyLoadedIsRemoved
  <1>8. LegacyIsOld'
    BY <1>a, <1>b DEF LegacyIsOld
  <1>9. Undisturbed'
    BY <1>a, <1>b DEF Undisturbed, LatestSurvives
  <1> QED
    BY <1>1, <1>2, <1>3, <1>4, <1>5, <1>6, <1>7, <1>8, <1>9

\* The user changes the setting.
LEMMA ChangeSettingIInv ==
  ASSUME IInv, ChangeSetting
  PROVE  IInv'
  <1> USE DEF IInv
  <1>a. /\ removeOriginal' \in BOOLEAN
        /\ UNCHANGED <<source, pkg, run, cmd, ready, pending, monitor, deleter, history>>
    BY DEF ChangeSetting, TypeOK
  <1>1. TypeOK'
    BY <1>a DEF TypeOK
  <1>2. OneAtATime'
    BY <1>a DEF OneAtATime
  <1>3. ProcessShape'
    BY <1>a DEF ProcessShape, ProcessOf, StepOf
  <1>4. PackageShape'
    BY <1>a DEF PackageShape
  <1>5. MappedShape'
    BY <1>a DEF MappedShape
  <1>6. RemovalShape'
    BY <1>a DEF RemovalShape
  <1>7. OnlyLoadedIsRemoved'
    BY <1>a DEF OnlyLoadedIsRemoved
  <1>8. LegacyIsOld'
    BY <1>a DEF LegacyIsOld
  <1>9. Undisturbed'
    BY <1>a DEF Undisturbed, LatestSurvives
  <1> QED
    BY <1>1, <1>2, <1>3, <1>4, <1>5, <1>6, <1>7, <1>8, <1>9

\* The program ends, its children do not.
LEMMA CrashIInv ==
  ASSUME IInv, Crash
  PROVE  IInv'
  <1> USE DEF IInv
  <1>a. /\ cmd' = None /\ ready' = FALSE /\ pending' = None /\ deleter' = None
        /\ UNCHANGED <<source, pkg, removeOriginal, history>>
    BY DEF Crash
  <1>b. /\ monitor' \in [Runtime -> Watch] /\ \A r \in Runtime : monitor'[r].pc = "off"
    BY DEF Crash, Watch
  <1>c. /\ run' \in [Runtime -> Process]
        /\ \A s \in Runtime : /\ run'[s].pc = run[s].pc /\ run'[s].key = run[s].key
                              /\ run'[s].standalone = run[s].standalone
                              /\ run'[s].mapped = run[s].mapped
                              /\ ~run'[s].line
    <2>1. ASSUME NEW s \in Runtime
          PROVE  run[s] \in Process /\ [run[s] EXCEPT !.line = FALSE] \in Process
      <3>1. run[s] \in Process
        BY DEF TypeOK
      <3> QED
        BY <3>1 DEF Process
    <2>2. /\ run' \in [Runtime -> Process]
          /\ \A s \in Runtime : run'[s] = [run[s] EXCEPT !.line = FALSE]
      BY <2>1 DEF Crash
    <2> HIDE DEF IInv
    <2>3. ASSUME NEW s \in Runtime
          PROVE  /\ run'[s].pc = run[s].pc /\ run'[s].key = run[s].key
                 /\ run'[s].standalone = run[s].standalone
                 /\ run'[s].mapped = run[s].mapped
                 /\ ~run'[s].line
      <3>1. run[s] \in Process /\ run'[s] = [run[s] EXCEPT !.line = FALSE]
        BY <2>1, <2>2
      <3> QED
        BY <3>1 DEF Process
    <2> QED
      BY <2>2, <2>3
  <1>1. TypeOK'
    BY <1>a, <1>b, <1>c DEF TypeOK
  <1>2. OneAtATime'
    BY <1>a, <1>b, <1>c DEF OneAtATime
  <1>3. ProcessShape'
    <2> SUFFICES ASSUME NEW s \in Runtime PROVE (ProcessOf(s) /\ StepOf(s))'
      BY DEF ProcessShape
    <2>1. ProcessOf(s) /\ StepOf(s)
      BY DEF ProcessShape
    <2>2. ProcessOf(s)'
      BY <1>a, <1>c, <2>1 DEF ProcessOf
    <2>3. StepOf(s)'
      BY <1>a, <1>c, <2>1 DEF StepOf
    <2> QED
      BY <2>2, <2>3
  <1>4. PackageShape'
    BY <1>a, <1>b, <1>c DEF PackageShape
  <1>5. MappedShape'
    BY <1>a, <1>b, <1>c DEF MappedShape
  <1>6. RemovalShape'
    BY <1>a, <1>b, <1>c DEF RemovalShape
  <1>7. OnlyLoadedIsRemoved'
    BY <1>a, <1>b, <1>c DEF OnlyLoadedIsRemoved
  <1>8. LegacyIsOld'
    BY <1>a, <1>b, <1>c DEF LegacyIsOld
  <1>9. Undisturbed'
    BY <1>a, <1>b, <1>c DEF Undisturbed, LatestSurvives
  <1> QED
    BY <1>1, <1>2, <1>3, <1>4, <1>5, <1>6, <1>7, <1>8, <1>9

\* Nothing changes.
LEMMA StutterIInv ==
  ASSUME IInv, UNCHANGED vars
  PROVE  IInv'
  <1> USE DEF IInv
  <1>a. UNCHANGED <<source, pkg, run, cmd, ready, pending, removeOriginal, monitor, deleter,
                    latest, used, discarded>>
    BY DEF vars
  <1>1. TypeOK'
    BY <1>a DEF TypeOK
  <1>2. OneAtATime'
    BY <1>a DEF OneAtATime
  <1>3. ProcessShape'
    BY <1>a DEF ProcessShape, ProcessOf, StepOf
  <1>4. PackageShape'
    BY <1>a DEF PackageShape
  <1>5. MappedShape'
    BY <1>a DEF MappedShape
  <1>6. RemovalShape'
    BY <1>a DEF RemovalShape
  <1>7. OnlyLoadedIsRemoved'
    BY <1>a DEF OnlyLoadedIsRemoved
  <1>8. LegacyIsOld'
    BY <1>a DEF LegacyIsOld
  <1>9. Undisturbed'
    BY <1>a DEF Undisturbed, LatestSurvives
  <1> QED
    BY <1>1, <1>2, <1>3, <1>4, <1>5, <1>6, <1>7, <1>8, <1>9

-----------------------------------------------------------------------------
(* Every step                                                              *)

\* What is no step of mlx-server and no deletion leaves the packages alone.
ManagerStep ==
  \/ \E r \in Runtime :
       \/ \E skip \in BOOLEAN : StartSource(r, skip)
       \/ \E v \in Version : StartFallback(r, v)
       \/ Output(r) \/ Wait(r)
       \/ MonitorSettle(r) \/ MonitorLeave(r)
       \/ RemovalIdentity(r) \/ RemovalPackage(r) \/ RemovalRemove(r)
  \/ DeleteBegin \/ DeleteFails
  \/ DeleteStoredModel
  \/ \E v \in Version : Download(v)
  \/ ChangeSetting
  \/ Crash
  \/ UNCHANGED vars

\* A step is one of a process, one of the manager or the removal of a part.
LEMMA StepKinds ==
  ASSUME IInv, [Next]_vars
  PROVE  (\E r \in Runtime : Advance(r)) \/ ManagerStep \/ DeletePart
  <1>1. ASSUME NEW r \in Runtime,
               Plan(r) \/ Ensure(r) \/ Upgrade(r) \/ Load(r) \/ Invalidate(r)
        PROVE  Advance(r)
    BY <1>1, PlanAdvances, EnsureAdvances, UpgradeAdvances, LoadAdvances,
       InvalidateAdvances
  <1>2. ASSUME NEW r \in Runtime,
               Convert(r) \/ Store(r) \/ StoreFails(r) \/ Reload(r)
        PROVE  Advance(r)
    BY <1>2, ConvertAdvances, StoreAdvances, StoreFailsAdvances, ReloadAdvances
  <1>3. ASSUME NEW r \in Runtime,
               LoadBare(r) \/ LoadStandalone(r) \/ Listen(r) \/ End(r)
        PROVE  Advance(r)
    BY <1>3, LoadBareAdvances, LoadStandaloneAdvances, ListenAdvances, EndAdvances
  <1> QED
    BY <1>1, <1>2, <1>3 DEF Next, ManagerStep

\* No step of the manager touches a package.
LEMMA ManagerKeepsPackages == ManagerStep => UNCHANGED pkg
  BY DEF ManagerStep, StartSource, StartFallback, Launch, Output, Wait,
         MonitorSettle, MonitorLeave, RemovalIdentity, RemovalPackage, Proceed,
         RemovalRemove, DeleteBegin, DeleteFails, DeleteStoredModel, Download,
         ChangeSetting, Crash, vars

\* Every step keeps the invariant.
LEMMA NextIInv == IInv /\ [Next]_vars => IInv'
  <1> SUFFICES ASSUME IInv, [Next]_vars PROVE IInv'
    OBVIOUS
  <1>1. ASSUME NEW r \in Runtime, Advance(r) PROVE IInv'
    BY <1>1, AdvanceIInv
  <1>2. CASE DeletePart
    BY <1>2, DeletePartIInv
  <1>3. ASSUME NEW r \in Runtime, NEW skip \in BOOLEAN, StartSource(r, skip) PROVE IInv'
    BY <1>3, StartSourceIInv
  <1>4. ASSUME NEW r \in Runtime, NEW v \in Version, StartFallback(r, v) PROVE IInv'
    BY <1>4, StartFallbackIInv
  <1>5. ASSUME NEW r \in Runtime,
               \/ Output(r) \/ Wait(r) \/ MonitorSettle(r) \/ MonitorLeave(r)
               \/ RemovalIdentity(r) \/ RemovalPackage(r) \/ RemovalRemove(r)
        PROVE  IInv'
    BY <1>5, OutputIInv, WaitIInv, MonitorSettleIInv, MonitorLeaveIInv,
       RemovalIdentityIInv, RemovalPackageIInv, RemovalRemoveIInv
  <1>6. CASE DeleteBegin \/ DeleteFails \/ DeleteStoredModel
    BY <1>6, DeleteBeginIInv, DeleteFailsIInv, DeleteStoredModelIInv
  <1>7. ASSUME NEW v \in Version, Download(v) PROVE IInv'
    BY <1>7, DownloadIInv
  <1>8. CASE ChangeSetting \/ Crash \/ UNCHANGED vars
    BY <1>8, ChangeSettingIInv, CrashIInv, StutterIInv
  <1> QED
    BY <1>1, <1>2, <1>3, <1>4, <1>5, <1>6, <1>7, <1>8, StepKinds DEF ManagerStep

-----------------------------------------------------------------------------
(* The theorems                                                            *)

\* The inductive invariant holds in every reachable state.
THEOREM FastGGUFInvariant == Spec => []IInv
  BY InitIInv, NextIInv, PTL DEF Spec

\* A removal stands on a package that was made from just this file and loaded.
THEOREM RemovalsAreEarned == Spec => []OnlyLoadedIsRemoved
  <1>1. IInv => OnlyLoadedIsRemoved
    BY DEF IInv
  <1> QED
    BY <1>1, FastGGUFInvariant, PTL

\* Where no request comes within a removal, neither a removal nor a deletion of
\* packages nor a crash takes the last thing a model can be loaded from.
THEOREM ModelIsNotLost ==
  ASSUME Prompt
  PROVE  Spec => []LatestSurvives
  <1>1. IInv => LatestSurvives
    BY DEF IInv, Undisturbed
  <1> QED
    BY <1>1, FastGGUFInvariant, PTL

\* The shards that the running mlx-server has mapped stay.
THEOREM MappedShardsStay == Spec => MappedStays
  <1> DEFINE A == \A r \in Runtime : cmd = r /\ run[r].pc \in Loaded /\ run[r].mapped
                    => pkg'[run[r].key].shards
  <1>1. IInv /\ [Next]_vars => [A]_vars
    <2> SUFFICES ASSUME IInv, [Next]_vars, NEW r \in Runtime, cmd = r,
                        run[r].pc \in Loaded, run[r].mapped
                 PROVE  pkg'[run[r].key].shards
      OBVIOUS
    <2>1. r # None /\ run[r].key \in Version
      BY DEF IInv, ProcessShape, ProcessOf
    <2>2. pkg[run[r].key].shards
      BY DEF IInv, MappedShape
    <2>3. ASSUME NEW s \in Runtime, Advance(s) PROVE pkg'[run[r].key] = pkg[run[r].key]
      <3>1. run[s].pc \notin Writing
        BY <2>1 DEF IInv, OneAtATime, Writing
      <3> QED
        BY <2>1, <2>3, <3>1 DEF Advance
    <2>4. CASE ManagerStep
      BY <2>2, <2>4, ManagerKeepsPackages
    <2>5. ~DeletePart
      BY <2>1, DeletePartFacts
    <2> QED
      BY <2>2, <2>3, <2>4, <2>5, StepKinds
  <1> QED
    BY <1>1, FastGGUFInvariant, PTL DEF Spec, MappedStays

\* A manifest of schema 4 is published when everything it names is there.
THEOREM PublishingIsLast == Spec => PublishedIsWhole
  <1> DEFINE A == \A v \in Version : pkg[v].manifest # 4 /\ pkg'[v].manifest = 4
                    => Standalone(pkg'[v])
  <1>1. IInv /\ [Next]_vars => [A]_vars
    <2> SUFFICES ASSUME IInv, [Next]_vars PROVE A
      OBVIOUS
    <2>1. ASSUME NEW s \in Runtime, Advance(s) PROVE A
      BY <2>1 DEF Advance
    <2>2. CASE ManagerStep
      BY <2>2, ManagerKeepsPackages
    <2>3. CASE DeletePart
      <3>1. \A v \in Version : pkg'[v].manifest \in {0, pkg[v].manifest}
        BY <2>3, DeletePartFacts
      <3> QED
        BY <3>1
    <2> QED
      BY <2>1, <2>2, <2>3, StepKinds
  <1> QED
    BY <1>1, FastGGUFInvariant, PTL DEF Spec, PublishedIsWhole
=============================================================================
