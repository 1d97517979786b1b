------------------------------ MODULE FastGGUF ------------------------------
(***************************************************************************)
(* One GGUF model that mlx-server converts to a Fast GGUF package beside   *)
(* it.  mlx-server (MLXGGUFConversionCache.swift) fills, upgrades, loads   *)
(* and invalidates the package; llamacpp.Manager starts it, reads its      *)
(* output, deletes packages on request and, when the user wants it,        *)
(* removes the original once the package has been loaded.  Afterwards the  *)
(* package is all that is left of the model.                               *)
(*                                                                         *)
(* A package is its shards, its runtime assets and its manifest.  Its key  *)
(* is computed from the content of the source (makePlan), so packages are  *)
(* indexed by the version of the source.  One conversion strategy is used. *)
(***************************************************************************)
EXTENDS Naturals

CONSTANTS
  Runtime,  \* mlx-server processes; bounds the number of starts
  Version,  \* contents the source file may have; each is downloaded once
  Prompt,   \* no request comes between the file operations of a removal
  None

ASSUME PromptIsBoolean == Prompt \in BOOLEAN
ASSUME NoneIsNew == None \notin Runtime \cup Version

VARIABLES
  source,    \* the content of the GGUF file, None when there is no file
  pkg,       \* the package of each version
  run,       \* each mlx-server
  cmd,       \* m.cmd, set exactly while m.status.Running
  ready,     \* m.status.Ready
  pending,   \* m.pendingGGUFRemoval
  removeOriginal, \* settings.RemoveOriginalGGUF
  monitor,   \* the monitorReady goroutine of each mlx-server
  deleter,   \* the call of DeleteGGUFConversionCache that holds m.mu
  latest,    \* history: what was downloaded last
  used,      \* history: the versions downloaded so far
  discarded  \* history: the user deleted the model since

program == <<cmd, ready, pending, removeOriginal, monitor, deleter>>
history == <<latest, used, discarded>>
vars == <<source, pkg, run, program, history>>

(* manifest is the schema of the manifest, 0 without one.  Schema 3 names  *)
(* no assets.                                                              *)
Package == [shards : BOOLEAN, assets : BOOLEAN, manifest : {0, 3, 4}]

Preparing == {"planning", "checking", "upgrading", "loading",
  "dropping shards", "dropping assets", "dropping manifest", "converting",
  "moving shards", "moving assets", "publishing", "stored", "bare",
  "standalone"}
Loaded == {"loaded", "listening"}

(* key is the package it works with, standalone is standaloneCacheReady,   *)
(* line says that "standalone=ready" was printed and not read yet, mapped  *)
(* that the weights come from the package.                                 *)
Process == [pc : {"unused", "ended"} \cup Preparing \cup Loaded,
            key : Version \cup {None},
            standalone : BOOLEAN, line : BOOLEAN, mapped : BOOLEAN]

Removal == [of : Version, loaded : BOOLEAN]

Watch == [pc : {"off", "watching", "identity", "package", "remove"},
          of : Version \cup {None}]

Deletion == [left : SUBSET Version, of : Version,
             part : {"shards", "assets", "manifest"}]

TypeOK ==
  /\ source \in Version \cup {None}
  /\ pkg \in [Version -> Package]
  /\ run \in [Runtime -> Process]
  /\ cmd \in Runtime \cup {None}
  /\ ready \in BOOLEAN
  /\ pending \in Removal \cup {None}
  /\ removeOriginal \in BOOLEAN
  /\ monitor \in [Runtime -> Watch]
  /\ deleter \in Deletion \cup {None}
  /\ latest \in Version
  /\ used \in SUBSET Version
  /\ discarded \in BOOLEAN

Absent == [shards |-> FALSE, assets |-> FALSE, manifest |-> 0]
Legacy == [shards |-> TRUE, assets |-> FALSE, manifest |-> 3]
Unused == [pc |-> "unused", key |-> None, standalone |-> FALSE,
           line |-> FALSE, mapped |-> FALSE]
Off == [pc |-> "off", of |-> None]

\* contains(plan:)
Contains(p) == p.shards /\ p.manifest # 0

\* readStandaloneFastGGUFPackage, without a Hugging Face config beside it
Standalone(p) == p.shards /\ p.assets /\ p.manifest = 4

\* What adjacentGGUFConversionCacheEntries lists
Listed(p) == p.shards /\ (p.manifest = 3 \/ (p.manifest = 4 /\ p.assets))

Init ==
  /\ source \in Version
  /\ pkg \in {[v \in Version |-> IF v = source THEN p ELSE Absent] :
                p \in {Absent, Legacy}}
  /\ run = [r \in Runtime |-> Unused]
  /\ cmd = None
  /\ ready = FALSE
  /\ pending = None
  /\ removeOriginal \in BOOLEAN
  /\ monitor = [r \in Runtime |-> Off]
  /\ deleter = None
  /\ latest = source
  /\ used = {source}
  /\ discarded = FALSE

Unlocked == deleter = None

\* A goroutine is between two file operations of removeOriginalGGUF.
InRemoval ==
  \E r \in Runtime : monitor[r].pc \in {"identity", "package", "remove"}
Calm == Prompt => ~InRemoval

(* A crash of Tanpopo leaves its mlx-server behind.  One that is still     *)
(* preparing ends at its next line of output, its pipe being closed, or    *)
(* finishes the renames it is at, before a new program comes that far.     *)
Settled == \A r \in Runtime : r # cmd => run[r].pc \notin Preparing

-----------------------------------------------------------------------------
(* Starting: startMLXLocked                                                *)

Launch(r, process, removal) ==
  /\ Unlocked /\ Calm /\ Settled
  /\ cmd = None
  /\ run[r].pc = "unused"
  /\ run' = [run EXCEPT ![r] = process]
  /\ cmd' = r
  /\ ready' = FALSE
  /\ pending' = removal
  /\ monitor' = [monitor EXCEPT ![r] = [pc |-> "watching", of |-> None]]
  /\ UNCHANGED <<source, pkg, removeOriginal, deleter, history>>

\* From the GGUF, with the cache or without (skipGGUFConversionCache).
StartSource(r, skip) ==
  /\ source # None
  /\ Launch(r, [Unused EXCEPT !.pc = IF skip THEN "bare" ELSE "planning"],
            IF removeOriginal /\ ~skip
            THEN [of |-> source, loaded |-> FALSE] ELSE None)

\* resolveFastGGUFFallbackManifest: the source is gone, a package is not.
StartFallback(r, v) ==
  /\ source = None
  /\ Standalone(pkg[v])
  /\ Launch(r, [Unused EXCEPT !.pc = "standalone", !.key = v], None)

-----------------------------------------------------------------------------
(* mlx-server.  It may end at any step, by a signal, an error or a crash.  *)

Step(r, process) ==
  /\ run' = [run EXCEPT ![r] = process]
  /\ UNCHANGED <<source, program, history>>

At(r, label) == run[r].pc = label
Goto(r, label) == Step(r, [run[r] EXCEPT !.pc = label])
Own(r) == pkg[run[r].key]
Write(r, package) == pkg' = [pkg EXCEPT ![run[r].key] = package]

\* Where the weights come from; the line tells the manager.
Finish(r, mapped, line) ==
  Step(r, [run[r] EXCEPT !.pc = "loaded", !.standalone = FALSE,
                         !.mapped = mapped, !.line = line])

\* makePlan; without a plan the model is converted in memory.
Plan(r) ==
  /\ At(r, "planning")
  /\ source # None
  /\ \/ Step(r, [run[r] EXCEPT !.pc = "checking", !.key = source])
     \/ Goto(r, "bare")
  /\ UNCHANGED pkg

\* ensureStandaloneAssets, whose failure is not fatal
Ensure(r) ==
  /\ At(r, "checking")
  /\ \/ /\ Contains(Own(r))
        /\ Standalone(Own(r))
        /\ Step(r, [run[r] EXCEPT !.pc = "loading", !.standalone = TRUE])
        /\ UNCHANGED pkg
     \/ /\ Contains(Own(r))
        /\ ~Standalone(Own(r))
        /\ Write(r, [Own(r) EXCEPT !.assets = TRUE])
        /\ Goto(r, "upgrading")
     \/ Goto(r, "loading") /\ UNCHANGED pkg

Upgrade(r) ==
  /\ At(r, "upgrading")
  /\ \/ /\ Write(r, [Own(r) EXCEPT !.manifest = 4])
        /\ Step(r, [run[r] EXCEPT !.pc = "loading", !.standalone = TRUE])
     \/ Goto(r, "loading") /\ UNCHANGED pkg

\* load(plan:), and invalidate(plan:) when a manifest cannot be used
Load(r) ==
  /\ At(r, "loading")
  /\ \/ Own(r).manifest = 0 /\ Goto(r, "converting")
     \/ Contains(Own(r)) /\ Finish(r, TRUE, run[r].standalone)
     \/ Own(r).manifest # 0 /\ Goto(r, "dropping shards")
     \* No file of the directory can be removed.
     \/ Own(r).manifest # 0 /\ Goto(r, "converting")
  /\ UNCHANGED pkg

Invalidate(r) ==
  \/ /\ At(r, "dropping shards")
     /\ Write(r, [Own(r) EXCEPT !.shards = FALSE])
     /\ Goto(r, IF Own(r).manifest = 4 THEN "dropping assets"
                                       ELSE "dropping manifest")
  \/ /\ At(r, "dropping assets")
     /\ Write(r, [Own(r) EXCEPT !.assets = FALSE])
     /\ Goto(r, "dropping manifest")
  \/ /\ At(r, "dropping manifest")
     /\ Write(r, [Own(r) EXCEPT !.manifest = 0])
     /\ Goto(r, "converting")

\* convertAndNormalizeWeights of what the file holds now, then store up to its second look for a manifest
Convert(r) ==
  /\ At(r, "converting")
  /\ source # None
  /\ Goto(r, IF Own(r).manifest # 0 THEN "stored" ELSE "moving shards")
  /\ UNCHANGED pkg

\* Faulty: the manifest goes first.
StoreManifestFirst(r) ==
  \/ /\ At(r, "moving shards")
     /\ Write(r, [Own(r) EXCEPT !.manifest = 4])
     /\ Goto(r, "moving assets")
  \/ /\ At(r, "moving assets")
     /\ Write(r, [Own(r) EXCEPT !.shards = TRUE, !.assets = TRUE])
     /\ Goto(r, "stored")

\* The last part of store: a file left by an earlier attempt is removed
\* before the new one takes its place, and the manifest comes last.
Store(r) ==
  \/ /\ At(r, "moving shards")
     /\ Write(r, [Own(r) EXCEPT !.shards = ~@])
     /\ Goto(r, IF Own(r).shards THEN "moving shards" ELSE "moving assets")
  \/ /\ At(r, "moving assets")
     /\ Write(r, [Own(r) EXCEPT !.assets = ~@])
     /\ Goto(r, IF Own(r).assets THEN "moving assets" ELSE "publishing")
  \/ /\ At(r, "publishing")
     /\ Write(r, [Own(r) EXCEPT !.manifest = 4])
     /\ Goto(r, "stored")

\* A file cannot be written or moved: the weights in memory are used.
StoreFails(r) ==
  /\ run[r].pc \in {"converting", "moving shards", "moving assets", "publishing"}
  /\ At(r, "converting") => source # None
  /\ Finish(r, FALSE, FALSE)
  /\ UNCHANGED pkg

\* What was stored is loaded again; the line does not depend on the assets.
Reload(r) ==
  /\ At(r, "stored")
  /\ \/ Contains(Own(r)) /\ Finish(r, TRUE, TRUE)
     \/ Finish(r, FALSE, FALSE)
  /\ UNCHANGED pkg

LoadBare(r) ==
  /\ At(r, "bare")
  /\ source # None
  /\ Finish(r, FALSE, FALSE)
  /\ UNCHANGED pkg

LoadStandalone(r) ==
  /\ At(r, "standalone")
  /\ Standalone(Own(r))
  /\ Finish(r, TRUE, FALSE)
  /\ UNCHANGED pkg

Listen(r) ==
  /\ At(r, "loaded")
  /\ Goto(r, "listening")
  /\ UNCHANGED pkg

End(r) ==
  /\ run[r].pc \in Preparing \cup Loaded
  /\ Goto(r, "ended")
  /\ UNCHANGED pkg

-----------------------------------------------------------------------------
(* The manager's goroutines for a child                                    *)

\* handleMLXRuntimeOutput
Output(r) ==
  /\ Unlocked
  /\ run[r].line
  /\ run' = [run EXCEPT ![r].line = FALSE]
  /\ pending' = IF cmd = r /\ ~ready /\ pending # None
                THEN [pending EXCEPT !.loaded = TRUE] ELSE pending
  /\ UNCHANGED <<source, pkg, cmd, ready, removeOriginal, monitor, deleter,
                 history>>

\* wait: command.Wait returns when the output has been read to its end.
Wait(r) ==
  /\ Unlocked
  /\ cmd = r
  /\ At(r, "ended")
  /\ ~run[r].line
  /\ cmd' = None
  /\ ready' = FALSE
  /\ pending' = None
  /\ UNCHANGED <<source, pkg, run, removeOriginal, monitor, deleter, history>>

\* monitorReady once /health answers, whoever answers on the address
MonitorSettle(r) ==
  /\ Unlocked
  /\ monitor[r].pc = "watching"
  /\ \E s \in Runtime : At(s, "listening")
  /\ cmd = r
  /\ ready' = TRUE
  /\ pending' = None
  /\ monitor' = [monitor EXCEPT ![r] =
       IF pending # None /\ pending.loaded /\ removeOriginal
       THEN [pc |-> "identity", of |-> pending.of] ELSE Off]
  /\ UNCHANGED <<source, pkg, run, cmd, removeOriginal, deleter, history>>

MonitorLeave(r) ==
  /\ Unlocked
  /\ monitor[r].pc = "watching"
  /\ cmd # r
  /\ monitor' = [monitor EXCEPT ![r] = Off]
  /\ UNCHANGED <<source, pkg, run, cmd, ready, pending, removeOriginal, deleter,
                 history>>

(* removeOriginalGGUF, outside the mutex                                   *)

Proceed(r, ok, next) ==
  /\ monitor' = [monitor EXCEPT ![r] =
       IF ok THEN [pc |-> next, of |-> monitor[r].of] ELSE Off]
  /\ UNCHANGED <<source, pkg, run, cmd, ready, pending, removeOriginal, deleter,
                 history>>

\* The file is still the one that startMLXLocked saw.
RemovalIdentity(r) ==
  /\ monitor[r].pc = "identity"
  /\ Proceed(r, source = monitor[r].of, "package")

\* standaloneFastGGUFManifestForSource, which goes by the name of the source
RemovalPackage(r) ==
  /\ monitor[r].pc = "package"
  /\ Proceed(r, \E v \in Version : Standalone(pkg[v]), "remove")

\* os.Remove removes what has the name now.
RemovalRemove(r) ==
  /\ monitor[r].pc = "remove"
  /\ source' \in {source, None}
  /\ monitor' = [monitor EXCEPT ![r] = Off]
  /\ UNCHANGED <<pkg, run, cmd, ready, pending, removeOriginal, deleter, history>>

-----------------------------------------------------------------------------
(* Requests                                                                *)

\* Where a deletion goes on: the next listed package, or the end.
NextDeletion(left) ==
  IF left = {} THEN {None}
  ELSE {[left |-> left \ {v}, of |-> v, part |-> "shards"] : v \in left}

\* Faulty: a package whose source is gone can be deleted too.
DeleteBeginUnlisted ==
  /\ Unlocked /\ Calm /\ Settled
  /\ cmd = None
  /\ \E v \in Version : Listed(pkg[v])
  /\ deleter' \in NextDeletion({v \in Version : Listed(pkg[v])})
  /\ UNCHANGED <<source, pkg, run, cmd, ready, pending, removeOriginal, monitor,
                 history>>

\* Faulty: a running model is no obstacle.
DeleteBeginInUse ==
  /\ Unlocked /\ Calm /\ Settled
  /\ source # None
  /\ \E v \in Version : Listed(pkg[v])
  /\ deleter' \in NextDeletion({v \in Version : Listed(pkg[v])})
  /\ UNCHANGED <<source, pkg, run, cmd, ready, pending, removeOriginal, monitor,
                 history>>

\* DeleteGGUFConversionCache up to its first file operation
DeleteBegin ==
  /\ Unlocked /\ Calm /\ Settled
  /\ cmd = None
  /\ source # None
  /\ \E v \in Version : Listed(pkg[v])
  /\ deleter' \in NextDeletion({v \in Version : Listed(pkg[v])})
  /\ UNCHANGED <<source, pkg, run, cmd, ready, pending, removeOriginal, monitor,
                 history>>

\* A manifest of schema 3 names no assets to delete.
Without(p, part) ==
  CASE part = "shards"   -> [p EXCEPT !.shards = FALSE]
    [] part = "assets"   -> [p EXCEPT !.assets = p.assets /\ p.manifest # 4]
    [] part = "manifest" -> [p EXCEPT !.manifest = 0]

\* deleteGGUFConversionCacheEntry: shards, assets, manifest
DeletePart ==
  /\ ~Unlocked
  /\ pkg' = [pkg EXCEPT ![deleter.of] = Without(@, deleter.part)]
  /\ deleter' \in
       CASE deleter.part = "shards"   -> {[deleter EXCEPT !.part = "assets"]}
         [] deleter.part = "assets"   -> {[deleter EXCEPT !.part = "manifest"]}
         [] deleter.part = "manifest" -> NextDeletion(deleter.left)
  /\ UNCHANGED <<source, run, cmd, ready, pending, removeOriginal, monitor, history>>

\* A file cannot be removed: the request ends with an error.
DeleteFails ==
  /\ ~Unlocked
  /\ deleter' = None
  /\ UNCHANGED <<source, pkg, run, cmd, ready, pending, removeOriginal, monitor,
                 history>>

\* DeleteStoredModel, which takes the GGUF alone
DeleteStoredModel ==
  /\ Unlocked /\ Calm
  /\ cmd = None
  /\ source # None
  /\ source' = None
  /\ discarded' = TRUE
  /\ UNCHANGED <<pkg, run, program, latest, used>>

\* A download puts a new file there or replaces the old one.
Download(v) ==
  /\ Calm
  /\ v \notin used
  /\ source' = v
  /\ latest' = v
  /\ used' = used \cup {v}
  /\ discarded' = FALSE
  /\ UNCHANGED <<pkg, run, program>>

ChangeSetting ==
  /\ removeOriginal' = ~removeOriginal
  /\ UNCHANGED <<source, pkg, run, cmd, ready, pending, monitor, deleter, history>>

\* Tanpopo is killed and launched again.
Crash ==
  /\ cmd' = None
  /\ ready' = FALSE
  /\ pending' = None
  /\ deleter' = None
  /\ monitor' = [r \in Runtime |-> Off]
  /\ run' = [r \in Runtime |-> [run[r] EXCEPT !.line = FALSE]]
  /\ UNCHANGED <<source, pkg, removeOriginal, history>>

Next ==
  \/ \E r \in Runtime :
       \/ \E skip \in BOOLEAN : StartSource(r, skip)
       \/ \E v \in Version : StartFallback(r, v)
       \/ Plan(r) \/ Ensure(r) \/ Upgrade(r) \/ Load(r) \/ Invalidate(r)
       \/ Convert(r) \/ Store(r) \/ StoreFails(r) \/ Reload(r)
       \/ LoadBare(r) \/ LoadStandalone(r) \/ Listen(r) \/ End(r)
       \/ Output(r) \/ Wait(r)
       \/ MonitorSettle(r) \/ MonitorLeave(r)
       \/ RemovalIdentity(r) \/ RemovalPackage(r) \/ RemovalRemove(r)
  \/ DeleteBegin \/ DeletePart \/ DeleteFails
  \/ DeleteStoredModel
  \/ \E v \in Version : Download(v)
  \/ ChangeSetting
  \/ Crash

Spec == Init /\ [][Next]_vars

-----------------------------------------------------------------------------
(* Properties                                                              *)

\* What was downloaded last can be loaded, from its GGUF or without it, until
\* the user deletes the model: removeOriginalGGUF leaves a package behind that
\* starts alone, and no deletion takes the package of a model without a source.
LatestSurvives ==
  ~discarded => source = latest \/ Standalone(pkg[latest])

\* A file is about to be removed only on behalf of an mlx-server that loaded
\* the package made from just this file: not one that could not store it, nor
\* one that started before the file was replaced.
OnlyLoadedIsRemoved ==
  \A r \in Runtime : monitor[r].pc \in {"package", "remove"} =>
    run[r].mapped /\ run[r].key = monitor[r].of

\* The shards that the running mlx-server has mapped stay: a deletion is refused
\* while it runs and holds the mutex that a start needs.
MappedStays ==
  [][\A r \in Runtime : cmd = r /\ run[r].pc \in Loaded /\ run[r].mapped
       => pkg'[run[r].key].shards]_vars

\* A manifest of schema 4 appears when everything it names is there; a store or
\* an upgrade that is cut short publishes nothing.
PublishedIsWhole ==
  [][\A v \in Version : pkg[v].manifest # 4 /\ pkg'[v].manifest = 4
       => Standalone(pkg'[v])]_vars
=============================================================================
