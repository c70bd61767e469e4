------------------------------ MODULE UpdateTask ------------------------------
(***************************************************************************)
(* One OTA update task of the Android SDK: UpdateTask.runInternal, its     *)
(* ResourceUpdateTask, and the callers of await that race it with their    *)
(* timeouts.                                                               *)
(*                                                                         *)
(* The runner fetches the release config, downloads the important files of *)
(* the package and the resources, installs what may be installed, and      *)
(* downloads lazy files. A caller waits behind the gates of StageGate; one *)
(* whose boot timeout ends while resources are missing installs the        *)
(* resources itself, on its own thread. Resources that missed the boot are *)
(* put aside by a third thread. What the threads share, they read and      *)
(* write without a lock, in separate steps.                                *)
(*                                                                         *)
(* A version is FALSE for the local one and TRUE for the fetched one.      *)
(***************************************************************************)
EXTENDS Naturals, FiniteSets, Stages

CONSTANTS
    Waiters,    \* callers of await
    Resources,  \* the files of newResources: fetched entries not local already
    Replaced,   \* those of them the local manifest has an older entry for
    Runner,     \* the thread of runInternal
    Saver,      \* the thread of saveDownloadedResources
    Unset,      \* a field or a local that has no value
    Releases    \* what the server may hold, against what is installed

ASSUME ThreadAssumption == Runner # Saver /\ {Runner, Saver} \cap Waiters = {}
ASSUME ResourceAssumption ==
    /\ IsFiniteSet(Resources) /\ Replaced \subseteq Resources
    /\ \A s \in (SUBSET Resources) \cup (SUBSET [file : Resources, new : BOOLEAN]) : s # Unset

VARIABLES
    stage,          \* currentStage
    timedOut,       \* updateTimedOut
    result,         \* currentResult
    packageUpdate,  \* the future of downloadPackageUpdate
    resourceUpdate, \* "null", "created" (no futures yet) or "started"
    download,       \* the futures of the resource downloads
    status,         \* resourceDownloadStatus
    copied,         \* ResourceUpdateTask.copied, lateinit
    skipped,        \* ResourceUpdateTask.skipped, lateinit
    pc,             \* where each thread is
    finished,       \* a thread's snapshot of the downloads that succeeded
    got,            \* what a thread's installDownloadedResources returned
    read,           \* the currentResult a thread's setCurrentResult started from
    loaded,         \* the state.json a thread's setInPersistentState started from
    awaited,        \* the stage each caller waits for
    returned,       \* what await gave each caller
    fetched,        \* how the fetched release config differs from the local one
    flags,          \* locals of runInternal
    disk,           \* the installed package and resources, and their manifests
    saved           \* state.json

futureVars == <<packageUpdate, resourceUpdate, download>>
installVars == <<status, copied, skipped, finished, got>>
callerVars == <<awaited, returned>>
storeVars == <<loaded, saved>>
vars == <<stage, timedOut, result, futureVars, installVars, pc, read, callerVars,
          fetched, flags, disk, storeVars>>

Threads == Waiters \cup {Runner, Saver}

\* An entry of a resource manifest: a file, in its local or its fetched version.
Entry == [file : Resources, new : BOOLEAN]
LocalManifest == [file : IF fetched.hasLocal THEN Replaced ELSE {}, new : {FALSE}]
NewManifest == [file : Resources, new : {TRUE}]

\* Which version of each part a release config holds.
ReleaseConfig == [config : BOOLEAN, pkg : BOOLEAN, res : SUBSET Entry]
LocalReleaseConfig == [config |-> FALSE, pkg |-> FALSE, res |-> LocalManifest]

\* UpdateResult, and what await returns beyond it.
Ok(rc) == [kind |-> "Ok", rc |-> rc]
Result == [kind : {"NA", "RCFetchError", "Unknown"}] \cup [kind : {"Ok"}, rc : ReleaseConfig]
Returned == Result \cup [kind : {"ReleaseConfigFetchTimeout", "Exception"}]
                   \cup [kind : {"PackageUpdateTimeout"}, rc : {Unset} \cup ReleaseConfig]

\* null is no result.
ASSUME UnsetAssumption == Unset \notin Returned

\* The fetched release config against localReleaseConfig, if that is not null:
\* has it a new config, a new package, a new package with lazy files, and has
\* the local package lazy files that never arrived.
Fetched ==
    {f \in [hasLocal : BOOLEAN, config : BOOLEAN, pkg : BOOLEAN, lazy : BOOLEAN,
            localLazy : BOOLEAN] :
        /\ f.lazy => f.pkg
        /\ ~f.hasLocal => f.config /\ f.pkg /\ ~f.localLazy}

\* state.json with nothing put aside.
NoState == [pkg |-> FALSE, res |-> {}]

ASSUME ReleasesAssumption == Releases \subseteq Fetched

RunnerPC == {"new", "fetch", "fetchFailed", "spawn", "create", "start", "config",
             "configRead", "configWrite", "packageWait", "resourceWait", "decide",
             "copyPkg", "copyingPkg", "writePkg", "saveLate", "storeLate", "install",
             "complete", "installed", "finalRead", "finalWrite", "lazyDecide",
             "lazyNew", "saveLazy", "storeLazy", "lazyCur", "lazyDone", "onFinish",
             "ended", "dead"}
WaiterPC == {"outside", "waiting", "takeOver", "resultRead", "resultWrite",
             "packageCheck", "caught", "expiring", "timedOutRead", "resultReturn",
             "returned"}
InstallPC == {"copy", "skip", "latest", "write"}
SaverPC == {"idle", "saving", "storing", "saved"}

TypeOK ==
    /\ stage \in Stage /\ timedOut \in BOOLEAN /\ result \in Result
    /\ packageUpdate \in {"null", "running", "NA", "Failed", "Finished"}
    /\ resourceUpdate \in {"null", "created", "started"}
    /\ download \in [Resources -> {"running", "ok", "error"}]
    /\ status \in {"DOWNLOADING", "INSTALLING", "TIMEDOUT"}
    /\ copied \in {Unset} \cup SUBSET Resources
    /\ skipped \in {Unset} \cup SUBSET Resources
    /\ pc \in [Threads -> RunnerPC \cup WaiterPC \cup InstallPC \cup SaverPC]
    /\ finished \in [Threads -> SUBSET Resources]
    /\ got \in [Threads -> {Unset} \cup SUBSET Entry]
    /\ read \in [Threads -> Result]
    /\ loaded \in [{Runner, Saver} -> [pkg : BOOLEAN, res : SUBSET Resources]]
    /\ awaited \in [Waiters -> AwaitedStage]
    /\ returned \in [Waiters -> {Unset} \cup Returned]
    /\ fetched \in Fetched
    /\ flags \in [updatedConfig : BOOLEAN, didUpdate : BOOLEAN, shouldCur : BOOLEAN,
                  lazyOk : BOOLEAN]
    /\ disk \in [config : BOOLEAN, pkgManifest : BOOLEAN,
                 pkgFiles : {"local", "mixed", "fetched"},
                 resFiles : SUBSET Resources, resManifest : SUBSET Entry]
    /\ saved \in [pkg : BOOLEAN, res : SUBSET Resources]

Init ==
    /\ stage = INITIALIZING /\ timedOut = FALSE /\ result = [kind |-> "NA"]
    /\ packageUpdate = "null" /\ resourceUpdate = "null"
    /\ download = [r \in Resources |-> "running"]
    /\ status = "DOWNLOADING" /\ copied = Unset /\ skipped = Unset
    /\ pc = [t \in Threads |->
                IF t = Runner THEN "new" ELSE IF t = Saver THEN "idle" ELSE "outside"]
    /\ finished = [t \in Threads |-> {}]
    /\ got = [t \in Threads |-> Unset]
    /\ read = [t \in Threads |-> [kind |-> "NA"]]
    /\ loaded = [t \in {Runner, Saver} |-> NoState]
    /\ awaited = [w \in Waiters |-> FETCHING_RC]
    /\ returned = [w \in Waiters |-> Unset]
    /\ fetched \in Releases
    /\ flags = [updatedConfig |-> FALSE, didUpdate |-> FALSE, shouldCur |-> FALSE,
                lazyOk |-> FALSE]
    /\ disk = [config |-> FALSE, pkgManifest |-> FALSE, pkgFiles |-> "local",
               resFiles |-> {}, resManifest |-> LocalManifest]
    /\ saved = NoState

At(t, p) == pc[t] = p
Goto(t, p) == pc' = [pc EXCEPT ![t] = p]
Succeeded == {r \in Resources : download[r] = "ok"}

-----------------------------------------------------------------------------
(* Steps several threads share. A local is cleared where its life ends. *)

\* setCurrentResult reads currentResult and, in a later step, writes it back
\* with the parts it was given. Without a local package to fall back on, the
\* NullPointerException makes the result Unknown.
ReadResult(t, from, to) ==
    /\ At(t, from) /\ Goto(t, to)
    /\ read' = [read EXCEPT ![t] = result]
    /\ UNCHANGED <<stage, timedOut, result, futureVars, installVars, callerVars,
                   fetched, flags, disk, storeVars>>

Merged(base, newConfig, newPkg, resources) ==
    LET cur == IF base.kind = "Ok" THEN base.rc ELSE LocalReleaseConfig
    IN  IF base.kind # "Ok" /\ ~fetched.hasLocal /\ ~newPkg
        THEN [kind |-> "Unknown"]
        ELSE Ok([config |-> newConfig \/ cur.config,
                 pkg    |-> newPkg \/ cur.pkg,
                 res    |-> IF resources = Unset THEN cur.res ELSE resources])

WriteResult(t, from, to, newConfig, newPkg, resources) ==
    /\ At(t, from) /\ Goto(t, to)
    /\ result' = Merged(read[t], newConfig, newPkg, resources)
    /\ read' = [read EXCEPT ![t] = [kind |-> "NA"]]
    /\ got' = [got EXCEPT ![t] = Unset]
    /\ UNCHANGED <<stage, timedOut, futureVars, status, copied, skipped, finished, callerVars,
                   fetched, flags, disk, storeVars>>

\* setInPersistentState loads state.json and, in a later step, saves it whole.
LoadState(t, from, to) ==
    /\ At(t, from) /\ Goto(t, to)
    /\ loaded' = [loaded EXCEPT ![t] = saved]
    /\ UNCHANGED <<stage, timedOut, result, futureVars, installVars, read, callerVars,
                   fetched, flags, disk, saved>>

\* Where a thread goes on after installDownloadedResources returned resources.
AfterInstall(t, resources) ==
    IF t = Runner THEN "complete"
    ELSE IF resources = Unset THEN "packageCheck" ELSE "resultRead"

\* installDownloadedResources: the synchronized test of the status, then the
\* snapshot of the finished downloads. The futures a caller finds unset throw.
EnterInstall(t) ==
    /\ IF t = Runner THEN At(t, "install") ELSE At(t, "takeOver")
    /\ IF (t # Runner /\ resourceUpdate = "null") \/ status = "INSTALLING"
       THEN /\ Goto(t, AfterInstall(t, Unset))
            /\ UNCHANGED <<status, finished, returned>>
       ELSE /\ status' = "INSTALLING"
            /\ IF resourceUpdate = "created"
               THEN /\ Goto(t, "returned")
                    /\ returned' = [returned EXCEPT ![t] = [kind |-> "Exception"]]
                    /\ UNCHANGED finished
               ELSE /\ Goto(t, "copy")
                    /\ finished' = [finished EXCEPT ![t] = Succeeded]
                    /\ UNCHANGED returned
    /\ UNCHANGED <<stage, timedOut, result, futureVars, copied, skipped, got, read,
                   awaited, fetched, flags, disk, storeVars>>

\* Variant: a copy that failed counts as copied.
CopyUnchecked(t) ==
    /\ At(t, "copy") /\ Goto(t, "skip")
    /\ copied' = finished[t]
    /\ \E c \in SUBSET finished[t] : disk' = [disk EXCEPT !.resFiles = @ \cup c]
    /\ finished' = [finished EXCEPT ![t] = {}]
    /\ UNCHANGED <<stage, timedOut, result, futureVars, status, skipped, got,
                   read, callerVars, fetched, flags, storeVars>>

\* Some of the copies may fail.
CopyResources(t) ==
    /\ At(t, "copy") /\ Goto(t, "skip")
    /\ \E c \in SUBSET finished[t] :
           copied' = c /\ disk' = [disk EXCEPT !.resFiles = @ \cup c]
    /\ finished' = [finished EXCEPT ![t] = {}]
    /\ UNCHANGED <<stage, timedOut, result, futureVars, status, skipped, got,
                   read, callerVars, fetched, flags, storeVars>>

\* Variant: the early return comes before skipped is set.
SetSkippedLate(t) ==
    /\ At(t, "skip")
    /\ skipped' = IF copied = {} THEN skipped ELSE Resources \ copied
    /\ Goto(t, IF copied = {} THEN AfterInstall(t, Unset) ELSE "latest")
    /\ UNCHANGED <<stage, timedOut, result, futureVars, status, copied, finished, got,
                   read, callerVars, fetched, flags, disk, storeVars>>

SetSkipped(t) ==
    /\ At(t, "skip")
    /\ skipped' = Resources \ copied
    /\ Goto(t, IF copied = {} THEN AfterInstall(t, Unset) ELSE "latest")
    /\ UNCHANGED <<stage, timedOut, result, futureVars, status, copied, finished, got,
                   read, callerVars, fetched, flags, disk, storeVars>>

\* outdated + latest (+ what both manifests have, which is left out here). The
\* filter of outdated compares entries, version and all.
InstalledManifest ==
    LET outdated == {e \in LocalManifest : e \in [file : skipped, new : {TRUE}]}
        latest == {e \in NewManifest : e.file \in copied}
    IN  outdated \cup latest

BuildManifest(t) ==
    /\ At(t, "latest") /\ Goto(t, "write")
    /\ got' = [got EXCEPT ![t] = InstalledManifest]
    /\ UNCHANGED <<stage, timedOut, result, futureVars, status, copied, skipped, finished,
                   read, callerVars, fetched, flags, disk, storeVars>>

\* The outcome of the write is not looked at.
WriteResourceManifest(t) ==
    /\ At(t, "write") /\ Goto(t, AfterInstall(t, got[t]))
    /\ \/ disk' = [disk EXCEPT !.resManifest = got[t]]
       \/ UNCHANGED disk
    /\ UNCHANGED <<stage, timedOut, result, futureVars, installVars, read, callerVars,
                   fetched, flags, storeVars>>

InstallStep(t) ==
    \/ EnterInstall(t) \/ CopyResources(t) \/ SetSkipped(t)
    \/ BuildManifest(t) \/ WriteResourceManifest(t)

-----------------------------------------------------------------------------
(* The runner. *)

\* A step of the runner that only ends a stage; StageQueue has its wake-ups.
EndStage(from, to, completed) ==
    /\ At(Runner, from) /\ Goto(Runner, to)
    /\ stage' = StageAfter(completed)
    /\ UNCHANGED <<timedOut, result, futureVars, installVars, read, callerVars,
                   fetched, flags, disk, storeVars>>

Run == EndStage("new", "fetch", INITIALIZING)

FetchFails ==
    /\ At(Runner, "fetch") /\ Goto(Runner, "fetchFailed")
    /\ result' = [kind |-> "RCFetchError"]
    /\ flags' = [flags EXCEPT !.shouldCur = TRUE]
    /\ UNCHANGED <<stage, timedOut, futureVars, installVars, read, callerVars,
                   fetched, disk, storeVars>>

GiveUpFetch == EndStage("fetchFailed", "lazyCur", INSTALLING)

FetchSucceeds == EndStage("fetch", "spawn", FETCHING_RC)

\* packageUpdate = doAsync { .. }, then resourceUpdate = ResourceUpdateTask(..),
\* then start() sets its futures.
StartDownloads ==
    /\ \/ /\ At(Runner, "spawn") /\ Goto(Runner, "create")
          /\ packageUpdate' = "running" /\ UNCHANGED resourceUpdate
       \/ /\ At(Runner, "create") /\ Goto(Runner, "start")
          /\ resourceUpdate' = "created" /\ UNCHANGED packageUpdate
       \/ /\ At(Runner, "start") /\ Goto(Runner, "config")
          /\ resourceUpdate' = "started" /\ UNCHANGED packageUpdate
    /\ UNCHANGED <<stage, timedOut, result, download, installVars, read, callerVars,
                   fetched, flags, disk, storeVars>>

\* The config is written as soon as it is there, whatever the timeouts say.
WriteConfig ==
    /\ At(Runner, "config")
    /\ \/ /\ fetched.config
          /\ disk' = [disk EXCEPT !.config = TRUE]
          /\ flags' = [flags EXCEPT !.updatedConfig = TRUE]
          /\ Goto(Runner, "configRead")
       \/ Goto(Runner, "packageWait") /\ UNCHANGED <<disk, flags>>
    /\ UNCHANGED <<stage, timedOut, result, futureVars, installVars, read, callerVars,
                   fetched, storeVars>>

ConfigResult ==
    \/ ReadResult(Runner, "configRead", "configWrite")
    \/ WriteResult(Runner, "configWrite", "packageWait", TRUE, FALSE, Unset)

AwaitPackage ==
    /\ At(Runner, "packageWait") /\ packageUpdate # "running"
    /\ Goto(Runner, "resourceWait")
    /\ UNCHANGED <<stage, timedOut, result, futureVars, installVars, read, callerVars,
                   fetched, flags, disk, storeVars>>

\* Variant: the loop looks at the status only.
AwaitStatus ==
    /\ status # "DOWNLOADING"
    /\ EndStage("resourceWait", "decide", DOWNLOADING_UPDATES)

\* awaitResourceUpdates: what ends its loop stays true.
AwaitResources ==
    /\ \/ status # "DOWNLOADING" \/ timedOut
       \/ \A r \in Resources : download[r] # "running"
    /\ EndStage("resourceWait", "decide", DOWNLOADING_UPDATES)

\* Variants: the timeout flag is not looked at; the test for lazy files is the
\* wrong way round.
DecideUntimed ==
    /\ At(Runner, "decide")
    /\ Goto(Runner, IF packageUpdate # "Finished" THEN "install" ELSE "copyPkg")
    /\ UNCHANGED <<stage, timedOut, result, futureVars, installVars, read, callerVars,
                   fetched, flags, disk, storeVars>>

DecideInverted ==
    /\ At(Runner, "decide")
    /\ Goto(Runner, CASE packageUpdate # "Finished" -> "install"
                      [] ~timedOut                  -> "copyPkg"
                      [] timedOut /\ fetched.lazy   -> "saveLate"
                      [] OTHER                      -> "install")
    /\ UNCHANGED <<stage, timedOut, result, futureVars, installVars, read, callerVars,
                   fetched, flags, disk, storeVars>>

\* The late package is installed unless a caller has timed out by now; if one
\* has, it is put aside here when it has no lazy files.
DecideInstall ==
    /\ At(Runner, "decide")
    /\ Goto(Runner, CASE packageUpdate # "Finished" -> "install"
                      [] ~timedOut                  -> "copyPkg"
                      [] timedOut /\ ~fetched.lazy  -> "saveLate"
                      [] OTHER                      -> "install")
    /\ UNCHANGED <<stage, timedOut, result, futureVars, installVars, read, callerVars,
                   fetched, flags, disk, storeVars>>

\* movePackageUpdate: the files one by one over the old ones, then the manifest.
MovePackage ==
    /\ \/ /\ At(Runner, "copyPkg") /\ Goto(Runner, "copyingPkg")
          /\ disk' = [disk EXCEPT !.pkgFiles = "mixed"] /\ UNCHANGED flags
       \/ /\ At(Runner, "copyingPkg") /\ Goto(Runner, "writePkg")
          /\ disk' = [disk EXCEPT !.pkgFiles = "fetched"] /\ UNCHANGED flags
       \/ /\ At(Runner, "writePkg") /\ Goto(Runner, "install")
          /\ disk' = [disk EXCEPT !.pkgManifest = TRUE]
          /\ flags' = [flags EXCEPT !.didUpdate = TRUE]
       \/ /\ pc[Runner] \in {"copyingPkg", "writePkg"} /\ Goto(Runner, "install")
          /\ UNCHANGED <<disk, flags>>
    /\ UNCHANGED <<stage, timedOut, result, futureVars, installVars, read, callerVars,
                   fetched, storeVars>>

\* saveDownloadedPackages, at its two places.
StorePackage(from, to) ==
    /\ At(Runner, from) /\ Goto(Runner, to)
    /\ saved' = [loaded[Runner] EXCEPT !.pkg = TRUE]
    /\ loaded' = [loaded EXCEPT ![Runner] = NoState]
    /\ UNCHANGED <<stage, timedOut, result, futureVars, installVars, read, callerVars,
                   fetched, flags, disk>>

SaveLatePackage ==
    \/ LoadState(Runner, "saveLate", "storeLate")
    \/ StorePackage("storeLate", "install")

\* completeResourceDownload: reading skipped before it is set throws, and the
\* exception ends runInternal.
CompleteResources ==
    /\ At(Runner, "complete")
    /\ pc' = CASE skipped = Unset -> [pc EXCEPT ![Runner] = "dead"]
               [] skipped = {}    -> [pc EXCEPT ![Runner] = "installed"]
               [] OTHER           -> [pc EXCEPT ![Runner] = "installed", ![Saver] = "saving"]
    /\ UNCHANGED <<stage, timedOut, result, futureVars, installVars, read, callerVars,
                   fetched, flags, disk, storeVars>>

\* setCurrentResult does nothing when it is given nothing.
EndInstall ==
    LET nothing == ~flags.updatedConfig /\ ~flags.didUpdate /\ got[Runner] = Unset
    IN  EndStage("installed", IF nothing THEN "lazyDecide" ELSE "finalRead", INSTALLING)

\* Variant: a package that was downloaded counts as installed.
FinalResultAnyPackage ==
    \/ ReadResult(Runner, "finalRead", "finalWrite")
    \/ WriteResult(Runner, "finalWrite", "lazyDecide",
                   flags.updatedConfig, packageUpdate = "Finished", got[Runner])

FinalResult ==
    \/ ReadResult(Runner, "finalRead", "finalWrite")
    \/ WriteResult(Runner, "finalWrite", "lazyDecide",
                   flags.updatedConfig, flags.didUpdate, got[Runner])

\* Variant: the negation is lost.
DecideLazyInverted ==
    /\ At(Runner, "lazyDecide")
    /\ flags' = [flags EXCEPT !.shouldCur = timedOut \/ flags.didUpdate]
    /\ Goto(Runner, IF packageUpdate = "Finished" /\ fetched.lazy THEN "lazyNew" ELSE "lazyCur")
    /\ UNCHANGED <<stage, timedOut, result, futureVars, installVars, read, callerVars,
                   fetched, disk, storeVars>>

\* The timeout flag is read a second time here.
DecideLazy ==
    /\ At(Runner, "lazyDecide")
    /\ flags' = [flags EXCEPT !.shouldCur = timedOut \/ ~flags.didUpdate]
    /\ Goto(Runner, IF packageUpdate = "Finished" /\ fetched.lazy THEN "lazyNew" ELSE "lazyCur")
    /\ UNCHANGED <<stage, timedOut, result, futureVars, installVars, read, callerVars,
                   fetched, disk, storeVars>>

\* downloadLazySplits of the new package: into the installed package, whose
\* manifest is written again, or, complete, into the package put aside.
LazyNew ==
    /\ At(Runner, "lazyNew")
    /\ \E ok \in BOOLEAN :
        /\ flags' = [flags EXCEPT !.lazyOk = ok]
        /\ Goto(Runner, IF flags.shouldCur /\ ok THEN "saveLazy" ELSE "lazyCur")
        /\ disk' = [disk EXCEPT !.pkgManifest = @ \/ (ok /\ ~flags.shouldCur)]
    /\ UNCHANGED <<stage, timedOut, result, futureVars, installVars, read, callerVars,
                   fetched, storeVars>>

SaveLazyPackage ==
    \/ LoadState(Runner, "saveLazy", "storeLazy")
    \/ StorePackage("storeLazy", "lazyCur")

\* downloadLazySplits of the current package writes the manifest of
\* localReleaseConfig at every fifth file and at the end.
LazyCurrent ==
    /\ At(Runner, "lazyCur") /\ Goto(Runner, "lazyDone")
    /\ \/ /\ flags.shouldCur /\ fetched.localLazy
          /\ disk' = [disk EXCEPT !.pkgManifest = FALSE]
       \/ UNCHANGED disk
    /\ UNCHANGED <<stage, timedOut, result, futureVars, installVars, read, callerVars,
                   fetched, flags, storeVars>>

EndTask == EndStage("lazyDone", "onFinish", LAZY_DOWNLOADING)

\* onFinish is called, then the saver is waited for.
OnFinish ==
    /\ At(Runner, "onFinish") /\ pc[Saver] \in {"idle", "saved"}
    /\ Goto(Runner, "ended")
    /\ UNCHANGED <<stage, timedOut, result, futureVars, installVars, read, callerVars,
                   fetched, flags, disk, storeVars>>

RunnerStep ==
    \/ Run \/ FetchFails \/ GiveUpFetch \/ FetchSucceeds \/ StartDownloads
    \/ WriteConfig \/ ConfigResult \/ AwaitPackage \/ AwaitResources
    \/ DecideInstall \/ MovePackage \/ SaveLatePackage
    \/ InstallStep(Runner) \/ CompleteResources \/ EndInstall \/ FinalResult
    \/ DecideLazy \/ LazyNew \/ SaveLazyPackage \/ LazyCurrent \/ EndTask \/ OnFinish

-----------------------------------------------------------------------------
(* The downloads and the saver. *)

PackageArrives ==
    /\ packageUpdate = "running"
    /\ packageUpdate' \in IF fetched.pkg THEN {"Failed", "Finished"} ELSE {"NA"}
    /\ UNCHANGED <<stage, timedOut, result, resourceUpdate, download, installVars, pc,
                   read, callerVars, fetched, flags, disk, storeVars>>

ResourceArrives(r) ==
    /\ resourceUpdate = "started" /\ download[r] = "running"
    /\ \E d \in {"ok", "error"} : download' = [download EXCEPT ![r] = d]
    /\ UNCHANGED <<stage, timedOut, result, packageUpdate, resourceUpdate, installVars, pc,
                   read, callerVars, fetched, flags, disk, storeVars>>

\* saveDownloadedResources waits for every download, then stores the skipped.
SaveResources ==
    \/ /\ At(Saver, "saving") /\ \A r \in Resources : download[r] # "running"
       /\ Goto(Saver, "storing")
       /\ finished' = [finished EXCEPT ![Saver] = Succeeded \cap skipped]
       /\ loaded' = [loaded EXCEPT ![Saver] = saved]
       /\ UNCHANGED <<stage, timedOut, result, futureVars, status, copied, skipped, got,
                      read, callerVars, fetched, flags, disk, saved>>
    \/ /\ At(Saver, "storing") /\ Goto(Saver, "saved")
       /\ saved' = [loaded[Saver] EXCEPT !.res = finished[Saver]]
       /\ loaded' = [loaded EXCEPT ![Saver] = NoState]
       /\ UNCHANGED <<stage, timedOut, result, futureVars, installVars, read, callerVars,
                      fetched, flags, disk>>

PoolStep == PackageArrives \/ SaveResources \/ \E r \in Resources : ResourceArrives(r)

-----------------------------------------------------------------------------
(* The callers of await. *)

CallerUnchanged ==
    UNCHANGED <<stage, result, futureVars, copied, skipped, finished, got, read,
                fetched, flags, disk, storeVars>>

Return(w, value) ==
    Goto(w, "returned") /\ returned' = [returned EXCEPT ![w] = value]

Await(w) ==
    /\ At(w, "outside") /\ Goto(w, "waiting")
    /\ CallerUnchanged /\ UNCHANGED <<timedOut, status, callerVars>>

\* Variant: there is always one more stage to wait for.
NextGateUnbounded(w) ==
    Goto(w, "waiting") /\ awaited' = [awaited EXCEPT ![w] = @ + 1]

NextGate(w) ==
    IF awaited[w] = INSTALLING
    THEN Goto(w, "resultReturn") /\ UNCHANGED awaited
    ELSE Goto(w, "waiting") /\ awaited' = [awaited EXCEPT ![w] = @ + 1]

PassGate(w) ==
    /\ At(w, "waiting") /\ stage > awaited[w]
    /\ NextGate(w)
    /\ CallerUnchanged /\ UNCHANGED <<timedOut, status, returned>>

\* wt.get throws. At DOWNLOADING_UPDATES the caller takes the installation of
\* the resources over, and takes the status back from whoever had it.
Timeout(w) ==
    /\ At(w, "waiting")
    /\ IF awaited[w] = DOWNLOADING_UPDATES
       THEN status' = "TIMEDOUT" /\ Goto(w, "takeOver")
       ELSE Goto(w, "caught") /\ UNCHANGED status
    /\ CallerUnchanged /\ UNCHANGED <<timedOut, callerVars>>

CallerResult(w) ==
    \/ ReadResult(w, "resultRead", "resultWrite")
    \/ WriteResult(w, "resultWrite", "packageCheck", FALSE, FALSE, got[w])

\* The exception is thrown on unless the package has arrived.
CheckPackage(w) ==
    /\ At(w, "packageCheck")
    /\ IF packageUpdate \in {"null", "running"}
       THEN Goto(w, "caught") /\ UNCHANGED awaited
       ELSE NextGate(w)
    /\ CallerUnchanged /\ UNCHANGED <<timedOut, status, returned>>

\* Variant: a caller whose stage is not over waits once more.
RecheckWaits(w) ==
    /\ At(w, "caught")
    /\ IF stage < awaited[w] + 1
       THEN Goto(w, "waiting") /\ UNCHANGED awaited
       ELSE NextGate(w)
    /\ CallerUnchanged /\ UNCHANGED <<timedOut, status, returned>>

\* waitForStage looks at the stage again, and only later sets updateTimedOut.
Recheck(w) ==
    /\ At(w, "caught")
    /\ IF stage < awaited[w] + 1
       THEN Goto(w, "expiring") /\ UNCHANGED awaited
       ELSE NextGate(w)
    /\ CallerUnchanged /\ UNCHANGED <<timedOut, status, returned>>

GiveUp(w) ==
    /\ At(w, "expiring")
    /\ timedOut' = TRUE
    /\ CASE awaited[w] = FETCHING_RC -> Return(w, [kind |-> "ReleaseConfigFetchTimeout"])
         [] awaited[w] = DOWNLOADING_UPDATES -> Goto(w, "timedOutRead") /\ UNCHANGED returned
         [] awaited[w] = INSTALLING -> Return(w, [kind |-> "Unknown"])
    /\ CallerUnchanged /\ UNCHANGED <<status, awaited>>

ReturnTimeout(w) ==
    /\ At(w, "timedOutRead")
    /\ Return(w, [kind |-> "PackageUpdateTimeout",
                  rc |-> IF result.kind = "Ok" THEN result.rc ELSE Unset])
    /\ CallerUnchanged /\ UNCHANGED <<timedOut, status, awaited>>

ReturnResult(w) ==
    /\ At(w, "resultReturn")
    /\ Return(w, result)
    /\ CallerUnchanged /\ UNCHANGED <<timedOut, status, awaited>>

CallerStep(w) ==
    \/ PassGate(w) \/ InstallStep(w) \/ CallerResult(w) \/ CheckPackage(w)
    \/ Recheck(w) \/ GiveUp(w) \/ ReturnTimeout(w) \/ ReturnResult(w)

Next ==
    \/ RunnerStep \/ PoolStep
    \/ \E w \in Waiters : Await(w) \/ CallerStep(w) \/ Timeout(w)

Spec == Init /\ [][Next]_vars

\* Threads run; a download ends, by the timeouts of the HTTP client; a timed get
\* returns or throws.
FairSpec ==
    /\ Spec
    /\ WF_vars(RunnerStep) /\ WF_vars(PackageArrives) /\ WF_vars(SaveResources)
    /\ \A r \in Resources : WF_vars(ResourceArrives(r))
    /\ \A w \in Waiters : WF_vars(CallerStep(w) \/ Timeout(w))

-----------------------------------------------------------------------------
(* What an update task promises. *)

\* The release config a session runs with, as tryUpdate picks it.
Session(w) == IF returned[w] \notin {Unset} /\ returned[w].kind \in {"Ok", "PackageUpdateTimeout"}
                 /\ returned[w].rc # Unset
              THEN returned[w].rc ELSE LocalReleaseConfig

\* await went through every gate and returned currentResult.
Resolved(w) == returned[w] # Unset /\ returned[w].kind \in {"NA", "Ok", "RCFetchError"}

\* The files of the fetched version are on the disk: the package's before its
\* manifest, a resource's before its entry. Of the local version this says
\* nothing: its files are replaced in place.
FetchedBacked(newPkg, entries) ==
    /\ newPkg => disk.pkgFiles = "fetched"
    /\ \A e \in entries : e.new => e.file \in disk.resFiles

\* Whoever writes the manifests, and in whichever order runner and callers
\* install, no manifest names a file of the fetched version that is not there
\* (movePackageUpdate, installDownloadedResources).
ManifestsBacked == FetchedBacked(disk.pkgManifest, disk.resManifest)

\* A session is given a part of the fetched version only once its files are in
\* place, and they stay, although currentResult is read and written without a
\* lock. What it is given of the local version may be replaced under it: by
\* TimedOutSessionKeepsPackage's run, and LatePackageKeptOut says when not.
FetchedGivenInPlace == \A w \in Waiters : FetchedBacked(Session(w).pkg, Session(w).res)

\* A timeout flagged before the downloads are over keeps the late package out
\* for good (runInternal's test of updateTimedOut).
LatePackageKeptOut ==
    [](timedOut /\ stage <= DOWNLOADING_UPDATES => [](disk.pkgFiles = "local"))

\* The manifest of the new package is replaced by the old one only if a caller
\* timed out; a session that was not late never loses its package.
RevertNeedsTimeout ==
    [][disk.pkgManifest /\ ~disk'.pkgManifest => timedOut]_vars

\* runInternal dies only when a caller took the installation of the resources
\* from it and has not finished it, or failed in it.
DeathNeedsTakeOver ==
    [][At(Runner, "complete") /\ (At(Runner, "dead"))' =>
          \E w \in Waiters :
              \/ pc[w] \in {"copy", "skip"}
              \/ returned[w] # Unset /\ returned[w].kind = "Exception"]_vars

\* A package that came too late, with all its lazy files, is put aside.
LateAndComplete ==
    /\ At(Runner, "ended") /\ packageUpdate = "Finished" /\ disk.pkgFiles = "local"
    /\ fetched.lazy => flags.lazyOk

\* It is, if no resource is put aside by the same task.
LatePackageStagedAlone == LateAndComplete /\ At(Saver, "idle") => saved.pkg

\* runInternal comes to an end: it waits for nothing for ever.
RunnerStops == <>(pc[Runner] \in {"ended", "dead"})

\* Every call of await returns.
AwaitReturns == \A w \in Waiters : At(w, "waiting") ~> At(w, "returned")

-----------------------------------------------------------------------------
(* What the documentation says, and the code does not do. *)

\* Case 1: all important files arrived in time and were installed, so the
\* session uses the new package (await's last line).
HappyCaseUsesNewPackage ==
    \A w \in Waiters : Resolved(w) /\ ~timedOut /\ flags.didUpdate => Session(w).pkg

\* What was not there in time goes on downloading and is available afterwards:
\* the task reaches its end (runInternal and completeResourceDownload).
TaskFinishes == <>(stage = FINISHED)

\* Case 2: a session that was told of a package timeout is served the previous
\* package, so its files stay (the stage is read before updateTimedOut is set,
\* and movePackageUpdate writes over the files of the previous package).
TimedOutSessionKeepsPackage ==
    \A w \in Waiters :
        /\ returned[w] # Unset /\ returned[w].kind = "PackageUpdateTimeout"
        /\ ~Session(w).pkg
        => disk.pkgFiles = "local"

=============================================================================
