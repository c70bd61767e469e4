------------------------- MODULE UpdateTaskProofs -------------------------
(***************************************************************************)
(* An update task, for any callers, resources and fetched release config:  *)
(* no manifest and no session names a file that is not in place, a late    *)
(* package is kept out and put aside, and the runner dies only where a     *)
(* caller took the installation from it.                                   *)
(***************************************************************************)
EXTENDS UpdateTask, TLAPS

-----------------------------------------------------------------------------
(* The invariant. What a manifest or a result names is on disk d; files    *)
(* that are in place stay, so this carries over to a later disk.           *)

Kept(d, newPkg, entries) ==
    /\ newPkg => d.pkgFiles = "fetched"
    /\ \A e \in entries : e.new => e.file \in d.resFiles

\* What x, a result or what await returned, gives a session.
Fits(d, x) ==
    /\ x.kind = "Ok" => Kept(d, x.rc.pkg, x.rc.res)
    /\ x.kind = "PackageUpdateTimeout" /\ x.rc # Unset => Kept(d, x.rc.pkg, x.rc.res)

\* Where the runner is before the package is moved in, and before it looks for
\* lazy files.
Fetching == {"new", "fetch", "fetchFailed", "spawn"}
Starting == {"create", "start"}
Waiting == {"config", "configRead", "configWrite", "packageWait"}
BeforeDecide == Fetching \cup Starting \cup Waiting \cup {"resourceWait"}
BeforeMove == BeforeDecide \cup {"decide", "copyPkg"}
Moving == {"copyingPkg", "writePkg"}
Installing == {"install", "copy", "skip", "latest", "write", "complete", "installed",
               "finalRead", "finalWrite", "lazyDecide"}
Ending == {"lazyCur", "lazyDone", "onFinish", "ended"}

\* What the runner's place says of the downloads it has started.
DownloadsFit ==
    /\ pc[Runner] \in RunnerPC \cup InstallPC
    /\ pc[Runner] \in Fetching => packageUpdate = "null"
    /\ packageUpdate = "running" => pc[Runner] \in Starting \cup Waiting
    /\ pc[Runner] \in (Waiting \cup {"resourceWait", "decide", "copyPkg", "saveLate",
                                     "storeLate", "install"}) \cup Moving =>
         resourceUpdate = "started"
    /\ stage <= DOWNLOADING_UPDATES => pc[Runner] \in BeforeDecide

\* What it says of the package: moved in once, and only then named.
PackageFits ==
    /\ pc[Runner] \in BeforeMove => disk.pkgFiles = "local" /\ ~flags.didUpdate
    /\ pc[Runner] = "copyingPkg" => disk.pkgFiles = "mixed"
    /\ pc[Runner] = "writePkg" => disk.pkgFiles = "fetched"
    /\ flags.didUpdate => disk.pkgFiles = "fetched"
    /\ disk.pkgManifest => flags.didUpdate
    /\ pc[Runner] = "lazyNew" /\ ~flags.shouldCur => flags.didUpdate
    /\ pc[Runner] \in (BeforeMove \ {"fetchFailed"}) \cup Moving => ~flags.shouldCur
    /\ flags.shouldCur /\ flags.didUpdate => timedOut

\* What it says of the package put aside, while the saver has not run.
StagedFits ==
    /\ pc[Runner] = "lazyNew" => fetched.lazy
    /\ packageUpdate = "Finished" /\ disk.pkgFiles = "local" /\ At(Saver, "idle") =>
        /\ ~fetched.lazy /\ pc[Runner] \in Installing \cup Ending => saved.pkg
        /\ fetched.lazy /\ flags.lazyOk /\ pc[Runner] \in Ending => saved.pkg

\* Whatever the threads hold of results and resources is on the disk.
ThreadsFit ==
    /\ Fits(disk, result)
    /\ \A t \in Threads : Fits(disk, read[t]) /\ (got[t] # Unset => Kept(disk, FALSE, got[t]))
    /\ \A w \in Waiters : returned[w] # Unset => Fits(disk, returned[w])
    /\ copied # Unset => copied \subseteq disk.resFiles
    /\ Kept(disk, FALSE, disk.resManifest)

\* Who installs has set what it reads later.
InstallFits ==
    /\ \A t \in Threads :
        /\ pc[t] \in {"skip", "latest", "write"} => copied # Unset
        /\ pc[t] \in {"latest", "write"} => skipped # Unset
        /\ pc[t] = "write" => got[t] # Unset
    /\ \A w \in Waiters : pc[w] # "returned" => returned[w] = Unset
    /\ pc[Saver] \in SaverPC

\* A caller that is installing the resources, or died of it.
TakenOver(w) ==
    \/ pc[w] \in {"copy", "skip"}
    \/ returned[w] # Unset /\ returned[w].kind = "Exception"
SkippedMissing ==
    /\ status = "INSTALLING" /\ skipped = Unset =>
         pc[Runner] \in {"copy", "skip"} \/ \E w \in Waiters : TakenOver(w)
    /\ pc[Runner] = "complete" /\ skipped = Unset => \E w \in Waiters : TakenOver(w)

UInv == /\ TypeOK /\ DownloadsFit /\ PackageFits /\ StagedFits
        /\ ThreadsFit /\ InstallFits /\ SkippedMissing


-----------------------------------------------------------------------------
(* The constants: the threads are distinct, and null is none of the values. *)

LEMMA ThreadFacts ==
  /\ Runner # Saver /\ Runner \notin Waiters /\ Saver \notin Waiters
  /\ Runner \in Threads /\ Saver \in Threads /\ Waiters \subseteq Threads
BY ThreadAssumption DEF Threads

LEMMA UnsetFacts ==
  /\ \A s \in SUBSET Resources : s # Unset
  /\ \A s \in SUBSET Entry : s # Unset
  /\ Unset \notin Returned
BY ResourceAssumption, UnsetAssumption DEF Entry

LEMMA ManifestFacts ==
  /\ LocalManifest \subseteq Entry /\ NewManifest \subseteq Entry
  /\ \A e \in LocalManifest : ~e.new
  /\ LocalReleaseConfig \in ReleaseConfig
BY ResourceAssumption DEF LocalManifest, NewManifest, Entry, LocalReleaseConfig, ReleaseConfig

\* The parts of setCurrentResult's answer.
LEMMA MergedType ==
  ASSUME NEW base \in Result, NEW c \in BOOLEAN, NEW p \in BOOLEAN,
         NEW res \in {Unset} \cup SUBSET Entry
  PROVE  Merged(base, c, p, res) \in Result
<1> DEFINE cur == IF base.kind = "Ok" THEN base.rc ELSE LocalReleaseConfig
<1>1. cur \in ReleaseConfig
  BY ManifestFacts DEF Result
<1>2. [config |-> c \/ cur.config, pkg |-> p \/ cur.pkg,
       res |-> IF res = Unset THEN cur.res ELSE res] \in ReleaseConfig
  BY <1>1 DEF ReleaseConfig
<1> QED BY <1>2 DEF Merged, Result, Ok

LEMMA InstalledType ==
  InstalledManifest \subseteq Entry
BY ManifestFacts DEF InstalledManifest

-----------------------------------------------------------------------------
(* Types. *)

Flags == [updatedConfig : BOOLEAN, didUpdate : BOOLEAN, shouldCur : BOOLEAN, lazyOk : BOOLEAN]
Disk == [config : BOOLEAN, pkgManifest : BOOLEAN, pkgFiles : {"local", "mixed", "fetched"},
         resFiles : SUBSET Resources, resManifest : SUBSET Entry]
State == [pkg : BOOLEAN, res : SUBSET Resources]

LEMMA RecordTypes ==
  ASSUME TypeOK
  PROVE  /\ flags \in Flags /\ disk \in Disk /\ saved \in State /\ result \in Result
         /\ loaded \in [{Runner, Saver} -> State]
BY DEF TypeOK, Flags, Disk, State

\* A step that changes these, and moves one thread on.
LEMMA RecordsMove ==
  ASSUME TypeOK, NEW t \in Threads,
         NEW to \in RunnerPC \cup WaiterPC \cup InstallPC \cup SaverPC, Goto(t, to),
         flags' \in Flags, disk' \in Disk, saved' \in State,
         loaded' \in [{Runner, Saver} -> State], result' \in Result,
         UNCHANGED <<stage, timedOut, futureVars, installVars, read, callerVars, fetched>>
  PROVE  TypeOK'
BY DEF TypeOK, Flags, Disk, State, Goto, futureVars, installVars, callerVars

LEMMA InstallType ==
  ASSUME TypeOK, InstallFits, NEW t \in Waiters \cup {Runner}, InstallStep(t)
  PROVE  TypeOK'
<1>1. t \in Threads /\ (t = Runner \/ t \in Waiters)
  BY DEF Threads
<1>2. CASE EnterInstall(t)
  BY <1>1, <1>2 DEF TypeOK, EnterInstall, AfterInstall, Goto, At, RunnerPC, WaiterPC, InstallPC, Succeeded,
     futureVars, installVars, callerVars, storeVars, Returned
<1>3. CASE CopyResources(t)
  BY <1>1, <1>3 DEF TypeOK, CopyResources, Goto, At, InstallPC, futureVars, callerVars, storeVars
<1>4. CASE SetSkipped(t)
  BY <1>1, <1>4 DEF TypeOK, SetSkipped, AfterInstall, Goto, At, RunnerPC, WaiterPC, InstallPC,
     futureVars, callerVars, storeVars
<1>5. CASE BuildManifest(t)
  BY <1>1, <1>5, InstalledType DEF TypeOK, BuildManifest, Goto, At, InstallPC, futureVars, callerVars, storeVars
<1>6. CASE WriteResourceManifest(t)
  <2>1. got[t] \in SUBSET Entry
    BY <1>1, <1>6 DEF TypeOK, InstallFits, WriteResourceManifest, At
  <2> QED BY <1>1, <1>6, <2>1 DEF TypeOK, WriteResourceManifest, AfterInstall, Goto, At, RunnerPC, WaiterPC, InstallPC,
     futureVars, installVars, callerVars, storeVars
<1> QED BY <1>2, <1>3, <1>4, <1>5, <1>6 DEF InstallStep

LEMMA ResultType ==
  ASSUME TypeOK, NEW t \in Threads, NEW from, NEW to \in RunnerPC \cup WaiterPC,
         NEW c \in BOOLEAN, NEW p \in BOOLEAN, NEW res \in {Unset} \cup SUBSET Entry,
         ReadResult(t, from, to) \/ WriteResult(t, from, to, c, p, res)
  PROVE  TypeOK'
<1>1. CASE ReadResult(t, from, to)
  BY <1>1 DEF TypeOK, ReadResult, Goto, futureVars, installVars, callerVars, storeVars
<1>2. CASE WriteResult(t, from, to, c, p, res)
  <2>1. Merged(read[t], c, p, res) \in Result /\ [kind |-> "NA"] \in Result
    BY MergedType DEF TypeOK, Result
  <2> QED BY <1>2, <2>1 DEF TypeOK, WriteResult, Goto, futureVars, callerVars, storeVars
<1> QED BY <1>1, <1>2

LEMMA RunnerType ==
  ASSUME TypeOK, InstallFits, RunnerStep
  PROVE  TypeOK'
<1> USE ThreadFacts
<1>1. CASE Run \/ GiveUpFetch \/ FetchSucceeds \/ AwaitResources \/ EndInstall \/ EndTask
  BY <1>1 DEF TypeOK, Run, GiveUpFetch, FetchSucceeds, AwaitResources, EndInstall, EndTask, EndStage,
     StageAfter, Stage, INITIALIZING, FETCHING_RC, DOWNLOADING_UPDATES, INSTALLING, LAZY_DOWNLOADING, FINISHED,
     Goto, At, RunnerPC, futureVars, installVars, callerVars, storeVars
<1>2. CASE FetchFails \/ StartDownloads \/ WriteConfig \/ AwaitPackage
  <2>1. CASE FetchFails
    <3>1. flags' \in Flags /\ [kind |-> "RCFetchError"] \in Result
      BY <2>1, RecordTypes DEF FetchFails, Flags, Result
    <3> QED BY <2>1, <3>1, RecordTypes, RecordsMove DEF FetchFails, RunnerPC, storeVars
  <2>2. CASE StartDownloads
    BY <2>2 DEF TypeOK, StartDownloads,
       Goto, RunnerPC, futureVars, installVars, callerVars, storeVars
  <2>3. CASE WriteConfig
    <3>1. flags' \in Flags /\ disk' \in Disk
      BY <2>3, RecordTypes DEF WriteConfig, Flags, Disk
    <3> QED BY <2>3, <3>1, RecordTypes, RecordsMove DEF WriteConfig, RunnerPC, storeVars
  <2>4. CASE AwaitPackage
    BY <2>4 DEF TypeOK, AwaitPackage,
       Goto, RunnerPC, futureVars, installVars, callerVars, storeVars
  <2> QED BY <1>2, <2>1, <2>2, <2>3, <2>4
<1>3. CASE ConfigResult
  BY <1>3, ResultType DEF ConfigResult, RunnerPC, storeVars
<1>4. CASE DecideInstall \/ MovePackage
  <2>1. CASE DecideInstall
    BY <2>1 DEF TypeOK, DecideInstall,
       Goto, RunnerPC, futureVars, installVars, callerVars, storeVars
  <2>2. CASE MovePackage
    <3>1. flags' \in Flags /\ disk' \in Disk
      BY <2>2, RecordTypes DEF MovePackage, Flags, Disk
    <3> QED BY <2>2, <3>1, RecordTypes, RecordsMove DEF MovePackage, RunnerPC, storeVars
  <2> QED BY <1>4, <2>1, <2>2
<1>5. CASE SaveLatePackage \/ SaveLazyPackage
  <2>1. ASSUME NEW from, NEW to \in RunnerPC,
               LoadState(Runner, from, to) \/ StorePackage(from, to)
        PROVE  TypeOK'
    <3>1. CASE LoadState(Runner, from, to)
      BY <3>1 DEF TypeOK, LoadState, Goto, futureVars, installVars, callerVars, storeVars
    <3>2. CASE StorePackage(from, to)
      <4>1. saved' \in State /\ NoState \in State
        BY <3>2, RecordTypes DEF StorePackage, State, NoState
      <4>2. loaded' \in [{Runner, Saver} -> State]
        BY <3>2, <4>1, RecordTypes DEF StorePackage
      <4> QED BY <2>1, <3>2, <4>1, <4>2, RecordTypes, RecordsMove DEF StorePackage
    <3> QED BY <2>1, <3>1, <3>2
  <2> QED BY <1>5, <2>1 DEF SaveLatePackage, SaveLazyPackage, RunnerPC, storeVars
<1>6. CASE InstallStep(Runner)
  BY <1>6, InstallType
<1>7. CASE CompleteResources
  BY <1>7 DEF TypeOK, CompleteResources,
     Goto, At, RunnerPC, SaverPC, futureVars, installVars, callerVars, storeVars
<1>8. CASE FinalResult
  <2>1. /\ flags.updatedConfig \in BOOLEAN /\ flags.didUpdate \in BOOLEAN
        /\ got[Runner] \in {Unset} \cup SUBSET Entry
    BY DEF TypeOK
  <2> QED BY <1>8, <2>1, ResultType DEF FinalResult, RunnerPC, storeVars
<1>9. CASE DecideLazy \/ LazyNew \/ LazyCurrent \/ OnFinish
  <2>1. CASE DecideLazy
    <3>1. flags' \in Flags
      <4>1. (timedOut \/ ~flags.didUpdate) \in BOOLEAN
        OBVIOUS
      <4> QED BY <2>1, <4>1, RecordTypes DEF DecideLazy, Flags
    <3> QED BY <2>1, <3>1, RecordTypes, RecordsMove DEF DecideLazy, RunnerPC, storeVars
  <2>2. CASE LazyNew
    BY <2>2 DEF TypeOK, LazyNew, Goto, RunnerPC, futureVars, installVars, callerVars, storeVars
  <2>3. CASE LazyCurrent
    <3>1. disk' \in Disk
      BY <2>3, RecordTypes DEF LazyCurrent, Disk
    <3> QED BY <2>3, <3>1, RecordTypes, RecordsMove DEF LazyCurrent, RunnerPC, storeVars
  <2>4. CASE OnFinish
    BY <2>4 DEF TypeOK, OnFinish, Goto, RunnerPC, futureVars, installVars, callerVars, storeVars
  <2> QED BY <1>9, <2>1, <2>2, <2>3, <2>4
<1> QED BY <1>1, <1>2, <1>3, <1>4, <1>5, <1>6, <1>7, <1>8, <1>9 DEF RunnerStep

LEMMA PoolType ==
  ASSUME TypeOK, PoolStep
  PROVE  TypeOK'
<1> USE ThreadFacts
<1>1. CASE PackageArrives \/ \E r \in Resources : ResourceArrives(r)
  BY <1>1 DEF TypeOK, PackageArrives, ResourceArrives, futureVars, installVars, callerVars, storeVars
<1>2. CASE SaveResources
  <2>1. CASE At(Saver, "saving")
    BY <1>2, <2>1 DEF TypeOK, SaveResources, Succeeded, Goto, At, SaverPC,
       futureVars, installVars, callerVars, storeVars
  <2>2. CASE At(Saver, "storing")
    <3>1. Goto(Saver, "saved") /\ saved' = [loaded[Saver] EXCEPT !.res = finished[Saver]]
          /\ loaded' = [loaded EXCEPT ![Saver] = NoState]
          /\ UNCHANGED <<stage, timedOut, result, futureVars, installVars, read, callerVars,
                         fetched, flags, disk>>
      BY <1>2, <2>2 DEF SaveResources, At
    <3>2. finished[Saver] \in SUBSET Resources
      BY DEF TypeOK
    <3>3. saved' \in State /\ NoState \in State
      BY <3>1, <3>2, RecordTypes DEF State, NoState
    <3>4. loaded' \in [{Runner, Saver} -> State]
      BY <3>1, <3>3, RecordTypes
    <3> QED BY <3>1, <3>3, <3>4, RecordTypes, RecordsMove DEF SaverPC
  <2> QED BY <1>2, <2>1, <2>2 DEF SaveResources
<1> QED BY <1>1, <1>2 DEF PoolStep

LEMMA CallerType ==
  ASSUME TypeOK, InstallFits, NEW w \in Waiters, Await(w) \/ CallerStep(w) \/ Timeout(w)
  PROVE  TypeOK'
<1> USE ThreadFacts
<1>1. CASE Await(w) \/ PassGate(w) \/ Timeout(w) \/ CheckPackage(w) \/ Recheck(w)
  BY <1>1 DEF TypeOK, Await, PassGate, Timeout, CheckPackage, Recheck, NextGate, CallerUnchanged,
     AwaitedStage, FETCHING_RC, DOWNLOADING_UPDATES, INSTALLING,
     Goto, At, WaiterPC, futureVars, callerVars, storeVars
<1>2. CASE InstallStep(w)
  BY <1>2, InstallType
<1>3. CASE CallerResult(w)
  <2>1. got[w] \in {Unset} \cup SUBSET Entry
    BY DEF TypeOK
  <2> QED BY <1>3, <2>1, ResultType DEF CallerResult, WaiterPC
<1>4. CASE GiveUp(w) \/ ReturnTimeout(w) \/ ReturnResult(w)
  <2>1. result \in Returned /\ (result.kind = "Ok" => result.rc \in ReleaseConfig)
    BY DEF TypeOK, Returned, Result
  <2>2. /\ [kind |-> "ReleaseConfigFetchTimeout"] \in Returned /\ [kind |-> "Unknown"] \in Returned
        /\ [kind |-> "PackageUpdateTimeout",
            rc |-> IF result.kind = "Ok" THEN result.rc ELSE Unset] \in Returned
    BY <2>1 DEF Returned, Result
  <2>3. ASSUME NEW x \in Returned, Return(w, x), CallerUnchanged, timedOut' \in BOOLEAN,
               UNCHANGED <<status, awaited>>
        PROVE  TypeOK'
    BY <2>3 DEF TypeOK, Return, CallerUnchanged, Goto, WaiterPC, futureVars, callerVars, storeVars
  <2>4. CASE GiveUp(w)
    <3>1. CASE Goto(w, "timedOutRead") /\ UNCHANGED returned
      BY <1>4, <2>4, <3>1 DEF TypeOK, GiveUp, CallerUnchanged, Goto, WaiterPC, futureVars, callerVars, storeVars
    <3>2. awaited[w] \in AwaitedStage
      BY DEF TypeOK
    <3> QED BY <2>2, <2>3, <2>4, <3>1, <3>2 DEF GiveUp, AwaitedStage, FETCHING_RC, DOWNLOADING_UPDATES, INSTALLING
  <2>5. CASE ReturnTimeout(w) \/ ReturnResult(w)
    BY <2>1, <2>2, <2>3, <2>5 DEF ReturnTimeout, ReturnResult, TypeOK
  <2> QED BY <1>4, <2>4, <2>5
<1> QED BY <1>1, <1>2, <1>3, <1>4 DEF CallerStep

LEMMA NextType ==
  ASSUME TypeOK, InstallFits, [Next]_vars
  PROVE  TypeOK'
<1>1. CASE UNCHANGED vars
  BY <1>1 DEF TypeOK, vars, futureVars, installVars, callerVars, storeVars
<1> QED BY <1>1, RunnerType, PoolType, CallerType DEF Next

-----------------------------------------------------------------------------
(* What the runner's place says, kept by every thread. *)

RunnerFits == DownloadsFit /\ PackageFits /\ StagedFits

LEMMA RunnerStays ==
  ASSUME RunnerFits, pc'[Runner] = pc[Runner], At(Saver, "idle")' => At(Saver, "idle"),
         UNCHANGED <<packageUpdate, resourceUpdate, stage, fetched, flags, saved>>, timedOut => timedOut',
         disk'.pkgFiles = disk.pkgFiles, disk'.pkgManifest = disk.pkgManifest
  PROVE  RunnerFits'
<1>1. DownloadsFit'
  BY DEF RunnerFits, DownloadsFit
<1>2. PackageFits'
  BY DEF RunnerFits, PackageFits
<1>3. StagedFits'
  BY DEF RunnerFits, StagedFits, At
<1> QED BY <1>1, <1>2, <1>3 DEF RunnerFits

\* setCurrentResult changes the result and a thread's place and locals.
LEMMA ResultFrame ==
  ASSUME NEW t, NEW from, NEW to, NEW c, NEW p, NEW res,
         ReadResult(t, from, to) \/ WriteResult(t, from, to, c, p, res)
  PROVE  /\ At(t, from) /\ Goto(t, to)
         /\ UNCHANGED <<stage, timedOut, futureVars, status, copied, skipped, finished, callerVars,
                        fetched, flags, disk, storeVars>>
BY DEF ReadResult, WriteResult, installVars

\* An installation leaves the runner alone, but for its own place.
LEMMA InstallFrame ==
  ASSUME TypeOK, NEW t \in Waiters \cup {Runner}, InstallStep(t)
  PROVE  /\ \A x \in Threads : x # t => pc'[x] = pc[x]
         /\ UNCHANGED <<packageUpdate, resourceUpdate, stage, timedOut, fetched, flags, saved>>
         /\ disk'.pkgFiles = disk.pkgFiles /\ disk'.pkgManifest = disk.pkgManifest
<1>1. pc \in [Threads -> RunnerPC \cup WaiterPC \cup InstallPC \cup SaverPC] /\ disk \in Disk
  BY RecordTypes DEF TypeOK
<1> USE DEF Goto, futureVars, installVars, callerVars, storeVars
<1>2. CASE EnterInstall(t)
  BY <1>1, <1>2 DEF EnterInstall
<1>3. CASE CopyResources(t)
  BY <1>1, <1>3 DEF CopyResources, Disk
<1>4. CASE SetSkipped(t)
  BY <1>1, <1>4 DEF SetSkipped
<1>5. CASE BuildManifest(t)
  BY <1>1, <1>5 DEF BuildManifest
<1>6. CASE WriteResourceManifest(t)
  BY <1>1, <1>6 DEF WriteResourceManifest, Disk
<1> QED BY <1>2, <1>3, <1>4, <1>5, <1>6 DEF InstallStep

LEMMA CallerFrame ==
  ASSUME TypeOK, NEW w \in Waiters, Await(w) \/ CallerStep(w) \/ Timeout(w)
  PROVE  /\ \A x \in Threads : x # w => pc'[x] = pc[x]
         /\ UNCHANGED <<packageUpdate, resourceUpdate, stage, fetched, flags, saved>>
         /\ timedOut => timedOut'
         /\ disk'.pkgFiles = disk.pkgFiles /\ disk'.pkgManifest = disk.pkgManifest
<1>1. pc \in [Threads -> RunnerPC \cup WaiterPC \cup InstallPC \cup SaverPC]
  BY DEF TypeOK
<1> USE DEF Goto, futureVars, installVars, callerVars, storeVars, CallerUnchanged
<1>2. CASE Await(w) \/ Timeout(w)
  BY <1>1, <1>2 DEF Await, Timeout
<1>3. CASE PassGate(w) \/ CheckPackage(w) \/ Recheck(w)
  BY <1>1, <1>3 DEF PassGate, CheckPackage, Recheck, NextGate
<1>4. CASE InstallStep(w)
  BY <1>4, InstallFrame
<1>5. CASE CallerResult(w)
  <2>1. /\ Goto(w, "resultWrite") \/ Goto(w, "packageCheck")
        /\ UNCHANGED <<stage, timedOut, futureVars, fetched, flags, disk, storeVars>>
    BY <1>5, ResultFrame DEF CallerResult
  <2> QED BY <1>1, <2>1
<1>6. CASE ReturnTimeout(w) \/ ReturnResult(w)
  BY <1>1, <1>6 DEF ReturnTimeout, ReturnResult, Return
<1>7. CASE GiveUp(w)
  <2>1. pc' = [pc EXCEPT ![w] = "returned"] \/ pc' = [pc EXCEPT ![w] = "timedOutRead"]
    <3>1. awaited[w] \in AwaitedStage
      BY DEF TypeOK
    <3> QED BY <1>7, <3>1 DEF GiveUp, Return, AwaitedStage, FETCHING_RC, DOWNLOADING_UPDATES, INSTALLING
  <2> QED BY <1>1, <1>7, <2>1 DEF GiveUp
<1> QED BY <1>2, <1>3, <1>4, <1>5, <1>6, <1>7 DEF CallerStep

LEMMA CallerRunnerFits ==
  ASSUME TypeOK, RunnerFits, NEW w \in Waiters, Await(w) \/ CallerStep(w) \/ Timeout(w)
  PROVE  RunnerFits'
BY ThreadFacts, CallerFrame, RunnerStays DEF At

LEMMA PoolRunnerFits ==
  ASSUME TypeOK, RunnerFits, PoolStep
  PROVE  RunnerFits'
<1> USE ThreadFacts DEF futureVars, installVars, callerVars, storeVars
<1>1. CASE PackageArrives
  BY <1>1 DEF PackageArrives, RunnerFits, DownloadsFit, PackageFits, StagedFits, At,
     Fetching, Starting, Waiting, Installing, Ending
<1>2. CASE \E r \in Resources : ResourceArrives(r)
  BY <1>2, RunnerStays DEF ResourceArrives, At
<1>3. CASE SaveResources
  <2>1. pc \in [Threads -> RunnerPC \cup WaiterPC \cup InstallPC \cup SaverPC]
    BY DEF TypeOK
  <2>2. CASE At(Saver, "saving")
    BY <1>3, <2>1, <2>2, RunnerStays DEF SaveResources, Goto, At
  <2>3. CASE At(Saver, "storing")
    BY <1>3, <2>1, <2>3 DEF SaveResources, Goto, At, RunnerFits, DownloadsFit, PackageFits, StagedFits
  <2> QED BY <1>3, <2>2, <2>3 DEF SaveResources
<1> QED BY <1>1, <1>2, <1>3 DEF PoolStep

\* A step of the runner: where it goes, and what it changes.
LEMMA RunnerRunnerFits ==
  ASSUME TypeOK, RunnerFits, RunnerStep
  PROVE  RunnerFits'
<1> USE ThreadFacts DEF futureVars, installVars, callerVars, storeVars, Goto, At
<1> USE DEF Fetching, Starting, Waiting, BeforeDecide, BeforeMove, Moving, Installing, Ending,
        RunnerPC, InstallPC
<1>0. pc \in [Threads -> RunnerPC \cup WaiterPC \cup InstallPC \cup SaverPC] /\ flags \in Flags /\ disk \in Disk
  BY RecordTypes DEF TypeOK
<1>1. CASE Run \/ GiveUpFetch \/ FetchSucceeds \/ AwaitResources \/ EndInstall \/ EndTask
  BY <1>0, <1>1 DEF Run, GiveUpFetch, FetchSucceeds, AwaitResources, EndInstall, EndTask, EndStage,
     StageAfter, INITIALIZING, FETCHING_RC, DOWNLOADING_UPDATES, INSTALLING, LAZY_DOWNLOADING, FINISHED,
     RunnerFits, DownloadsFit, PackageFits, StagedFits
<1>2. CASE FetchFails
  BY <1>0, <1>2 DEF FetchFails, Flags, RunnerFits, DownloadsFit, PackageFits, StagedFits
<1>3. CASE StartDownloads
  BY <1>0, <1>3 DEF StartDownloads, RunnerFits, DownloadsFit, PackageFits, StagedFits
<1>4. CASE WriteConfig
  BY <1>0, <1>4 DEF WriteConfig, Flags, Disk, RunnerFits, DownloadsFit, PackageFits, StagedFits
<1>5. CASE ConfigResult
  <2>1. /\ \/ At(Runner, "configRead") /\ Goto(Runner, "configWrite")
           \/ At(Runner, "configWrite") /\ Goto(Runner, "packageWait")
        /\ UNCHANGED <<stage, timedOut, futureVars, fetched, flags, disk, storeVars>>
    BY <1>5, ResultFrame DEF ConfigResult
  <2> QED BY <1>0, <2>1 DEF RunnerFits, DownloadsFit, PackageFits, StagedFits
<1>6. CASE AwaitPackage
  BY <1>0, <1>6 DEF AwaitPackage, RunnerFits, DownloadsFit, PackageFits, StagedFits
<1>7. CASE DecideInstall
  BY <1>0, <1>7 DEF DecideInstall, RunnerFits, DownloadsFit, PackageFits, StagedFits
<1>8. CASE MovePackage
  BY <1>0, <1>8 DEF MovePackage, Flags, Disk, RunnerFits, DownloadsFit, PackageFits, StagedFits
<1>9. CASE SaveLatePackage
  BY <1>0, <1>9, RecordTypes DEF SaveLatePackage, LoadState, StorePackage, State,
     RunnerFits, DownloadsFit, PackageFits, StagedFits
<1>10. CASE InstallStep(Runner)
  <2>1. /\ \A x \in Threads : x # Runner => pc'[x] = pc[x]
        /\ UNCHANGED <<packageUpdate, resourceUpdate, stage, timedOut, fetched, flags, saved>>
        /\ disk'.pkgFiles = disk.pkgFiles /\ disk'.pkgManifest = disk.pkgManifest
    BY <1>10, InstallFrame
  <2>2. /\ pc[Runner] \in {"install", "copy", "skip", "latest", "write"}
        /\ pc'[Runner] \in {"copy", "skip", "latest", "write", "complete"}
    BY <1>0, <1>10 DEF InstallStep, EnterInstall, CopyResources, SetSkipped, BuildManifest,
       WriteResourceManifest, AfterInstall, RunnerFits, DownloadsFit
  <2> QED BY <2>1, <2>2 DEF RunnerFits, DownloadsFit, PackageFits, StagedFits
<1>11. CASE CompleteResources
  BY <1>0, <1>11 DEF CompleteResources, RunnerFits, DownloadsFit, PackageFits, StagedFits
<1>12. CASE FinalResult
  <2>1. /\ \/ At(Runner, "finalRead") /\ Goto(Runner, "finalWrite")
           \/ At(Runner, "finalWrite") /\ Goto(Runner, "lazyDecide")
        /\ UNCHANGED <<stage, timedOut, futureVars, fetched, flags, disk, storeVars>>
    BY <1>12, ResultFrame DEF FinalResult
  <2> QED BY <1>0, <2>1 DEF RunnerFits, DownloadsFit, PackageFits, StagedFits
<1>13. CASE DecideLazy
  BY <1>0, <1>13 DEF DecideLazy, Flags, RunnerFits, DownloadsFit, PackageFits, StagedFits
<1>14. CASE LazyNew
  <2>1. PICK ok \in BOOLEAN :
          /\ flags' = [flags EXCEPT !.lazyOk = ok]
          /\ pc' = [pc EXCEPT ![Runner] = IF flags.shouldCur /\ ok THEN "saveLazy" ELSE "lazyCur"]
          /\ disk' = [disk EXCEPT !.pkgManifest = disk.pkgManifest \/ (ok /\ ~flags.shouldCur)]
    BY <1>14 DEF LazyNew
  <2>2. /\ pc[Runner] = "lazyNew"
        /\ UNCHANGED <<stage, timedOut, packageUpdate, resourceUpdate, fetched, saved>>
    BY <1>14 DEF LazyNew
  <2>3. pc'[Runner] = (IF flags.shouldCur /\ ok THEN "saveLazy" ELSE "lazyCur") /\ pc'[Saver] = pc[Saver]
    BY <1>0, <2>1
  <2>4. /\ disk'.pkgFiles = disk.pkgFiles
        /\ disk'.pkgManifest <=> (disk.pkgManifest \/ (ok /\ ~flags.shouldCur))
        /\ flags'.didUpdate = flags.didUpdate /\ flags'.shouldCur = flags.shouldCur
        /\ flags'.lazyOk = ok
    <3>1. disk.pkgManifest \/ (ok /\ ~flags.shouldCur) \in BOOLEAN
      OBVIOUS
    <3> QED BY <1>0, <2>1, <3>1 DEF Flags, Disk
  <2>5. DownloadsFit'
    BY <2>2, <2>3 DEF RunnerFits, DownloadsFit
  <2>6. PackageFits'
    BY <2>2, <2>3, <2>4 DEF RunnerFits, PackageFits
  <2>7. StagedFits'
    BY <2>2, <2>3, <2>4 DEF RunnerFits, StagedFits, PackageFits
  <2> QED BY <2>5, <2>6, <2>7 DEF RunnerFits
<1>15. CASE SaveLazyPackage
  BY <1>0, <1>15, RecordTypes DEF SaveLazyPackage, LoadState, StorePackage, State,
     RunnerFits, DownloadsFit, PackageFits, StagedFits
<1>16. CASE LazyCurrent
  BY <1>0, <1>16 DEF LazyCurrent, Disk, RunnerFits, DownloadsFit, PackageFits, StagedFits
<1>17. CASE OnFinish
  BY <1>0, <1>17 DEF OnFinish, RunnerFits, DownloadsFit, PackageFits, StagedFits
<1> QED BY <1>1, <1>2, <1>3, <1>4, <1>5, <1>6, <1>7, <1>8, <1>9, <1>10, <1>11, <1>12, <1>13, <1>14,
           <1>15, <1>16, <1>17 DEF RunnerStep

LEMMA NextRunnerFits ==
  ASSUME TypeOK, RunnerFits, [Next]_vars
  PROVE  RunnerFits'
<1>1. CASE UNCHANGED vars
  BY <1>1, RunnerStays DEF vars, futureVars, installVars, callerVars, storeVars, At
<1> QED BY <1>1, RunnerRunnerFits, PoolRunnerFits, CallerRunnerFits DEF Next

-----------------------------------------------------------------------------
(* What the threads hold, kept by every step. *)

ThreadsOk == ThreadsFit /\ InstallFits /\ SkippedMissing

\* Files that are in place stay.
Grows(d, d2) ==
    /\ d.pkgFiles = "fetched" => d2.pkgFiles = "fetched"
    /\ d.resFiles \subseteq d2.resFiles

LEMMA KeptGrows ==
  ASSUME NEW d, NEW d2, Grows(d, d2)
  PROVE  /\ \A p, s : Kept(d, p, s) => Kept(d2, p, s)
         /\ \A x : Fits(d, x) => Fits(d2, x)
<1>1. ASSUME NEW p, NEW s, Kept(d, p, s)
      PROVE  Kept(d2, p, s)
  BY <1>1 DEF Kept, Grows
<1>2. ASSUME NEW x, Fits(d, x)
      PROVE  Fits(d2, x)
  BY <1>1, <1>2 DEF Fits
<1> QED BY <1>1, <1>2

LEMMA ThreadsFitGrow ==
  ASSUME ThreadsFit, UNCHANGED <<result, read, got, returned, copied>>, Grows(disk, disk'),
         Kept(disk', FALSE, disk'.resManifest)
  PROVE  ThreadsFit'
<1>1. /\ \A p, s : Kept(disk, p, s) => Kept(disk', p, s)
      /\ \A x : Fits(disk, x) => Fits(disk', x)
  BY KeptGrows
<1>2. copied # Unset => copied \subseteq disk'.resFiles
  BY DEF ThreadsFit, Grows
<1> QED BY <1>1, <1>2 DEF ThreadsFit

\* A step outside an installation that neither sets a result nor returns.
LEMMA ThreadsStay ==
  ASSUME ThreadsOk, UNCHANGED <<result, read, got, returned, copied, skipped>>,
         status' = "INSTALLING" => status = "INSTALLING",
         Grows(disk, disk'), disk'.resManifest = disk.resManifest,
         pc'[Saver] \in SaverPC,
         \A t \in Threads :
            \/ pc'[t] = pc[t]
            \/ /\ pc[t] \notin {"copy", "skip", "returned"}
               /\ pc'[t] \notin {"skip", "latest", "write", "complete"}
  PROVE  ThreadsOk'
<1>1. Kept(disk', FALSE, disk'.resManifest)
  BY KeptGrows DEF ThreadsOk, ThreadsFit
<1>2. ThreadsFit'
  BY <1>1, ThreadsFitGrow DEF ThreadsOk
<1>3. InstallFits'
  BY ThreadFacts DEF ThreadsOk, InstallFits
<1>4. SkippedMissing'
  <2>1. \A w \in Waiters : TakenOver(w) => TakenOver(w)'
    BY ThreadFacts DEF TakenOver
  <2>2. pc[Runner] \in {"copy", "skip"} => pc'[Runner] \in {"copy", "skip"}
    BY ThreadFacts
  <2>3. pc'[Runner] = "complete" => pc[Runner] = "complete"
    BY ThreadFacts
  <2> QED BY <2>1, <2>2, <2>3 DEF ThreadsOk, SkippedMissing
<1> QED BY <1>2, <1>3, <1>4 DEF ThreadsOk

\* What setCurrentResult builds on is in place, and so is what it adds.
LEMMA MergedFits ==
  ASSUME NEW d, NEW base, Fits(d, base), NEW c \in BOOLEAN, NEW p \in BOOLEAN, NEW res,
         p => d.pkgFiles = "fetched", res # Unset => Kept(d, FALSE, res)
  PROVE  Fits(d, Merged(base, c, p, res))
<1> DEFINE cur == IF base.kind = "Ok" THEN base.rc ELSE LocalReleaseConfig
           rc == [config |-> c \/ cur.config, pkg |-> p \/ cur.pkg,
                  res |-> IF res = Unset THEN cur.res ELSE res]
<1>1. Kept(d, cur.pkg, cur.res)
  <2>1. CASE base.kind = "Ok"
    BY <2>1 DEF Fits
  <2>2. CASE base.kind # "Ok"
    BY <2>2, ManifestFacts DEF Kept, LocalReleaseConfig
  <2> QED BY <2>1, <2>2
<1>2. rc.pkg = (p \/ cur.pkg) /\ rc.res = IF res = Unset THEN cur.res ELSE res
  OBVIOUS
<1> HIDE DEF rc, cur
<1>3. Kept(d, rc.pkg, rc.res)
  BY <1>1, <1>2 DEF Kept
<1>4. Fits(d, Ok(rc))
  BY <1>3 DEF Fits, Ok
<1>5. Fits(d, [kind |-> "Unknown"])
  BY DEF Fits
<1> QED BY <1>4, <1>5 DEF Merged, rc, cur

LEMMA ResultStep ==
  ASSUME TypeOK, ThreadsOk, NEW t \in Threads, NEW from, NEW to, NEW c \in BOOLEAN, NEW p \in BOOLEAN,
         ReadResult(t, from, to) \/ WriteResult(t, from, to, c, p, got[t])
           \/ WriteResult(t, from, to, c, p, Unset),
         p => disk.pkgFiles = "fetched", pc'[Saver] \in SaverPC,
         from \notin {"copy", "skip", "returned"}, to \notin {"skip", "latest", "write", "complete"}
  PROVE  ThreadsOk'
<1>1. /\ pc[t] = from /\ pc' = [pc EXCEPT ![t] = to]
      /\ UNCHANGED <<status, copied, skipped, returned, disk>>
  BY ResultFrame DEF At, Goto, callerVars
<1>2. /\ result' \in {result, Merged(read[t], c, p, got[t]), Merged(read[t], c, p, Unset)}
      /\ read' = [read EXCEPT ![t] = result] \/ read' = [read EXCEPT ![t] = [kind |-> "NA"]]
      /\ got' = got \/ got' = [got EXCEPT ![t] = Unset]
  BY DEF ReadResult, WriteResult, installVars
<1>3. Fits(disk, result')
  <2>1. Fits(disk, Merged(read[t], c, p, got[t]))
    BY MergedFits DEF ThreadsOk, ThreadsFit
  <2>2. Fits(disk, Merged(read[t], c, p, Unset))
    BY MergedFits DEF ThreadsOk, ThreadsFit
  <2> QED BY <1>2, <2>1, <2>2 DEF ThreadsOk, ThreadsFit
<1>4. \A x \in Threads : Fits(disk, read'[x])
  <2>1. Fits(disk, [kind |-> "NA"])
    BY DEF Fits
  <2> QED BY <1>2, <2>1 DEF ThreadsOk, ThreadsFit, TypeOK
<1>5. \A x \in Threads : (got'[x] = got[x] \/ got'[x] = Unset)
                         /\ (pc'[x] = "write" => got'[x] = got[x])
  BY <1>1, <1>2 DEF TypeOK
<1>6. ThreadsFit'
  BY <1>1, <1>3, <1>4, <1>5 DEF ThreadsOk, ThreadsFit
<1>7. \A x \in Threads : pc'[x] = pc[x] \/ (pc[x] = from /\ pc'[x] = to)
  BY <1>1 DEF TypeOK
<1>8. InstallFits'
  BY <1>1, <1>5, <1>7, ThreadFacts DEF ThreadsOk, InstallFits
<1>9. SkippedMissing'
  <2>1. \A w \in Waiters : TakenOver(w) => TakenOver(w)'
    BY <1>1, <1>7, ThreadFacts DEF TakenOver
  <2>2. /\ pc[Runner] \in {"copy", "skip"} => pc'[Runner] \in {"copy", "skip"}
        /\ pc'[Runner] = "complete" => pc[Runner] = "complete"
    BY <1>7, ThreadFacts
  <2> QED BY <1>1, <2>1, <2>2 DEF ThreadsOk, SkippedMissing
<1> QED BY <1>6, <1>8, <1>9 DEF ThreadsOk

\* Reading it, and writing it, as the threads do.
LEMMA ReadThreads ==
  ASSUME TypeOK, ThreadsOk, NEW t \in Threads, NEW from, NEW to,
         ReadResult(t, from, to), pc'[Saver] \in SaverPC,
         from \notin {"copy", "skip", "returned"}, to \notin {"skip", "latest", "write", "complete"}
  PROVE  ThreadsOk'
<1> DEFINE no == FALSE
<1>1. no \in BOOLEAN /\ (no => disk.pkgFiles = "fetched")
  OBVIOUS
<1>2. \/ ReadResult(t, from, to) \/ WriteResult(t, from, to, no, no, got[t])
      \/ WriteResult(t, from, to, no, no, Unset)
  OBVIOUS
<1> HIDE DEF no
<1> QED BY <1>1, <1>2, ResultStep

LEMMA WriteThreads ==
  ASSUME TypeOK, ThreadsOk, NEW t \in Threads, NEW from, NEW to, NEW c \in BOOLEAN, NEW p \in BOOLEAN,
         NEW res, res = got[t] \/ res = Unset, WriteResult(t, from, to, c, p, res),
         p => disk.pkgFiles = "fetched", pc'[Saver] \in SaverPC,
         from \notin {"copy", "skip", "returned"}, to \notin {"skip", "latest", "write", "complete"}
  PROVE  ThreadsOk'
<1>1. CASE res = Unset
  <2>1. WriteResult(t, from, to, c, p, Unset)
    BY <1>1 DEF WriteResult, Merged
  <2> QED BY <2>1, ResultStep
<1>2. CASE res = got[t]
  <2>1. WriteResult(t, from, to, c, p, got[t])
    BY <1>2 DEF WriteResult, Merged
  <2> QED BY <2>1, ResultStep
<1> QED BY <1>1, <1>2

\* An installation: who has the status installs, and has set skipped when the
\* runner comes to read it.
LEMMA InstallThreads ==
  ASSUME TypeOK, RunnerFits, ThreadsOk, NEW t \in Waiters \cup {Runner}, InstallStep(t)
  PROVE  ThreadsOk'
<1> USE ThreadFacts
<1>0. /\ pc \in [Threads -> RunnerPC \cup WaiterPC \cup InstallPC \cup SaverPC] /\ disk \in Disk
      /\ t \in Threads /\ t # Saver /\ (t \in Waiters <=> t # Runner)
      /\ finished \in [Threads -> SUBSET Resources] /\ got \in [Threads -> {Unset} \cup SUBSET Entry]
      /\ returned \in [Waiters -> {Unset} \cup Returned]
  BY RecordTypes DEF TypeOK
<1>1. CASE EnterInstall(t)
  <2>1. /\ pc[t] \in {"install", "takeOver"}
        /\ UNCHANGED <<result, read, got, copied, skipped, disk>>
    BY <1>1 DEF EnterInstall, At, callerVars
  <2>2. CASE /\ pc' = [pc EXCEPT ![t] = AfterInstall(t, Unset)] /\ UNCHANGED <<status, returned>>
             /\ (t # Runner /\ resourceUpdate = "null") \/ status = "INSTALLING"
    <3>1. pc'[t] = IF t = Runner THEN "complete" ELSE "packageCheck"
      BY <1>0, <2>2 DEF AfterInstall
    <3>2. ThreadsFit'
      BY <2>1, <2>2, ThreadsFitGrow DEF ThreadsOk, ThreadsFit, Grows
    <3>3. InstallFits'
      BY <1>0, <2>1, <2>2, <3>1 DEF ThreadsOk, InstallFits
    <3>4. \A w \in Waiters : TakenOver(w) => TakenOver(w)'
      BY <1>0, <2>1, <2>2, <3>1 DEF TakenOver
    <3>5. t = Runner => status = "INSTALLING" /\ pc[Runner] \notin {"copy", "skip"}
      BY <2>1, <2>2
    <3>6. SkippedMissing'
      <4>1. pc[Runner] \in {"copy", "skip"} => pc'[Runner] \in {"copy", "skip"}
        BY <1>0, <2>1, <2>2
      <4>2. t # Runner => pc'[Runner] = pc[Runner]
        BY <1>0, <2>2
      <4> QED BY <2>1, <2>2, <3>4, <3>5, <4>1, <4>2 DEF ThreadsOk, SkippedMissing
    <3> QED BY <3>2, <3>3, <3>6 DEF ThreadsOk
  <2>3. CASE /\ status' = "INSTALLING" /\ resourceUpdate = "created"
             /\ pc' = [pc EXCEPT ![t] = "returned"]
             /\ returned' = [returned EXCEPT ![t] = [kind |-> "Exception"]]
    <3>1. t \in Waiters
      <4>1. t # Runner
        BY <1>1, <2>3 DEF EnterInstall, At, RunnerFits, DownloadsFit
      <4> QED BY <1>0, <4>1
    <3>2. /\ returned'[t] = [kind |-> "Exception"] /\ returned'[t] # Unset /\ returned'[t].kind = "Exception"
          /\ \A w \in Waiters : w # t => returned'[w] = returned[w]
      <4>1. [kind |-> "Exception"] \in Returned
        BY DEF Returned
      <4> QED BY <1>0, <2>3, <3>1, <4>1, UnsetFacts
    <3>3. ThreadsFit'
      <4>1. Fits(disk, [kind |-> "Exception"])
        BY DEF Fits
      <4> QED BY <2>1, <3>2, <4>1 DEF ThreadsOk, ThreadsFit
    <3>4. InstallFits'
      BY <1>0, <2>1, <2>3, <3>1, <3>2 DEF ThreadsOk, InstallFits
    <3>5. SkippedMissing'
      BY <3>1, <3>2 DEF SkippedMissing, TakenOver
    <3> QED BY <3>3, <3>4, <3>5 DEF ThreadsOk
  <2>4. CASE /\ status' = "INSTALLING" /\ pc' = [pc EXCEPT ![t] = "copy"] /\ UNCHANGED returned
    <3>1. ThreadsFit'
      BY <2>1, <2>4, ThreadsFitGrow DEF ThreadsOk, ThreadsFit, Grows
    <3>2. InstallFits'
      BY <1>0, <2>1, <2>4 DEF ThreadsOk, InstallFits
    <3>3. \A w \in Waiters : TakenOver(w) => TakenOver(w)'
      BY <1>0, <2>1, <2>4 DEF TakenOver
    <3>4. t \in Waiters => TakenOver(t)'
      BY <1>0, <2>4 DEF TakenOver
    <3>5. /\ pc'[Runner] = "complete" => pc[Runner] = "complete"
          /\ t = Runner => pc'[Runner] = "copy"
      BY <1>0, <2>4
    <3>6. SkippedMissing'
      BY <1>0, <2>1, <3>3, <3>4, <3>5 DEF ThreadsOk, SkippedMissing
    <3> QED BY <3>1, <3>2, <3>6 DEF ThreadsOk
  <2> QED BY <1>1, <2>2, <2>3, <2>4 DEF EnterInstall, Goto
<1>2. CASE CopyResources(t)
  <2>1. PICK c \in SUBSET finished[t] :
          copied' = c /\ disk' = [disk EXCEPT !.resFiles = disk.resFiles \cup c]
    BY <1>2 DEF CopyResources
  <2>2. /\ pc[t] = "copy" /\ pc' = [pc EXCEPT ![t] = "skip"]
        /\ UNCHANGED <<result, read, got, skipped, status, returned>>
    BY <1>2 DEF CopyResources, At, Goto, callerVars
  <2>3. Grows(disk, disk') /\ disk'.resManifest = disk.resManifest /\ copied' \subseteq disk'.resFiles
    BY <1>0, <2>1 DEF Grows, Disk
  <2>4. copied' # Unset
    BY <1>0, <2>1, UnsetFacts
  <2>5. ThreadsFit'
    <3>1. /\ \A p, s : Kept(disk, p, s) => Kept(disk', p, s)
          /\ \A x : Fits(disk, x) => Fits(disk', x)
      BY <2>3, KeptGrows
    <3> QED BY <2>2, <2>3, <3>1 DEF ThreadsOk, ThreadsFit
  <2>6. InstallFits'
    BY <1>0, <2>2, <2>4 DEF ThreadsOk, InstallFits
  <2>7. SkippedMissing'
    <3>1. \A w \in Waiters : TakenOver(w) => TakenOver(w)'
      BY <1>0, <2>2 DEF TakenOver
    <3>2. /\ pc[Runner] \in {"copy", "skip"} => pc'[Runner] \in {"copy", "skip"}
          /\ pc'[Runner] = "complete" => pc[Runner] = "complete"
      BY <1>0, <2>2
    <3> QED BY <2>2, <3>1, <3>2 DEF ThreadsOk, SkippedMissing
  <2> QED BY <2>5, <2>6, <2>7 DEF ThreadsOk
<1>3. CASE SetSkipped(t)
  <2>1. /\ pc[t] = "skip" /\ skipped' = Resources \ copied
        /\ UNCHANGED <<result, read, got, copied, status, returned, disk>>
    BY <1>3 DEF SetSkipped, At, callerVars
  <2>2. skipped' # Unset
    BY <2>1, UnsetFacts
  <2>3. /\ \A x \in Threads : x # t => pc'[x] = pc[x]
        /\ pc'[t] \in {"latest", "complete", "packageCheck"}
    BY <1>0, <1>3 DEF SetSkipped, Goto, AfterInstall
  <2>4. ThreadsFit'
    BY <2>1, ThreadsFitGrow DEF ThreadsOk, ThreadsFit, Grows
  <2>5. InstallFits'
    BY <1>0, <2>1, <2>2, <2>3 DEF ThreadsOk, InstallFits
  <2>6. SkippedMissing'
    BY <2>2 DEF SkippedMissing
  <2> QED BY <2>4, <2>5, <2>6 DEF ThreadsOk
<1>4. CASE BuildManifest(t)
  <2>1. /\ pc[t] = "latest" /\ pc' = [pc EXCEPT ![t] = "write"]
        /\ got' = [got EXCEPT ![t] = InstalledManifest]
        /\ UNCHANGED <<result, read, copied, skipped, status, returned, disk>>
    BY <1>4 DEF BuildManifest, At, Goto, callerVars
  <2>2. copied # Unset /\ skipped # Unset /\ copied \subseteq disk.resFiles
    BY <1>0, <2>1 DEF ThreadsOk, InstallFits, ThreadsFit
  <2>3. InstalledManifest # Unset
    BY InstalledType, UnsetFacts
  <2>4. Kept(disk, FALSE, InstalledManifest)
    BY <2>2, ManifestFacts DEF Kept, InstalledManifest
  <2>5. /\ got'[t] = InstalledManifest /\ \A x \in Threads : x # t => got'[x] = got[x]
        /\ pc'[t] = "write" /\ \A x \in Threads : x # t => pc'[x] = pc[x]
    BY <1>0, <2>1
  <2>6. ThreadsFit'
    BY <2>1, <2>4, <2>5 DEF ThreadsOk, ThreadsFit
  <2>7. InstallFits'
    BY <1>0, <2>1, <2>2, <2>3, <2>5 DEF ThreadsOk, InstallFits
  <2>8. SkippedMissing'
    BY <2>1, <2>2 DEF SkippedMissing
  <2> QED BY <2>6, <2>7, <2>8 DEF ThreadsOk
<1>5. CASE WriteResourceManifest(t)
  <2>1. /\ pc[t] = "write" /\ pc' = [pc EXCEPT ![t] = AfterInstall(t, got[t])]
        /\ disk' = [disk EXCEPT !.resManifest = got[t]] \/ disk' = disk
        /\ UNCHANGED <<result, read, got, copied, skipped, status, returned>>
    BY <1>5 DEF WriteResourceManifest, At, Goto, callerVars, installVars
  <2>2. skipped # Unset /\ got[t] # Unset
    BY <1>0, <2>1 DEF ThreadsOk, InstallFits
  <2>3. Kept(disk, FALSE, got[t])
    BY <1>0, <2>2 DEF ThreadsOk, ThreadsFit
  <2>4. /\ disk'.resFiles = disk.resFiles /\ disk'.pkgFiles = disk.pkgFiles
        /\ disk'.resManifest = got[t] \/ disk'.resManifest = disk.resManifest
    BY <1>0, <2>1 DEF Disk
  <2>5. Grows(disk, disk') /\ Kept(disk', FALSE, disk'.resManifest)
    <3>1. Kept(disk, FALSE, disk'.resManifest)
      BY <2>3, <2>4 DEF ThreadsOk, ThreadsFit
    <3> QED BY <2>4, <3>1 DEF Grows, Kept
  <2>6. ThreadsFit'
    BY <2>1, <2>5, ThreadsFitGrow DEF ThreadsOk
  <2>7. /\ \A x \in Threads : x # t => pc'[x] = pc[x]
        /\ pc'[t] \in {"complete", "packageCheck", "resultRead"}
    BY <1>0, <2>1 DEF AfterInstall
  <2>8. InstallFits'
    BY <1>0, <2>1, <2>7 DEF ThreadsOk, InstallFits
  <2>9. SkippedMissing'
    BY <2>1, <2>2 DEF SkippedMissing
  <2> QED BY <2>6, <2>8, <2>9 DEF ThreadsOk
<1> QED BY <1>1, <1>2, <1>3, <1>4, <1>5 DEF InstallStep

LEMMA RunnerThreads ==
  ASSUME TypeOK, RunnerFits, ThreadsOk, RunnerStep
  PROVE  ThreadsOk'
<1> USE ThreadFacts
<1>0. pc \in [Threads -> RunnerPC \cup WaiterPC \cup InstallPC \cup SaverPC] /\ disk \in Disk
      /\ pc[Saver] \in SaverPC
  BY RecordTypes DEF TypeOK, ThreadsOk, InstallFits
<1>1. ASSUME NEW from, from \notin {"copy", "skip", "returned"},
             NEW to, to \notin {"skip", "latest", "write", "complete"},
             At(Runner, from), Goto(Runner, to), Grows(disk, disk'), disk'.resManifest = disk.resManifest,
             UNCHANGED <<result, read, got, returned, copied, skipped, status>>
      PROVE  ThreadsOk'
  BY <1>0, <1>1, ThreadsStay DEF At, Goto
<1>2. Grows(disk, disk)
  BY DEF Grows
<1> USE DEF futureVars, installVars, callerVars, storeVars
<1>3. CASE Run \/ GiveUpFetch \/ FetchSucceeds \/ AwaitResources \/ EndInstall \/ EndTask
  BY <1>1, <1>2, <1>3 DEF Run, GiveUpFetch, FetchSucceeds, AwaitResources, EndInstall, EndTask, EndStage
<1>4. CASE FetchFails
  <2>1. /\ pc[Runner] = "fetch" /\ pc' = [pc EXCEPT ![Runner] = "fetchFailed"]
        /\ result' = [kind |-> "RCFetchError"]
        /\ UNCHANGED <<disk, read, got, returned, copied, skipped, status>>
    BY <1>4 DEF FetchFails, At, Goto
  <2>2. Fits(disk, result')
    BY <2>1 DEF Fits
  <2>3. ThreadsFit'
    BY <2>1, <2>2 DEF ThreadsOk, ThreadsFit
  <2>4. InstallFits'
    BY <1>0, <2>1 DEF ThreadsOk, InstallFits
  <2>5. SkippedMissing'
    <3>1. \A w \in Waiters : TakenOver(w) => TakenOver(w)'
      BY <1>0, <2>1 DEF TakenOver
    <3> QED BY <1>0, <2>1, <3>1 DEF ThreadsOk, SkippedMissing
  <2> QED BY <2>3, <2>4, <2>5 DEF ThreadsOk
<1>5. CASE StartDownloads \/ AwaitPackage \/ DecideLazy \/ OnFinish
  BY <1>1, <1>2, <1>5 DEF StartDownloads, AwaitPackage, DecideLazy, OnFinish
<1>6. CASE WriteConfig
  <2>1. Grows(disk, disk') /\ disk'.resManifest = disk.resManifest
    BY <1>0, <1>6 DEF WriteConfig, Disk, Grows
  <2> QED BY <1>1, <1>6, <2>1 DEF WriteConfig
<1>7. CASE ConfigResult
  <2>1. pc'[Saver] \in SaverPC
    <3>1. Goto(Runner, "configWrite") \/ Goto(Runner, "packageWait")
      BY <1>7, ResultFrame DEF ConfigResult
    <3> QED BY <1>0, <3>1 DEF Goto
  <2>2. CASE ReadResult(Runner, "configRead", "configWrite")
    BY <2>1, <2>2, ReadThreads
  <2>3. CASE WriteResult(Runner, "configWrite", "packageWait", TRUE, FALSE, Unset)
    <3> DEFINE yes == TRUE
               no == FALSE
    <3>1. yes \in BOOLEAN /\ no \in BOOLEAN /\ (no => disk.pkgFiles = "fetched")
      OBVIOUS
    <3>2. WriteResult(Runner, "configWrite", "packageWait", yes, no, Unset)
      BY <2>3
    <3> HIDE DEF yes, no
    <3> QED BY <2>1, <3>1, <3>2, WriteThreads
  <2> QED BY <1>7, <2>2, <2>3 DEF ConfigResult
<1>8. CASE DecideInstall
  BY <1>1, <1>2, <1>8 DEF DecideInstall
<1>9. CASE MovePackage
  <2>1. Grows(disk, disk') /\ disk'.resManifest = disk.resManifest
    BY <1>0, <1>9 DEF MovePackage, Disk, Grows, At, RunnerFits, PackageFits, BeforeMove
  <2> QED BY <1>1, <1>9, <2>1 DEF MovePackage, At
<1>10. CASE SaveLatePackage \/ SaveLazyPackage
  BY <1>1, <1>2, <1>10 DEF SaveLatePackage, SaveLazyPackage, LoadState, StorePackage
<1>11. CASE InstallStep(Runner)
  BY <1>11, InstallThreads
<1>12. CASE CompleteResources
  <2>1. /\ pc[Runner] = "complete" /\ pc'[Runner] \in {"dead", "installed"}
        /\ \A w \in Waiters : pc'[w] = pc[w]
        /\ pc'[Saver] \in {pc[Saver], "saving"}
    BY <1>0, <1>12 DEF CompleteResources, At
  <2>2. \A t \in Threads : t = Runner \/ t = Saver \/ t \in Waiters
    BY DEF Threads
  <2>3. pc'[Saver] \in SaverPC /\ pc[Saver] \notin {"copy", "skip", "returned"}
        /\ pc'[Saver] \notin {"skip", "latest", "write", "complete"}
    BY <1>0, <2>1 DEF SaverPC
  <2> QED BY <1>2, <1>12, <2>1, <2>2, <2>3, ThreadsStay DEF CompleteResources
<1>13. CASE FinalResult
  <2>1. pc'[Saver] \in SaverPC
    <3>1. Goto(Runner, "finalWrite") \/ Goto(Runner, "lazyDecide")
      BY <1>13, ResultFrame DEF FinalResult
    <3> QED BY <1>0, <3>1 DEF Goto
  <2>2. /\ flags.updatedConfig \in BOOLEAN /\ flags.didUpdate \in BOOLEAN
        /\ flags.didUpdate => disk.pkgFiles = "fetched"
    BY DEF TypeOK, RunnerFits, PackageFits
  <2>3. CASE ReadResult(Runner, "finalRead", "finalWrite")
    BY <2>1, <2>3, ReadThreads
  <2>4. CASE WriteResult(Runner, "finalWrite", "lazyDecide", flags.updatedConfig, flags.didUpdate, got[Runner])
    <3>a. PICK res : res = got[Runner]
      OBVIOUS
    <3>b. PICK c \in BOOLEAN, p \in BOOLEAN : c = flags.updatedConfig /\ p = flags.didUpdate
      BY <2>2
    <3>1. c = flags.updatedConfig /\ p = flags.didUpdate /\ res = got[Runner]
      BY <3>a, <3>b
    <3>2. WriteResult(Runner, "finalWrite", "lazyDecide", c, p, res)
      BY <2>4, <3>1 DEF WriteResult, Merged
    <3> QED BY <2>1, <2>2, <3>1, <3>2, WriteThreads
  <2> QED BY <1>13, <2>3, <2>4 DEF FinalResult
<1>14. CASE LazyNew
  <2>1. Grows(disk, disk') /\ disk'.resManifest = disk.resManifest
    BY <1>0, <1>14 DEF LazyNew, Disk, Grows
  <2> QED BY <1>1, <1>14, <2>1 DEF LazyNew
<1>15. CASE LazyCurrent
  <2>1. Grows(disk, disk') /\ disk'.resManifest = disk.resManifest
    BY <1>0, <1>15 DEF LazyCurrent, Disk, Grows
  <2> QED BY <1>1, <1>15, <2>1 DEF LazyCurrent
<1> QED BY <1>3, <1>4, <1>5, <1>6, <1>7, <1>8, <1>9, <1>10, <1>11, <1>12, <1>13, <1>14, <1>15
        DEF RunnerStep

LEMMA PoolThreads ==
  ASSUME TypeOK, ThreadsOk, PoolStep
  PROVE  ThreadsOk'
<1> USE ThreadFacts DEF futureVars, installVars, callerVars, storeVars
<1>1. Grows(disk, disk) /\ pc[Saver] \in SaverPC
  BY DEF Grows, ThreadsOk, InstallFits
<1>2. CASE PackageArrives \/ \E r \in Resources : ResourceArrives(r)
  BY <1>1, <1>2, ThreadsStay DEF PackageArrives, ResourceArrives
<1>3. CASE SaveResources
  <2>1. /\ pc[Saver] \in {"saving", "storing"}
        /\ pc' = [pc EXCEPT ![Saver] = "storing"] \/ pc' = [pc EXCEPT ![Saver] = "saved"]
        /\ UNCHANGED <<result, read, got, returned, copied, skipped, status, disk>>
    BY <1>3 DEF SaveResources, At, Goto
  <2>2. pc \in [Threads -> RunnerPC \cup WaiterPC \cup InstallPC \cup SaverPC]
    BY DEF TypeOK
  <2>3. /\ pc'[Saver] \in {"storing", "saved"} /\ \A t \in Threads : t # Saver => pc'[t] = pc[t]
    BY <2>1, <2>2
  <2>4. pc'[Saver] \in SaverPC
    BY <2>3 DEF SaverPC
  <2> QED BY <1>1, <2>1, <2>3, <2>4, ThreadsStay
<1> QED BY <1>2, <1>3 DEF PoolStep

LEMMA CallerThreads ==
  ASSUME TypeOK, RunnerFits, ThreadsOk, NEW w \in Waiters, Await(w) \/ CallerStep(w) \/ Timeout(w)
  PROVE  ThreadsOk'
<1> USE ThreadFacts
<1>0. /\ pc \in [Threads -> RunnerPC \cup WaiterPC \cup InstallPC \cup SaverPC]
      /\ pc[Saver] \in SaverPC /\ pc'[Saver] = pc[Saver] /\ Grows(disk, disk)
  BY CallerFrame DEF TypeOK, ThreadsOk, InstallFits, Grows
<1>1. ASSUME NEW from, from \notin {"copy", "skip", "returned"},
             NEW to, to \notin {"skip", "latest", "write", "complete"},
             At(w, from), Goto(w, to), status' = "INSTALLING" => status = "INSTALLING",
             CallerUnchanged, UNCHANGED returned
      PROVE  ThreadsOk'
  BY <1>0, <1>1, ThreadsStay DEF At, Goto, CallerUnchanged
<1> USE DEF futureVars, callerVars, storeVars
<1>2. CASE Await(w) \/ Timeout(w)
  BY <1>1, <1>2 DEF Await, Timeout
<1>3. CASE PassGate(w) \/ CheckPackage(w) \/ Recheck(w)
  BY <1>1, <1>3 DEF PassGate, CheckPackage, Recheck, NextGate
<1>4. CASE InstallStep(w)
  BY <1>4, InstallThreads
<1>5. CASE CallerResult(w)
  <2>1. CASE ReadResult(w, "resultRead", "resultWrite")
    BY <1>0, <2>1, ReadThreads
  <2>2. CASE WriteResult(w, "resultWrite", "packageCheck", FALSE, FALSE, got[w])
    <3> DEFINE no == FALSE
    <3>1. no \in BOOLEAN /\ (no => disk.pkgFiles = "fetched")
      OBVIOUS
    <3>2. PICK res : res = got[w]
      OBVIOUS
    <3>3. WriteResult(w, "resultWrite", "packageCheck", no, no, res)
      BY <2>2, <3>2 DEF WriteResult, Merged
    <3> HIDE DEF no
    <3> QED BY <1>0, <3>1, <3>2, <3>3, WriteThreads
  <2> QED BY <1>5, <2>1, <2>2 DEF CallerResult
<1>6. ASSUME NEW x, Return(w, x), Fits(disk, x), pc[w] \in {"expiring", "timedOutRead", "resultReturn"},
             CallerUnchanged, UNCHANGED status
      PROVE  ThreadsOk'
  <2>1. /\ returned[w] = Unset /\ returned \in [Waiters -> {Unset} \cup Returned]
    BY <1>6 DEF ThreadsOk, InstallFits, TypeOK
  <2>2. /\ pc'[w] = "returned" /\ \A t \in Threads : t # w => pc'[t] = pc[t]
        /\ returned'[w] = x /\ \A z \in Waiters : z # w => returned'[z] = returned[z]
        /\ UNCHANGED <<result, read, got, copied, skipped, status, disk>>
    BY <1>0, <1>6, <2>1 DEF Return, Goto, CallerUnchanged
  <2>3. ThreadsFit'
    BY <1>6, <2>2 DEF ThreadsOk, ThreadsFit
  <2>4. InstallFits'
    BY <1>0, <1>6, <2>2 DEF ThreadsOk, InstallFits
  <2>5. SkippedMissing'
    <3>1. \A z \in Waiters : TakenOver(z) => TakenOver(z)'
      BY <1>6, <2>1, <2>2 DEF TakenOver
    <3> QED BY <2>2, <3>1 DEF ThreadsOk, SkippedMissing
  <2> QED BY <2>3, <2>4, <2>5 DEF ThreadsOk
<1>7. CASE GiveUp(w)
  <2>1. awaited[w] \in AwaitedStage
    BY DEF TypeOK
  <2>2. /\ pc[w] = "expiring" /\ CallerUnchanged /\ UNCHANGED status
        /\ \/ Return(w, [kind |-> "ReleaseConfigFetchTimeout"])
           \/ Goto(w, "timedOutRead") /\ UNCHANGED returned
           \/ Return(w, [kind |-> "Unknown"])
    BY <1>7, <2>1 DEF GiveUp, At, AwaitedStage, FETCHING_RC, DOWNLOADING_UPDATES, INSTALLING
  <2>3. Fits(disk, [kind |-> "ReleaseConfigFetchTimeout"]) /\ Fits(disk, [kind |-> "Unknown"])
    BY DEF Fits
  <2> QED BY <1>1, <1>6, <2>2, <2>3 DEF At
<1>8. CASE ReturnTimeout(w)
  <2> DEFINE x == [kind |-> "PackageUpdateTimeout", rc |-> IF result.kind = "Ok" THEN result.rc ELSE Unset]
  <2>1. Fits(disk, x)
    <3>1. x.kind = "PackageUpdateTimeout" /\ x.rc = IF result.kind = "Ok" THEN result.rc ELSE Unset
      OBVIOUS
    <3> HIDE DEF x
    <3> QED BY <3>1 DEF Fits, ThreadsOk, ThreadsFit
  <2>2. Return(w, x) /\ pc[w] = "timedOutRead" /\ CallerUnchanged /\ UNCHANGED status
    BY <1>8 DEF ReturnTimeout, At
  <2> HIDE DEF x
  <2> QED BY <1>6, <2>1, <2>2
<1>9. CASE ReturnResult(w)
  BY <1>6, <1>9 DEF ReturnResult, At, ThreadsOk, ThreadsFit
<1> QED BY <1>2, <1>3, <1>4, <1>5, <1>7, <1>8, <1>9 DEF CallerStep

LEMMA NextThreads ==
  ASSUME TypeOK, RunnerFits, ThreadsOk, [Next]_vars
  PROVE  ThreadsOk'
<1>1. CASE UNCHANGED vars
  <2>1. pc[Saver] \in SaverPC
    BY DEF ThreadsOk, InstallFits
  <2> QED BY <1>1, <2>1, ThreadsStay DEF vars, futureVars, installVars, callerVars, storeVars, Grows
<1> QED BY <1>1, RunnerThreads, PoolThreads, CallerThreads DEF Next

-----------------------------------------------------------------------------
(* The invariant, and what follows from it. *)

LEMMA InitUInv ==
  ASSUME Init
  PROVE  UInv
<1> USE ThreadFacts
<1>1. TypeOK
  <2>1. /\ disk \in Disk /\ flags \in Flags /\ saved \in State
        /\ loaded \in [{Runner, Saver} -> State]
    BY ManifestFacts DEF Init, Disk, Flags, State, NoState
  <2>2. fetched \in Fetched
    BY ReleasesAssumption DEF Init
  <2>3. /\ stage \in Stage /\ timedOut \in BOOLEAN /\ result \in Result
        /\ packageUpdate \in {"null", "running", "NA", "Failed", "Finished"}
        /\ resourceUpdate \in {"null", "created", "started"}
        /\ download \in [Resources -> {"running", "ok", "error"}]
        /\ status \in {"DOWNLOADING", "INSTALLING", "TIMEDOUT"}
        /\ copied = Unset /\ skipped = Unset
    <3>1. [kind |-> "NA"] \in Result
      BY DEF Result
    <3>2. stage \in Stage
      BY DEF Init, Stage, INITIALIZING, FINISHED
    <3>3. download \in [Resources -> {"running", "ok", "error"}]
      BY DEF Init
    <3> QED BY <3>1, <3>2, <3>3 DEF Init
  <2>4. /\ pc \in [Threads -> RunnerPC \cup WaiterPC \cup InstallPC \cup SaverPC]
        /\ finished \in [Threads -> SUBSET Resources]
        /\ got \in [Threads -> {Unset} \cup SUBSET Entry]
        /\ read \in [Threads -> Result]
        /\ awaited \in [Waiters -> AwaitedStage]
        /\ returned \in [Waiters -> {Unset} \cup Returned]
    BY DEF Init, RunnerPC, WaiterPC, SaverPC, Result, AwaitedStage
  <2> QED BY <2>1, <2>2, <2>3, <2>4 DEF TypeOK, Disk, Flags, State
<1>2. /\ pc[Runner] = "new" /\ pc[Saver] = "idle" /\ \A w \in Waiters : pc[w] = "outside"
      /\ \A t \in Threads : pc[t] \in {"new", "idle", "outside"}
  BY DEF Init
<1>3. RunnerFits
  BY <1>2 DEF Init, RunnerFits, DownloadsFit, PackageFits, StagedFits, At, RunnerPC, Fetching, Starting,
     Waiting, BeforeDecide, BeforeMove, Moving, Installing, Ending, INITIALIZING, DOWNLOADING_UPDATES
<1>4. ThreadsFit
  <2>1. Fits(disk, [kind |-> "NA"])
    BY DEF Fits
  <2>2. Kept(disk, FALSE, disk.resManifest)
    BY ManifestFacts DEF Init, Kept
  <2> QED BY <2>1, <2>2 DEF Init, ThreadsFit
<1>5. InstallFits /\ SkippedMissing
  BY <1>2 DEF Init, InstallFits, SkippedMissing, SaverPC
<1> QED BY <1>1, <1>3, <1>4, <1>5 DEF UInv, RunnerFits

LEMMA NextUInv ==
  ASSUME UInv, [Next]_vars
  PROVE  UInv'
<1>1. TypeOK /\ RunnerFits /\ ThreadsOk /\ InstallFits
  BY DEF UInv, RunnerFits, ThreadsOk
<1> QED BY <1>1, NextType, NextRunnerFits, NextThreads DEF UInv, RunnerFits, ThreadsOk

\* The invariant the other theorems rest on: what each place of the runner
\* says of the downloads, the package and what is put aside, and that the
\* results and manifests the threads hold name files that are in place.
THEOREM UpdateInvariant == Spec => []UInv
BY InitUInv, NextUInv, PTL DEF Spec

\* Every variable keeps its type, for any callers, resources and release.
THEOREM UpdateTypeOK == Spec => []TypeOK
<1>1. UInv => TypeOK
  BY DEF UInv
<1> QED BY <1>1, UpdateInvariant, PTL

\* No manifest names a file of the fetched version that is not there, in
\* whichever order runner and callers install.
THEOREM UpdateManifests == Spec => []ManifestsBacked
<1>1. UInv => ManifestsBacked
  BY DEF UInv, PackageFits, ThreadsFit, Kept, ManifestsBacked, FetchedBacked
<1> QED BY <1>1, UpdateInvariant, PTL

\* No session is given a part of the fetched version whose files are not in
\* place; of what it is given of the local version this says nothing.
THEOREM UpdateSessions == Spec => []FetchedGivenInPlace
<1>1. ASSUME UInv PROVE FetchedGivenInPlace
  <2> SUFFICES ASSUME NEW w \in Waiters PROVE Kept(disk, Session(w).pkg, Session(w).res)
    BY DEF FetchedGivenInPlace, FetchedBacked, Kept
  <2>1. CASE /\ returned[w] \notin {Unset} /\ returned[w].kind \in {"Ok", "PackageUpdateTimeout"}
             /\ returned[w].rc # Unset
    <3>1. Fits(disk, returned[w])
      BY <1>1, <2>1 DEF UInv, ThreadsFit
    <3> QED BY <2>1, <3>1 DEF Fits, Session
  <2>2. CASE ~(/\ returned[w] \notin {Unset} /\ returned[w].kind \in {"Ok", "PackageUpdateTimeout"}
               /\ returned[w].rc # Unset)
    <3>1. Session(w) = LocalReleaseConfig
      BY <2>2 DEF Session
    <3> QED BY <3>1, ManifestFacts DEF LocalReleaseConfig, Kept
  <2> QED BY <2>1, <2>2
<1> QED BY <1>1, UpdateInvariant, PTL

\* A package that came too late, complete, is put aside by the end of the
\* task if no resource is.
THEOREM UpdateStages == Spec => []LatePackageStagedAlone
<1>1. ASSUME UInv PROVE LatePackageStagedAlone
  <2>1. fetched.lazy \in BOOLEAN
    BY <1>1 DEF UInv, TypeOK, Fetched
  <2> QED BY <1>1, <2>1 DEF UInv, StagedFits, LatePackageStagedAlone, LateAndComplete, At, Ending
<1> QED BY <1>1, UpdateInvariant, PTL

\* The manifest of the new package is replaced by the old one only if a
\* caller timed out.
THEOREM UpdateReverts == Spec => RevertNeedsTimeout
<1>1. ASSUME UInv, [Next]_vars, disk.pkgManifest, ~disk'.pkgManifest
      PROVE  timedOut
  <2>1. disk \in Disk
    BY <1>1, RecordTypes DEF UInv
  <2>2. ASSUME disk'.pkgManifest = disk.pkgManifest
        PROVE  FALSE
    BY <1>1, <2>2
  <2> USE DEF futureVars, installVars, callerVars, storeVars
  <2>3. CASE UNCHANGED vars
    BY <2>2, <2>3 DEF vars
  <2>4. CASE PoolStep
    BY <2>2, <2>4 DEF PoolStep, PackageArrives, ResourceArrives, SaveResources
  <2>5. ASSUME NEW w \in Waiters, Await(w) \/ CallerStep(w) \/ Timeout(w)
        PROVE  FALSE
    BY <1>1, <2>2, <2>5, CallerFrame DEF UInv
  <2>6. CASE RunnerStep
    <3>1. CASE LazyCurrent
      <4>1. flags.shouldCur /\ flags.didUpdate
        BY <1>1, <2>2, <3>1 DEF LazyCurrent, UInv, PackageFits
      <4> QED BY <1>1, <4>1 DEF UInv, PackageFits
    <3>2. ASSUME InstallStep(Runner) PROVE FALSE
      BY <1>1, <2>2, <3>2, InstallFrame DEF UInv
    <3>3. ASSUME ConfigResult \/ FinalResult PROVE FALSE
      <4>1. disk' = disk
        BY <3>3, ResultFrame DEF ConfigResult, FinalResult
      <4> QED BY <2>2, <4>1
    <3>4. ASSUME WriteConfig \/ MovePackage PROVE FALSE
      BY <1>1, <2>1, <3>4 DEF WriteConfig, MovePackage, Disk
    <3>5. ASSUME LazyNew PROVE FALSE
      <4>1. PICK ok \in BOOLEAN :
              disk' = [disk EXCEPT !.pkgManifest = disk.pkgManifest \/ (ok /\ ~flags.shouldCur)]
        BY <3>5 DEF LazyNew
      <4>2. disk'.pkgManifest <=> (disk.pkgManifest \/ (ok /\ ~flags.shouldCur))
        BY <2>1, <4>1 DEF Disk
      <4> QED BY <1>1, <4>2
    <3>6. CASE Run \/ GiveUpFetch \/ FetchSucceeds \/ AwaitResources \/ EndInstall \/ EndTask
      BY <2>2, <3>6 DEF Run, GiveUpFetch, FetchSucceeds, AwaitResources, EndInstall, EndTask, EndStage
    <3>7. CASE \/ FetchFails \/ StartDownloads \/ AwaitPackage \/ DecideInstall \/ SaveLatePackage
               \/ CompleteResources \/ DecideLazy \/ SaveLazyPackage \/ OnFinish
      BY <2>2, <3>7 DEF FetchFails, StartDownloads, AwaitPackage, DecideInstall, SaveLatePackage,
         CompleteResources, DecideLazy, SaveLazyPackage, OnFinish, LoadState, StorePackage
    <3> QED BY <2>6, <3>1, <3>2, <3>3, <3>4, <3>5, <3>6, <3>7 DEF RunnerStep
  <2> QED BY <1>1, <2>3, <2>4, <2>5, <2>6 DEF Next
<1>2. UInv /\ [Next]_vars => [disk.pkgManifest /\ ~disk'.pkgManifest => timedOut]_vars
  BY <1>1
<1> QED BY <1>2, UpdateInvariant, PTL DEF Spec, RevertNeedsTimeout

\* The runner dies only where a caller has taken the installation of the
\* resources from it and not finished it, or failed in it.
THEOREM UpdateDeaths == Spec => DeathNeedsTakeOver
<1> DEFINE Excused == \E w \in Waiters :
              \/ pc[w] \in {"copy", "skip"}
              \/ returned[w] # Unset /\ returned[w].kind = "Exception"
<1>1. ASSUME UInv, [Next]_vars, pc[Runner] = "complete", pc'[Runner] = "dead"
      PROVE  Excused
  <2>1. pc'[Runner] # pc[Runner]
    BY <1>1
  <2> USE ThreadFacts DEF futureVars, installVars, callerVars, storeVars
  <2>2. pc \in [Threads -> RunnerPC \cup WaiterPC \cup InstallPC \cup SaverPC]
    BY <1>1 DEF UInv, TypeOK
  <2>3. CASE CompleteResources
    <3>1. skipped = Unset
      BY <1>1, <2>2, <2>3 DEF CompleteResources
    <3> QED BY <1>1, <3>1 DEF UInv, SkippedMissing, TakenOver
  <2>4. CASE UNCHANGED vars \/ PoolStep
    BY <2>1, <2>2, <2>4 DEF vars, PoolStep, PackageArrives, ResourceArrives, SaveResources, Goto
  <2>5. ASSUME NEW w \in Waiters, Await(w) \/ CallerStep(w) \/ Timeout(w)
        PROVE  FALSE
    BY <1>1, <2>1, <2>5, CallerFrame DEF UInv
  <2>6. ASSUME ConfigResult \/ FinalResult PROVE FALSE
    <3>1. \/ At(Runner, "configRead") \/ At(Runner, "configWrite")
          \/ At(Runner, "finalRead") \/ At(Runner, "finalWrite")
      BY <2>6, ResultFrame DEF ConfigResult, FinalResult
    <3> QED BY <1>1, <3>1 DEF At
  <2>7. ASSUME Run \/ GiveUpFetch \/ FetchSucceeds \/ AwaitResources \/ EndInstall \/ EndTask
        PROVE  FALSE
    BY <1>1, <2>7 DEF Run, GiveUpFetch, FetchSucceeds, AwaitResources, EndInstall, EndTask, EndStage, At
  <2>8. ASSUME \/ FetchFails \/ StartDownloads \/ WriteConfig \/ AwaitPackage \/ DecideInstall
               \/ MovePackage \/ SaveLatePackage
        PROVE  FALSE
    BY <1>1, <2>8 DEF FetchFails, StartDownloads, WriteConfig, AwaitPackage, DecideInstall, MovePackage,
       SaveLatePackage, LoadState, StorePackage, At
  <2>9. ASSUME \/ DecideLazy \/ LazyNew \/ SaveLazyPackage \/ LazyCurrent \/ OnFinish
        PROVE  FALSE
    BY <1>1, <2>9 DEF DecideLazy, LazyNew, SaveLazyPackage, LazyCurrent, OnFinish, LoadState, StorePackage, At
  <2>10. ASSUME InstallStep(Runner) PROVE FALSE
    BY <1>1, <2>10 DEF InstallStep, EnterInstall, CopyResources, SetSkipped, BuildManifest,
       WriteResourceManifest, At
  <2> QED BY <1>1, <2>3, <2>4, <2>5, <2>6, <2>7, <2>8, <2>9, <2>10 DEF Next, RunnerStep
<1>2. UInv /\ [Next]_vars => [At(Runner, "complete") /\ (At(Runner, "dead"))' => Excused]_vars
  BY <1>1 DEF At
<1> QED BY <1>2, UpdateInvariant, PTL DEF Spec, DeathNeedsTakeOver

\* A timeout flagged before the downloads are over keeps the late package out
\* for good.
THEOREM UpdateKeepsOut == Spec => LatePackageKeptOut
<1> DEFINE Late == timedOut /\ disk.pkgFiles = "local" /\ pc[Runner] \notin {"copyPkg"} \cup Moving
           Flagged == timedOut /\ stage <= DOWNLOADING_UPDATES
           Out == disk.pkgFiles = "local"
<1>1. UInv => (Flagged => Late)
  BY DEF UInv, DownloadsFit, PackageFits, BeforeMove, BeforeDecide, Fetching, Starting, Waiting, Moving
<1>2. ASSUME UInv, Late, [Next]_vars
      PROVE  Late'
  <2> USE ThreadFacts DEF futureVars, installVars, callerVars, storeVars, Moving
  <2>1. pc \in [Threads -> RunnerPC \cup WaiterPC \cup InstallPC \cup SaverPC] /\ disk \in Disk
    BY <1>2, RecordTypes DEF UInv, TypeOK
  <2>2. ASSUME timedOut', disk'.pkgFiles = disk.pkgFiles,
               pc'[Runner] = pc[Runner] \/ pc'[Runner] \notin {"copyPkg", "copyingPkg", "writePkg"}
        PROVE  Late'
    BY <1>2, <2>2
  <2>3. CASE UNCHANGED vars
    BY <1>2, <2>2, <2>3 DEF vars
  <2>4. CASE PoolStep
    BY <1>2, <2>1, <2>2, <2>4 DEF PoolStep, PackageArrives, ResourceArrives, SaveResources, Goto
  <2>5. ASSUME NEW w \in Waiters, Await(w) \/ CallerStep(w) \/ Timeout(w)
        PROVE  Late'
    BY <1>2, <2>2, <2>5, CallerFrame DEF UInv
  <2>6. CASE RunnerStep
    <3>1. CASE ConfigResult \/ FinalResult
      <4>1. /\ UNCHANGED <<timedOut, disk>>
            /\ \/ Goto(Runner, "configWrite") \/ Goto(Runner, "packageWait")
               \/ Goto(Runner, "finalWrite") \/ Goto(Runner, "lazyDecide")
        BY <3>1, ResultFrame DEF ConfigResult, FinalResult
      <4> QED BY <1>2, <2>1, <2>2, <4>1 DEF Goto
    <3>2. CASE Run \/ GiveUpFetch \/ FetchSucceeds \/ AwaitResources \/ EndInstall \/ EndTask
      BY <1>2, <2>1, <2>2, <3>2 DEF Run, GiveUpFetch, FetchSucceeds, AwaitResources, EndInstall, EndTask,
         EndStage, Goto
    <3>3. CASE DecideInstall
      BY <1>2, <2>1, <2>2, <3>3 DEF DecideInstall, Goto
    <3>4. CASE FetchFails \/ StartDownloads \/ AwaitPackage \/ SaveLatePackage \/ CompleteResources
      BY <1>2, <2>1, <2>2, <3>4 DEF FetchFails, StartDownloads, AwaitPackage, SaveLatePackage,
         CompleteResources, LoadState, StorePackage, Goto
    <3>5. CASE WriteConfig \/ LazyNew \/ LazyCurrent
      <4>1. disk'.pkgFiles = disk.pkgFiles
        BY <2>1, <3>5 DEF WriteConfig, LazyNew, LazyCurrent, Disk
      <4> QED BY <1>2, <2>1, <2>2, <3>5, <4>1 DEF WriteConfig, LazyNew, LazyCurrent, Goto
    <3>6. CASE DecideLazy \/ SaveLazyPackage \/ OnFinish
      BY <1>2, <2>1, <2>2, <3>6 DEF DecideLazy, SaveLazyPackage, OnFinish, LoadState, StorePackage, Goto
    <3>7. ASSUME MovePackage PROVE FALSE
      BY <1>2, <3>7 DEF MovePackage, At
    <3>8. CASE InstallStep(Runner)
      <4>1. UNCHANGED timedOut /\ disk'.pkgFiles = disk.pkgFiles
        BY <1>2, <3>8, InstallFrame DEF UInv
      <4>2. pc'[Runner] \in {"copy", "skip", "latest", "write", "complete", "returned"}
        BY <2>1, <3>8 DEF InstallStep, EnterInstall, CopyResources, SetSkipped, BuildManifest,
           WriteResourceManifest, AfterInstall, Goto
      <4> QED BY <1>2, <2>2, <4>1, <4>2
    <3> QED BY <2>6, <3>1, <3>2, <3>3, <3>4, <3>5, <3>6, <3>7, <3>8 DEF RunnerStep
  <2> QED BY <1>2, <2>3, <2>4, <2>5, <2>6 DEF Next
<1>3. Late => Out
  OBVIOUS
<1> HIDE DEF Late
<1>4. UInv /\ Late /\ [Next]_vars => Late'
  BY <1>2
<1> HIDE DEF Flagged, Out
<1>5. Spec => [](Flagged => []Out)
  BY <1>1, <1>3, <1>4, UpdateInvariant, PTL DEF Spec
<1> QED BY <1>5 DEF LatePackageKeptOut, Flagged, Out
============================================================================
