# Airborne: TLA+ models, model checking and proofs

Airborne delivers over-the-air updates to mobile applications. A server keeps organisations,
applications, files, packages and releases, and builds a versioned archive of each release; an
SDK inside the application (Android, iOS, React Native on top of both) fetches the release
config when the application starts, downloads what changed, and decides, against a boot
timeout, which version the session runs.

This directory holds TLA+ modules of the parts of that code that are hard to get right by
testing, the TLC runs that check them on small instances, and proofs, checked by TLAPS, of what
holds for every instance. Paths below are relative to the repository. The present modules are
about these files, which later sections call by their last names:

- `airborne_sdk_android/airborne/src/main/java/in/juspay/airborne/ota/UpdateTask.kt`
- `airborne_server/src/build.rs`
- `airborne_cli/src/utils/file.js`, `package.js`, `release.js`, `common.js` and the commands that
  call them; `airborne_server/src/file.rs`, `package.rs`, `release/utils.rs` (the cache of rows)
- `airborne_server/src/release.rs`, `release/utils.rs` and the release wizard of
  `airborne_dashboard` (`components/release/`, `app/dashboard/[orgId]/[appId]/releases/`)
- `airborne_server/src/organisation/application/dimension/cohort.rs` and the cohorts page
  (`app/dashboard/[orgId]/[appId]/cohorts/page.tsx`)

Contents: 1 inventory, 2 plan, 3 modules, 4 runs, 5 fairness, 6 proofs, 7 findings, 8 what is
abstracted or left out, 9 how to run.

## 1. Inventory

### 1.1 Components and how they interact

    application ── await ──> UpdateTask ── HTTP ──> server (release config, files)
        │                      │  │
        │                      │  └── OTAServices' shared thread pool (doAsync)
        │                      └───── installed files, manifests, state.json, temp directories
        └─ ApplicationManager: registry of running tasks, clean-up

    dashboard / CLI / clients ── HTTP ──> server handlers ── Postgres, S3, Redis
                                              │                Superposition (configs, experiments)
                                              └── Casbin enforcer + authz_memberships
    SDK events ── HTTP ──> analytics server ── Kafka ──> consumer ──> ClickHouse

| component | state it keeps | operations | what is hard | what makes it correct |
|---|---|---|---|---|
| Android: stages and wait queue (`UpdateTask.kt`, `WaitTask.kt`) | `currentStage`, a bounded `waitQueue`, the callers' wait tasks, `updateTimedOut` | `run`, `onComplete`, `await`, `awaitCompletion`, `waitForStage` | stage and queue have no common lock; timers race stages; the queue may be full; the runner may die | no caller sleeps on a stage that is over; a caller passes a gate only when its stage is over; every call returns |
| Android: fetch, download, install (`UpdateTask.kt`, `UpdateResult.kt`, `ReleaseConfig.kt`) | `currentResult`, futures, `resourceDownloadStatus`, lateinit `copied`/`skipped`, installed files and manifests, `state.json` | `runInternal`, `ResourceUpdateTask`, `setCurrentResult`, `setInPersistentState`, `downloadLazySplits` | a caller that times out installs on its own thread; everything shared is read and written in separate steps | manifests and sessions name files of the new version only once they are there; a late package does not enter a running session, and is staged; the task ends |
| Android: application manager (`ApplicationManager.kt`) | static registry `RUNNING_UPDATE_TASKS`, release config in use | `loadApplication`, `tryUpdate`, `postReleaseConfig`, `runCleanUp` | sessions of one process share a task; clean-up works from a snapshot | what a session uses is never deleted; a finished or dead task is not awaited for ever |
| Android: file services, pool (`FileProviderService.java`, `Workspace.kt`, `OTAUtils.kt`) | file cache, temp directories, pool of 6 threads with an unbounded queue | read, write, copy, `doAsync` | tasks of the pool wait for tasks of the pool | no set of waiting tasks stops the pool |
| Android: network | none | HTTP transfer, TLS set-up | I/O | (an outcome in the models) |
| iOS: application manager (`AJPApplicationManager.swift`) | flags and manifests under locks and queues, timers, observers | fetch with timeout, package and resource download, completion | a global notification carries the timeout; flags are read after the observer is removed | the completion handler is called exactly once; a late package stays out |
| Server: builds (`build.rs`, `utils/semver.rs`) | table `builds`, S3 objects, Maven metadata, one Superposition key | `serve_version`, `serve_zip`, `serve_aar` → `generate`, `build` | four stores without a transaction, rows that are leases of five minutes, retries, background builds | a READY row is a complete build, whose archives agree; a version belongs to one release; the key names a READY build |
| Server: roles (`provider/authz/casbin.rs`) | Casbin policies and `authz_memberships` | add, update, remove user; transfer ownership; bootstrap | check-then-act across two stores | an organisation has an owner; both stores agree |
| Server: organisations, applications (`organisation*.rs`, `utils/workspace.rs`) | `workspace_names`, Superposition workspace, policies, cached names | create organisation, create application | five stores, no transaction, a unique placeholder name | a failed creation can be repeated and blocks nobody |
| Server: migrations (`utils/migrations.rs`, `utils/advisory_lock.rs`) | advisory locks, per-workspace migration | migrate all, migrate one | two paths, one of them without the lock | one migrator per workspace |
| Server: releases (`release.rs`) | Superposition experiments and contexts | create, update, ramp, conclude, discard, serve | the state is remote, each call a step; a variant is a copy of the configuration of some time ago | what is served is a package and its files; a target has one ongoing release; a revert gives back what was served |
| Server: files, packages (`file.rs`, `package.rs`, `utils/redis.rs`) | versioned rows, Redis caches by row and by tag | upload, create, tag, list, package | a row is pending while its file is streamed, and may be deleted; version numbers are read, then inserted; the cache is filled with what it finds | a file once ready is never replaced; a package names ready files |
| Server: cohorts (`cohort.rs`) | a schema per cohort dimension, kept by Superposition | add a checkpoint, add a group, reorder groups | read-modify-write over two calls; the order of names is the meaning | every user is in the cohort the documentation promises |
| Server: dimensions, properties (`dimension.rs`, `properties/transaction.rs`) | remote definitions | read-modify-write, `run_fail_end` | parallel operations with rollback by new requests | all or nothing |
| Command line tools (`airborne_cli`, `airborne-core-cli`) | `.airborne/mappings.json`, `release_config.json` of each platform | update the local release config, create remote files, create a remote package | both platforms rewrite one file without a lock; a record of a row outlives the answer that made it | a local record names what is on the server |
| Dashboard: release wizard, cohorts page (`airborne_dashboard`) | React state, requests in flight | steps back and forth, picks, late answers, submit; select, load, drop, save | effects run when the package changes; an answer is shown under what is selected by then | what was composed fits the package; an order is saved for its own dimension |
| Server: authentication, start-up, plumbing | none kept | tokens, wiring | delegated | – |
| Analytics (`core/kafka.rs`) | batch of events, consumer offset | consume, flush, commit | at-least-once delivery | a committed offset implies stored events |
| React Native plugin, other dashboard pages, Smithy models, generated clients, macros, docs | – | bridges, forms over one request, code generation | – | – |

### 1.2 Behaviours that are hard here

`PROJECT.json` lists them as hazards, each at its line. In short:

- Android: lost wake-ups between `offer` and the stage read; the timer that ends as the stage
  does; a caller that takes the installation over from the runner; lateinit fields set by
  whichever thread installs; callers woken before the result is stored; manifests written in a
  different order than files; `state.json` written by two threads.
- Builds: two requests for one release or one version; a stale row seen by two requests; a live
  build that outlasts its lease; a failed upload whose objects stay; metadata read, changed and
  written by concurrent builds; a key read long before it is used.
- Publishing: an upload whose row is pending while others read, package or cache it; a failed
  upload whose version is given again; `mappings.json` read, truncated and written by two
  commands; an answer that is lost after the row was made.
- Releases: a check of ongoing releases in one call and the creation in another; a control variant
  concluded much later; requests that leave out lists, filled in from a configuration of another
  package; a package that arrives in the wizard after another one was picked.
- Cohorts: two handlers that read the same schema; a new checkpoint that bounds only the newest
  one; an order of groups loaded for one dimension and saved for another.
- Elsewhere: last-owner checks, role changes as several writes, a placeholder row that blocks all
  creations after a crash, try-locks on one of two migration paths, caches filled after they were
  invalidated, batches dropped and then acknowledged, a global timeout notification on iOS, a pool
  whose tasks wait for its own tasks.

## 2. Plan

Done, in this order:

1. `Stages`, `StageGate` (what `await` promises), `StageQueue` (how the queue does it), the
   refinement between them, and the proofs `StageQueueProofs` and `StageGateProofs`.
2. `UpdateTask`: the whole of `runInternal` and the callers that race it. It uses the gates of
   `StageGate`, not the queue: `StageQueue` shows the queue may be replaced by them. The proofs
   `UpdateTaskProofs`.
3. `BuildPipeline`: builds on the server, with failures and crashes; the proofs
   `BuildPipelineProofs`.

4. `Registry` (what the tables of files and packages promise), `Publish` (commands, handlers,
   cache), and the refinement between them; the proofs `PublishProofs`.
5. `Release`: the wizard, the release handlers, what users are served; the proofs `ReleaseProofs`.
6. `Cohorts`: the cohort handlers and the cohorts page. `MCRelease` checks it beside `Release`, as
   two pages of one dashboard; the proofs `CohortsProofs`.

To do, most important first:

7. `IosManager`: release-config timer, boot timer, package and resource download, completion
   handler. Abstract specification: a completion handler that fires once with a consistent
   manifest. Two workspaces, because the timeout notification is global.
8. `OtaStore`: registry of tasks, `state.json`, temp directories, `runCleanUp`, `copyTempPkg` at the
   next start, process restart. It composes with `UpdateTask` through the disk and `state.json`:
   `UpdateTask`'s final disk is `OtaStore`'s initial one.
9. `OtaPool`: the nesting of `doAsync` and `get` over six threads; the question is deadlock.
10. `OrgRoles`: policies and memberships as two stores; the last owner. Abstract specification: an
   organisation with atomic role changes.
11. `AppCreation`: creation in five stores, the placeholder row, the cached workspace name, the
   migration locks.
12. `EventConsumer`, `TagCache`, `FanOut`: one small module each.

Proofs: every safety invariant, action property and refinement that a passing run checks is a
theorem (6). Planned: with each module above, its invariant and its refinement.

## 3. Modules

### Stages, StageGate, StageQueue

`Stages` has the ordinals of `UpdateTask.Stage`. `StageGate` is the abstract specification: a
caller stands at the gate of a stage, passes it when the stage is over (or, for downloads, when
the package future is done), or gives up while the stage is not over.

`StageQueue` is the code. The runner's `onComplete` is five steps: write `currentStage`
(`OnComplete`), read `waitQueue.size` (`TakeSize`), poll (`Poll`), complete the entry or put it
back (`CompleteHand`, `PutBack`), end of the turn (`TurnEnds`), and at FINISHED the drain
(`Drain`). A caller's `awaitCompletion` is: `offer` (`Offer`), read the stage (`CheckStage`), take
the own entry back if it is over (`RemoveOwn`), then `wt.get` returns (`Wake`) or throws (`Timeout`);
`waitForStage` reads the stage again (`Recheck`) and sets `updateTimedOut` (`GiveUp`). `Die` is an
exception in `runInternal`, which the pool swallows. The refinement mapping is `GateOf`.

### UpdateTask

One task of `runInternal` with its threads: `Runner`, one per caller, and `Saver`
(`saveDownloadedResources`). The program counters name the code's places; each read or write of a
shared field is a step. A version is a Boolean, the installed or the fetched one; `fetched` says
how the fetched release config differs from the local one, so a run covers updates of the config,
the package, lazy files and resources, and a first start with nothing installed.
`EnterInstall` … `WriteResourceManifest` are `installDownloadedResources`, run by the runner or by
a caller; `ReadResult`/`WriteResult` are `setCurrentResult`; `LoadState` and the writes after it are
`setInPersistentState`; `MovePackage` is `movePackageUpdate`, whose copies may fail half-way.

The files of the fetched version are written over those of the local one. What the disk holds
(`pkgFiles`, `resFiles`) is therefore backing for the fetched version's manifests and sessions
only, which is what `FetchedBacked` and the properties built on it say; that a session on the local
version loses its files under it is finding 3.

### BuildPipeline

`Requests` call `generate` for the release the configuration service resolves at that moment, and
go through the three cases (key names this release; answer with the previous build and go on in
the background; build). Each database statement, object upload, metadata access and key update is
a step. An archive has two parts: the files of the release that was resolved, and the
`release_config.json` that the server asks its own `/release` address for just before the uploads
(build.rs:388), which may be another release's: `Served` lets it be any of `Configs`. `Default` is the
configuration before any release, version 0.0.0: a request claims a version for it like for
another, but it names no file, so nothing is uploaded (`Uploads`, build.rs:313).

`Insert` is refused by the two unique indexes of the migrations (`Conflicts`), and the loop tries
again. Every external call may fail, and `Crash` stops the server under a request at any
step. `Age` makes a row older than five minutes; `slow` counts the rows that aged under a live
build.

### Registry, Publish

`Registry` is what the two tables promise: a version of a file is published once, with one
content, and a package names published files. `Publish` is the code that has to keep it. Each
platform of `Platforms` runs one command at a time: `UpdateLocal` (`update-local-release-config`),
`StartFiles` … `FinishFiles` (`create-remote-files`: skip what is recorded, send, take the answer,
read, truncate and write `mappings.json`, at the end `release_config.json`), `StartPackage` …
`TakePackage` (`create-remote-package`). A request goes through `CheckUpload`/`CheckCreate`,
`ReadLatest`, `Insert`, then `Commit` or `Rollback` (the stream to the bucket), or `LookUp`,
`Number`, `Save` (a package). `ReadLatest` locks the latest row until the transaction ends, which
`Locked` says for the statements that would wait. `Serve` and `Expire` are the cache of rows,
`PackageByHand` and `Retag` the dashboard. `CliCrash`, `LoseAnswer`, `Drop` and `ServerCrash` are the
faults, and `StatementFails`: a handler whose statement, or connection to the database, failed
answers with an error and undoes nothing, so an upload that cannot complete or delete its row
leaves it pending. The refinement mapping is `Published`, `Packaged`.

### Release

`exps` and `contexts` are Superposition's state: experiments and the overrides of each target.
`Resolved` and `Served` are what it answers without and with experiments. A request is a slot that
goes from call to call: `CheckOngoing`, `Build` (`build_overrides`: `Accepts`, `ConfigFor`),
`CreateExperiment` and, for a first release, `RampFirst` and `ConcludeFirst`; `PutOverrides`;
`RampRelease`; `ConcludeRelease`; `ReadStatus` and `DiscardRelease`; `Fault` is any of these calls
failing. The wizard is `form`, from the step where a package is picked on: `Prioritised` and
`Stripped` are the effects its fifth and sixth step run whenever the package changes,
`InitialPackage` the answer that may come at any time, and `OpenDialog` composes the request once.
A target is a set of dimensions with their values; two are enough to tell the default from a more
specific one. `made` in a configuration is history, it tells the wizard's releases from others.

### Cohorts

A schema is a list of names, `enum`, and their definitions, `defs`; the first name whose definition
a user satisfies is the user's cohort (`CohortOf`). `AddCheckpoint`, `AddGroup` and
`WithPriorities` are what the three handlers compute, `ReadSchema` and `WriteSchema` their two
calls. `Reordered` applies the entries of a priority map in every order, since the code takes them
from a hash map. The page (`page`, `loads`) shows the answer that came last, whichever dimension it
was asked for: `SelectDimension`, `AnswerLoad`, `TakeLoad`, `CreateCohort`, `DropGroup`,
`SaveOrder`; of a schema it keeps the groups with their places.

The dimensions may begin as any schema the handlers leave while every checkpoint stays
(`StartsAssumption`): new, or groups over checkpoints (`Arranged`). Two fields are history: the
checkpoints in the order they were created (`created`, which `Promised` compares with), and whether
one was moved.

### Variants

Definitions called variants (`TakeSizeShort`, `StaleByRelease`, …) are plausible mistakes of a
definition that follows them. No action of a specification uses them; putting one in the place of
its original must break a property, which shows that the property depends on that line of code.

## 4. Runs

Sizes are distinct states.

| run | instance | states | shows |
|---|---|---|---|
| `stage_queue` | 3 callers, room for 9 entries | 595,310 | no accepted entry is lost, no caller sleeps through the end of its stage, passing means installed, the queue implements the gates |
| `stage_queue_live` | 2 callers, capacity 2 | 96,398 | with a queue that fills up: the runner wakes every entry it knows without timers, and with timers every call returns |
| `update_task` | 1 caller, 1 resource, 4 kinds of release | 162,488 | all safety and liveness properties of a task |
| `update_task_two` | 2 callers, 1 resource, one kind of release | 626,238 | the same safety with up to three overlapping installations |
| `happy_case`, `task_finishes`, `timed_out_session` | 1 caller | – | three statements of the documentation the code does not meet (7) |
| `build_pipeline` | 3 requests, 0.0.0 and 2 releases, no slow build | 905,978 | versions, objects, metadata and key agree as long as no live build is slow |
| `build_takeover`, `build_metadata` | 3 and 2 requests | – | two statements of the code's comments it does not meet (7) |
| `publish` | 2 platforms, 1 asset, 2 contents, 1 tag beside none, 2 requests, 3 commands, 1 mishap | 1,428,632 | local records, rows, packages and the cache agree, and the tables implement the registry |
| `release` | 2 packages of 2 and 1 files, 2 targets, 3 releases, 2 requests, failing calls, the wizard once or four requests; or the cohorts page: 2 dimensions, 3 values in two orders, 2 changes, 2 requests | 1,388,133 | what is served fits its package, one ongoing release per target, reverts and patches do what they say; every user in the cohort promised |

Why the bounds are enough to meet the interesting cases. A caller makes at most three entries (one
per awaited stage), and an entry interacts with the runner's turn and with the full queue: two
callers fill a queue of two with stale entries while one waits, and three callers give a turn with
an entry before, at and after the one polled. In `UpdateTask` the overlap of installations needs
the runner and two callers; more resources only repeat the per-file choice. In `BuildPipeline` two requests race for
a release or version and the third finds what they left; two releases are what the key, the
previous build and a version given twice need. Versions need no bound of their own: a request
claims at most one. An archive's configuration is any of the two releases, whatever release its
files are of. `MaxSlow` bounds how often the environment lets a live build outlast five minutes; the
properties of `build_pipeline` other than `TypeOK` are stated for `slow = 0`, so it is 0 there, and
1 in `build_takeover`, which shows what is lost otherwise. Symmetry is used over callers and requests, only in
runs without liveness properties.

In `publish` a row goes wrong between two requests for one path, and a record between two commands
that share `mappings.json`: two slots and two platforms, three commands (two publish and a package
is made, or one publishes twice), two versions, one tag beside none. One mishap, a crash, a lost
answer, a failed statement or an action by hand, because the properties say what each mishap may
spoil; with none, the run is the fault-free system. A bundle of
more files repeats the loop. In `release`, opening the wizard costs three of the four units clients
may spend, so a behaviour has the wizard and one other request, or four requests; three releases
are one that was concluded or is ongoing (`MCPasts`), one being made and one that races it. Two
packages share a file and differ by another, and a file of the application has a second version,
so that every case of `Accepts`, `Prioritised` and `Stripped` occurs. The cohorts page and the
releases share no state, so `MCRelease` gives a behaviour to one of them (`open`). Its dimension
begins with two groups over a checkpoint, beside one with a checkpoint that has a group's name;
two changes on top are what a race, or a stale order, takes. `MCRelease` also evaluates
`Kept(2) /\ Kept(3) /\ ~Kept(4)`: two and three groups are always left in the order asked for, four
need not be (7).

The properties, by question:

- `EntryKept`, `NoLostWakeup`, `KnownEntryWakes`, `EveryAwaitReturns`: the queue.
- `PassedOnlyAfterInstall`, `ImplementsGates`: what the gates promise.
- `ManifestsBacked`, `FetchedGivenInPlace`: the files of the fetched version are in place before a
  manifest names them or a session is given them. Nothing is said of the local version's files,
  which are replaced in place: `timed_out_session` shows a session losing them.
- `LatePackageKeptOut`, `LatePackageStagedAlone`, `RevertNeedsTimeout`: the late package.
- `DeathNeedsTakeOver`, `RunnerStops`, `AwaitReturns`: the threads end, and the runner dies of one
  cause only.
- `ReadyIsComplete`, `ReadyStaysReady`, `AnswerBacked`, `OneBuilder`: a version has the files of one
  release and one configuration.
- `KeyNamesReady`, `MetadataListsReady`, `PreviousBuildAnswers`: what the other stores say of builds.
- `LocalRecordsBacked`: whatever `mappings.json` and `release_config.json` record is on the server.
- `PackageKeepsTag`, `ServedAsPublished`, `ImplementsRegistry`: a package is what its command meant,
  in the tables and through the cache; `OrphanNeedsFault`: a pending row is left behind only by a
  crash, a client that went away or a failed statement.
- `ServedSplitsPackage`, `SplitsComplete`: the lists a user is served belong to the package served.
- `OngoingDistinct`, `RevertRestores`, `PatchKeepsPackage`: races between releases, and what a
  conclusion puts in force.
- `CohortsSafe`: `UsersAsPromised` (a group the user is in, the upper one first, else the newest
  checkpoint reached) and `CheckpointsStay` (only a lost update, another client or an order of
  another dimension moves a checkpoint).

Deadlock checking is off throughout: a task, a call of `await` and a request end, and a system
whose threads have all ended has no next step. Waiting for ever is what the liveness properties
exclude.

## 5. Fairness

- `QueueSpec`: weak fairness of the runner's steps and of each caller's steps, that is, threads
  are scheduled and what `runInternal` does between two stages ends (its HTTP calls have timeouts).
  `Timeout` is not fair there: `KnownEntryWakes` says the queue alone wakes a caller.
  `EveryAwaitReturns` assumes `TimerFairness`, a timed `get` returns or throws, and holds although
  the runner may die: `Die` is never forced.
- `FairSpec` of `UpdateTask`: the runner, the saver, each download (the client has connect and read
  timeouts and a bounded number of tries) and each caller, whose step is either its own or its
  timeout. `Timeout` may happen at any time a caller waits: nothing relates the two boot timeouts to
  the speed of the downloads.
- `Publish`, `Release` and `Cohorts` have none either: a command or a person tries again, the code
  does not.
- `BuildPipeline` has no liveness property: a build that fails is only built again when somebody
  asks for it, and the code promises no more.

Steps interleave as if memory were sequentially consistent. `currentStage` and `currentResult`
are volatile, the futures are safely published by the pool; `resourceDownloadStatus`, `resourceUpdate`
and the lateinit fields are plain, and what a weaker memory order would add for them is not modelled.

## 6. Proofs

| theorem | module | assumption | says |
|---|---|---|---|
| `TypeCorrect` | `StageQueueProofs` | none | `TypeOK` is invariant |
| `NoWakeupLost` | `StageQueueProofs` | `QueueHasRoom` | `NoLostWakeup` is invariant |
| `NoEntryDropped` | `StageQueueProofs` | `QueueHasRoom` | `EntryKept` is invariant |
| `PassingMeansInstalled` | `StageGateProofs` | none | `PassedOnlyAfterInstall` is invariant |
| `QueueImplementsGates` | `StageGateProofs` | none | `StageQueue` implements `StageGate` |
| `UpdateTypeOK` | `UpdateTaskProofs` | the module's | `TypeOK` of `UpdateTask` is invariant |
| `UpdateManifests`, `UpdateSessions` | `UpdateTaskProofs` | the module's | `ManifestsBacked`, `FetchedGivenInPlace` are invariant |
| `UpdateStages` | `UpdateTaskProofs` | the module's | `LatePackageStagedAlone` is invariant |
| `UpdateKeepsOut` | `UpdateTaskProofs` | the module's | `LatePackageKeptOut` holds |
| `UpdateReverts`, `UpdateDeaths` | `UpdateTaskProofs` | the module's | every step satisfies `RevertNeedsTimeout`, `DeathNeedsTakeOver` |
| `BuildTypeOK` | `BuildPipelineProofs` | the module's | `TypeOK` of `BuildPipeline` is invariant |
| `BuildComplete`, `BuildAnswers`, `BuildExclusive`, `BuildKey`, `BuildMetadata`, `BuildPrevious` | `BuildPipelineProofs` | the module's | `ReadyIsComplete`, `AnswerBacked`, `OneBuilder`, `KeyNamesReady`, `MetadataListsReady`, `PreviousBuildAnswers` are invariant |
| `BuildReadyStays` | `BuildPipelineProofs` | the module's | every step satisfies `ReadyStaysReady` |
| `PublishTypeOK` | `PublishProofs` | the module's | `TypeOK` of `Publish` is invariant |
| `PublishRecords`, `PublishTags`, `PublishServes`, `PublishNoOrphans` | `PublishProofs` | the module's | `LocalRecordsBacked`, `PackageKeepsTag`, `ServedAsPublished`, `OrphanNeedsFault` are invariant |
| `PublishImplementsRegistry` | `PublishProofs` | the module's | `Publish` implements `Registry` |
| `ReleaseTypeOK` | `ReleaseProofs` | the module's | `TypeOK` of `Release` is invariant |
| `ServedSplits` | `ReleaseProofs` | the module's | `ServedSplitsPackage` is invariant |
| `ServedComplete` | `ReleaseProofs` | the module's | `SplitsComplete` is invariant |
| `OngoingApart` | `ReleaseProofs` | the module's | `OngoingDistinct` is invariant |
| `RevertGivesBack`, `PatchLeavesPackage` | `ReleaseProofs` | the module's | every step satisfies `RevertRestores`, `PatchKeepsPackage` |
| `CohortsCorrect` | `CohortsProofs` | the module's | `CohortsSafe` is invariant |

`UpdateInvariant`, `BuildInvariant`, `PublishInvariant`, `Inductive` and `SchemasArranged` say that the invariants the
others rest on hold. "The module's" are the named assumptions on its constants, given below.

Those of the queue hold for any set of callers and any capacity; `QueueHasRoom` says there are finitely many
entries and no more than the queue holds. Without it a caller whose offer was refused, or whose
entry was dropped when it was put back, is left to its timer, and both properties are false: they
are the price of `offer` on a bounded queue, paid in time only, as `QueueImplementsGates` shows
without the assumption.

*No lost wake-up.* `NoLostWakeup` is not inductive: it speaks of callers that are blocked, and a
caller becomes blocked by reading the stage. `IndInv` adds that an entry of the caller's present
stage is in the queue, in the runner's hand, or completed, from the moment it is offered
(`EntryKeptOrDone`), that entries are distinct and were offered (`EntriesDistinct`,
`EntriesOffered`; with `QueueHasRoom` they give room for one more, lemma `RoomForOne`), and that a
turn belongs to the stage just written (`TurnOfStage`, `HandInTurn`). The critical steps are
`CheckStage` (the stage may have changed since the offer: then the entry is still in the turn that
began with that change), `PutBack` (the entry is of a later stage) and `RemoveOwn` (an entry taken
out moves the later ones towards the poll, lemma `RemoveAtProperties`).

*Refinement.* `GateInv` says that an entry is completed only when its stage is over (`DoneIsOver`),
that the drain happens at FINISHED (`DrainsAtEnd`), and where callers stand (`CallersAtGates`). From
it, each step is mapped: `OnComplete` to `Advance`, `Wake`, the swallowed timeout and the late
`Recheck` to `Pass` (lemma `PassGateMaps`), the failed `Recheck` to `Expire`, everything else to a
stutter.

*Update task.* For any callers, resources and kinds of fetched release config. Assumed: the threads
are distinct, the resources finitely many, and `Unset`, which stands for null, is none of the
values a field may hold. `UInv` joins what the place of the runner says to what is on the disk:
which downloads are started (`DownloadsFit`), that the package is moved in once and only then named
by a manifest or a flag (`PackageFits`), what is put aside (`StagedFits`), and who has set `copied`
and `skipped` before they are read (`InstallFits`). What a session is given of the fetched version is
in place because everything a thread
holds of results and entries is backed (`ThreadsFit`): a value read of `currentResult` may be
written back long after others wrote theirs, but files that are in place stay (`Grows`, lemma
`KeptGrows`), so whichever write is last, it names what is there. `DeathNeedsTakeOver` needs
`SkippedMissing`: while the installation is claimed and `skipped` is unset, somebody is between the
two, or a caller died there. `LatePackageKeptOut` follows from a predicate that no step ends: timed
out, before the decision or after one against the package, and the files still the local ones.

*Builds.* For any finite set of requests, any releases and any bound on slow builds. That versions
stay within `TypeOK` is not local to a request: the next version is one more than the latest, so
`VersionsCounted` bounds them by the number of requests past their claim. That part, `TInv`, holds
however slow a build is. The rest, `Safe`, holds as long as no live build was slow, and its parts
need each other: a live build has its row to itself (`OwnRow`, `RowsApart`), because a row is taken
over only when its build is over (`SeenDead`), because a row gets old under a live build only when
that is counted as slow (`RowPlaces`). Hence the objects of a version are written only by the
request that owns its row. `Uploaded` says how far it is: nothing, or the zip (`HalfDone`, with the
configuration the aar will get too), and before READY both (`Holds`), over whatever a failed build
had left there. So the archives stay what they were when the row became READY, and READY rows are
never deleted; a row of 0.0.0 promises no archives, and `Holds` exempts it; answers, the key, the metadata and the locals a request read of them
(`Names`) name READY rows and go on naming them.

*Publishing.* For any paths, platforms, contents, tags, slots and bounds; assumed are that the
order of a bundle lists each path once, and that `None` is none of the values. `PInv` says of every
record, wherever it is (a mapping file, a release config, a command's or a request's locals, a
package, the cache), that ready rows back it (`Records`). It is stated of given tables, so that it
carries over a step that makes them grow: a ready row is never changed but in its tag, which
`byHand` remembers. What can break that is the rollback of an upload, which deletes a row; so a
request that streams owns a row that is pending (`StreamsOwn`), and no record names a pending row
unless it was packaged by hand. `PublishImplementsRegistry` maps the commit of an upload and the
creation of a file to the registry's publication, the saving of a package by the command to its
packaging, where `Records` gives the guard, and every other statement to a stutter.
`PublishNoOrphans` is about the time before the first fault, when every request that streams still has
its client (`ClientsWait`) and ends by completing or deleting its row.

*Releases.* The theorems hold for any files, packages, targets' pasts, requests, slots and bounds.
The assumptions are the named ones of `Release`: there are two targets, packages are sets of
files, other clients' requests are marked as theirs, what earlier releases left was itself
well split (`PastSplitAssumption`), and a release found ongoing was built from what is resolved
then (`PastFreshAssumption`: conclusions are counted from the initial state, and `seen` begins at
none of them). What is served comes out of an experiment or a context, so the
invariant has to follow a configuration from where it is composed. `IInv` (theorem `Inductive`)
says it of each place: experiments and contexts hold well split configurations (`SafeConfig`,
`SafeExperiment`), a request carries a body or a configuration on its way there (`SafeRequest`),
the wizard's lists fit the package it shows, unless that came late (`SafeForm`), and only a wizard
that sent something has a request (`Waits`). The steps that matter are lemma `ConfigSafe`, that a
request which `Accepts` lets through is well split over any configuration it is completed from,
and `EffectSafe`, that each effect of the wizard, or a late package, re-establishes `Fits`.
`OngoingApart` needs another invariant, `DInv`: experiments are numbered without gaps (`Numbered`),
and a creation that has been checked found no ongoing release of its target among those it counted
(`AllClear`), which only stays true because nothing becomes ongoing again (`Quiet`).

The two action properties of releases rest on `RInv`: the control of an ongoing release, or of a
build about to be written, is what its target resolves to as long as no release was concluded since
it was built (`FromLatest`). It is kept because a step either leaves the overrides and the number
of conclusions, or adds a conclusion and so makes every earlier build an old one (lemma
`HandleSettles`); `ChoiceServed` is the step itself.

*Cohorts.* For any dimensions, names, members, additions, priorities of other clients, requests and
changes, and any orders of the values. Assumed are that the two reserved names are not
given, that an order is a rank of each value, and that the dimensions begin well arranged
(`StartsAssumption`). `CohortsSafe` says nothing of how a schema came about, so `CohortsInv` does:

- `SchemaInv`: what is defined is listed, and unless a checkpoint was moved the schema is new or
  `Arranged`: n groups, then the checkpoints, the newest first, each with its own threshold and the
  complement of the next one's. `AddCheckpointInv`, `AddGroupInv` and `PriorityInv` show that each
  handler leaves it so. It is stated of what a request read as well, because that, and not the
  schema of the moment, is what the request replaces.
- `StillGroups`: the names of an order, wherever it is (an answer, the page, a request), that is of
  the dimension it is for are still groups there, unless an update was lost. Groups are never
  removed, so this holds from the moment `PriorityOf` is read; a lost update is what may undo one.
  With it, an order that moves a checkpoint is not the dimension's own (lemma `WriteInv`), which is
  `CheckpointsStay`.

From `Arranged` the users follow (`ArrangedAsPromised`): a user who is in no group and reaches some
checkpoint satisfies that one first whose next is not reached, which is the newest reached, because
`Complement` excludes exactly those who reach the next (`ComplementHolds`). The thresholds need not
ascend, nor be compared in the same order.

`Reordered` is a recursive function over sets of names. That the definition has a value at all is
lemma `AfterExists`, and that every order it leaves rearranges the groups among their places
(`ReorderedRearranges`) is shown by a least counterexample: of the sets of names for which it
fails, one with the fewest. Which of these orders is left is not claimed: with four groups it need
not be the one asked for (7).

Only model-checked: all liveness (`KnownEntryWakes`, `EveryAwaitReturns`, `RunnerStops`,
`AwaitReturns`), since TLAPS does not handle fairness and ENABLED; and that two or three groups are
left in the order asked for (the `ASSUME` of `MCRelease`), which speaks of what `Put` computes on
given sequences.

## 7. Findings

Each is a run in which TLC finds a behaviour of the code that contradicts a statement of the
repository:

1. `happy_case`: `onComplete(INSTALLING)` (UpdateTask.kt:236) wakes callers before
   `setCurrentResult` stores the new package; `await` may return the old one after a successful
   installation in time.
2. `task_finishes`: `completeResourceDownload` (UpdateTask.kt:1200) reads lateinit `skipped` while
   the caller that took the installation over is still copying; the exception ends `runInternal`
   and the stages after it are never reached. `DeathNeedsTakeOver` shows this is the only cause
   modelled.
3. `timed_out_session`: `waitForStage` reads the stage and only then sets `updateTimedOut`
   (UpdateTask.kt:260); `runInternal` may read the flag in between and install the package over the
   files of the previous one, which the caller is told to run with.
4. `build_takeover`: a live build that outlasts five minutes loses its row (build.rs:729) and its
   version is given to another release; both are returned.
5. `build_metadata`: an error of the metadata read counts as an absent file (build.rs:639), and
   read and write are two steps: listed versions disappear.

Seen while modelling and not kept as runs, because a property that holds states their limit or a
planned module is their place: resources replaced on the disk under a session that already timed
out on the release config (UpdateTask.kt:233, against README.md:118); the fallback entries of skipped
resources, which are filtered by full equality (line 1181), so that an older entry is always dropped
(against download-and-boot-flow.mdx:10); files of two package versions after a copy that failed
(line 464); an update of `currentResult` or `state.json` lost between two threads (lines 162
and 818, which is why `LatePackageStagedAlone` asks that no resource is staged by the same task); a
READY build whose metadata failed is never listed (build.rs:1002).

Of builds: `release_config.json` in the archives may be of another release than their files
(build.rs:388-417), when a release is concluded in between, when a cache in front of the server
still holds an earlier answer (the errors of an invalidation are ignored, release.rs:528 and 1492),
or when a release is ramped to the half of the users that toss 99 is in. `Complete` says no more than
that both archives agree on it. The default configuration's version, 0.0.0
(superposition-default-configs.json:4), is not empty, so a request before the first release claims
a version, uploads nothing and marks it READY (build.rs:313); the paths of that version are empty, or
hold what a failed build left there. A file whose row is gone is left out of the archive without
an error (`get_files_by_file_keys_async`).

Of releases: a first release is ramped to half of the users and then concluded with the variant
`experimental_1`, and the error of that call is ignored (release.rs:492), so a first release of
another package than number 1 reaches one half, and the other is told there is no release, where
`airborne_docs/docs/guides/integrate-react-native.mdx:121` promises it to everyone.
`FirstReleaseServed` states that; added to the invariants of `MCRelease.cfg`, TLC refutes it. A
release is discarded on a status read in an earlier call, though it may have been ramped since
(release.rs:1209). An update may be built for other dimensions than the release's own, which is why
`RevertRestores` asks that it was not (`of`).

Of cohorts: the priorities asked for are applied in the order of a hash map (cohort.rs:505), so
with four groups or more the order saved may differ from the one the user dragged together
(`airborne_docs/docs/dashboard/cohorts.mdx:52`); the `ASSUME` of `MCRelease` shows it. A stale
order of another dimension may move a checkpoint that has a group's name (page.tsx:182), and of two
handlers that read the same schema the first to write is undone. With no groups at all, the text
that refuses a priority computes the length of an empty list less one (cohort.rs:511).

## 8. Abstractions and what is left out

`StageQueue`: payloads of wait tasks; times (a timer may end at any moment). `awaitOnFinish`, with
which `tryUpdate` waits for a task whose fetch failed before it retries, waits for `Finish` and
changes nothing; what follows it, the registry of tasks and the retry, belongs to `OtaStore`. `Die`
is any exception between two stages or in `onFinish`.

`UpdateTask`: the transfer and checksum of a file is its outcome; a file is its version; the
manifest entries both versions have in common are left out, since every step keeps them; the
synchronized test of the status and the snapshot of the finished downloads are one step; locals
are cleared when they are last used; trackers, metrics, per-file lazy callbacks, `rc_version`, the
version file and resources staged by an earlier session (`savedResourcesInfo`) are left out. Downloads
are the ones of one task on one process life; restart belongs to `OtaStore`.

`BuildPipeline`: one application and one dimension context; a version 1.0.v is its number v, the only
part the code moves; an archive is the release its files are of and the release its configuration is
of, and every file a release names has a row; the zip and the aar are separate
uploads, the pom is uploaded with the aar; only the new package layout. Database statements and
single S3 requests are atomic, a failed one has no effect. The configuration service concludes
releases in order, and only while a request is still to resolve one; an absent `x-force` header is
the same as true, as in the code.

`Publish`: a file is its content, and its checksum is the content; single statements are atomic. A
failed one has no effect, and is one of the mishaps (one that took effect though its answer was
lost is, to the tables and the command, a lost answer). Left out are
`bulk_create_files` and `upload_bulk_files`, the cache of rows by tag and of packages, a
`release_config.json` torn by a crash, a missing `.airborne` directory, file groups and listings.

`Release`: timeouts and properties of a configuration, several dimensions at once, the invalidation
of the CDN, the provider's cache of Superposition's answers and the index file in the wizard's
filter of resources are left out; a call that fails had no effect; the wizard is not left while its
request is sent. A list with duplicates is a set.

`Cohorts`: standard dimensions, the weights recomputed with a schema, the releases shown beside a
cohort, authorization and the typing of the forms are left out. A definition's nested "and" is the
set of its conditions. A load that fails is one whose answer never arrives; the answer to a
handler is taken as it is given, so a page that is left meanwhile is not modelled.

Not modelled, with the reason per component in `PROJECT.json`: HTTP and TLS, authentication,
start-up, the React Native bridge, macros, API definitions and generated clients are I/O, wiring or
generated code, and so are the rest of the dashboard and of the command line tools: pages that show
a list or wrap one request, tables of command options, and three copies of a client generated from
the API definitions, which make up most of the TypeScript and JavaScript of the repository. They
keep no state that two steps could disagree about. The other components are in the plan.

## 9. How to run

    tlc -workers 2 -config MCBuildPipeline.cfg MCBuildPipeline     # any run of section 4
    tlapm StageQueueProofs.tla
    tlapm StageGateProofs.tla
    tlapm ReleaseProofs.tla
    tlapm BuildPipelineProofs.tla
    tlapm PublishProofs.tla
    tlapm UpdateTaskProofs.tla
    tlapm CohortsProofs.tla

A run takes up to four minutes on two cores.
