--------------------------- MODULE BuildPipeline ---------------------------
(***************************************************************************)
(* Versioned builds of a release on the server: generate and build of      *)
(* build.rs, for one application and one dimension context.                *)
(*                                                                         *)
(* Requests share a table of builds in the database, the objects and the   *)
(* Maven metadata of a bucket, and one key of the configuration service.   *)
(* Nothing spans two of these: every statement, object or key is a step of *)
(* its own. A row claims a version for a release; it is BUILDING until the *)
(* objects of the version are uploaded, then READY. A request that finds a *)
(* BUILDING row of its release older than five minutes takes the release   *)
(* over.                                                                   *)
(*                                                                         *)
(* A version stands for 1.0.v: nothing in the code moves the other parts.  *)
(* An archive has two parts: the files of the release that was resolved,   *)
(* and a configuration that the server asks itself for while it builds.    *)
(***************************************************************************)
EXTENDS Naturals, FiniteSets, FiniteSetsExt

CONSTANTS
    Requests,  \* one call of serve_version, serve_zip or serve_aar each
    Releases,  \* values of config.version, numbered in the order they come into force
    Default,   \* 0.0.0, in force before any release; it names no file
    Configs,   \* the releases that serve_release may answer with during a build
    MaxSlow    \* how many live builds may outlast five minutes

ASSUME ReleaseAssumption == Releases \subseteq Nat \ {0} /\ IsFiniteSet(Releases)
ASSUME DefaultAssumption == Default \in Nat \ {0}
ASSUME ConfigAssumption == Configs \subseteq Releases
ASSUME RequestAssumption == IsFiniteSet(Requests)
ASSUME SlowAssumption == MaxSlow \in Nat

VARIABLES
    slow,      \* how many live builds outlasted five minutes
    current,   \* config.version of the resolved config
    key,       \* build.last_created_build_rid; 0 when unset
    rows,      \* the table of builds
    object,    \* what each object of a version holds, Nothing before an upload
    metadata,  \* the versions that maven-metadata.xml lists
    pc,        \* where each request is
    local,     \* its locals, blank before and after
    answer     \* the version and release it returned

vars == <<slow, current, key, rows, object, metadata, pc, local, answer>>

----------------------------------------------------------------------------
(* A request claims at most once, so no version passes the number of       *)
(* requests; an id of a row is the request that inserted it.               *)

Versions == 1 .. Cardinality(Requests)
SomeRelease == Releases \cup {0}
Kinds == {"zip", "aar"}

(* An archive: the release its files are of, and the one its configuration *)
(* is of.                                                                  *)
Content == [files : SomeRelease, config : SomeRelease]
Nothing == [files |-> 0, config |-> 0]

(* create_and_upload_build: the zip, then the aar. The pom, last, holds    *)
(* nothing of a release: its upload is one step with the aar's.            *)
NextKind(left) == IF "zip" \in left THEN "zip" ELSE "aar"

Row == [id : Requests, release : Releases, version : Versions,
        status : {"BUILDING", "READY"}, old : BOOLEAN]

Locals == [
    force     : BOOLEAN,             \* the x-force header, TRUE when absent
    release   : SomeRelease,         \* the release it resolved
    lastBuilt : SomeRelease,         \* the key it resolved
    seen      : SUBSET Requests,     \* the id of the stale row it will delete
    version   : Versions \cup {0},   \* the one it tries, has claimed, or found READY
    config    : SomeRelease,         \* the configuration it has put into the zip
    uploads   : SUBSET Kinds,        \* the objects it has still to upload
    listed    : SUBSET Versions]     \* the metadata it read

Blank == [force |-> FALSE, release |-> 0, lastBuilt |-> 0, seen |-> {}, version |-> 0,
          config |-> 0, uploads |-> {}, listed |-> {}]

Pending == [how |-> "none", version |-> 0, release |-> 0]
Failure == [how |-> "error", version |-> 0, release |-> 0]
Answer(v, r) == [how |-> "ok", version |-> v, release |-> r]

RowsOf(r) == {row \in rows : row.release = r}
ReadyRowsOf(r) == {row \in RowsOf(r) : row.status = "READY"}

(* The steps between the claim of a version and its row turning READY.     *)
Building == {"upload", "cleanup", "ready"}
Places == Building \cup {"idle", "current", "previous", "check", "stale", "latest",
                         "insert", "conflict", "list", "publish", "key", "done"}

Init ==
    /\ slow = 0 /\ current \in Releases /\ key = 0 /\ rows = {} /\ metadata = {}
    /\ object = [v \in Versions |-> [k \in Kinds |-> Nothing]]
    /\ pc = [q \in Requests |-> "idle"]
    /\ local = [q \in Requests |-> Blank]
    /\ answer = [q \in Requests |-> Pending]

Goto(q, from, to) == pc[q] = from /\ pc' = [pc EXCEPT ![q] = to]

(* A build in the background answers nobody: its request has its answer.   *)
Return(q, a) == answer' = [answer EXCEPT ![q] = IF @ = Pending THEN a ELSE @]

End(q, from, a) ==
    /\ Goto(q, from, "done")
    /\ Return(q, a)
    /\ local' = [local EXCEPT ![q] = Blank]

----------------------------------------------------------------------------
(* The other components: the release concluded next, as long as a request  *)
(* is still to resolve it, and time.                                       *)

Conclude ==
    /\ \E q \in Requests : pc[q] = "idle"
    /\ \E r \in Releases :
        /\ r > current
        /\ \A s \in Releases : s > current => r <= s
        /\ current' = r
    /\ UNCHANGED <<slow, key, rows, object, metadata, pc, local, answer>>

(* A BUILDING row passes five minutes; slow counts those whose build lives. *)
Age ==
    /\ \E row \in rows :
        /\ row.status = "BUILDING" /\ ~row.old
        /\ slow' = IF pc[row.id] \in Building THEN slow + 1 ELSE slow
        /\ slow' <= MaxSlow
        /\ rows' = (rows \ {row}) \cup {[row EXCEPT !.old = TRUE]}
    /\ UNCHANGED <<current, key, object, metadata, pc, local, answer>>

----------------------------------------------------------------------------
(* generate                                                                *)

Resolve(q) ==
    /\ \E f \in BOOLEAN :
        /\ local' = [local EXCEPT ![q] =
                [Blank EXCEPT !.force = f, !.release = current, !.lastBuilt = key]]
        /\ Goto(q, "idle", IF key = current THEN "current"
                           ELSE IF ~f /\ key # 0 THEN "previous" ELSE "check")
    /\ UNCHANGED <<slow, current, key, rows, object, metadata, answer>>

(* The configuration cannot be had, or it has no version.                  *)
ResolveFails(q) ==
    /\ End(q, "idle", Failure)
    /\ UNCHANGED <<slow, current, key, rows, object, metadata>>

(* Case 1: the key names this release; a READY row of it is the answer.    *)
FindCurrent(q) ==
    LET r == local[q].release IN
    /\ \/ \E row \in ReadyRowsOf(r) : End(q, "current", Answer(row.version, r))
       \/ /\ ReadyRowsOf(r) = {}
          /\ Goto(q, "current", IF local[q].force THEN "check" ELSE "previous")
          /\ UNCHANGED <<local, answer>>
    /\ UNCHANGED <<slow, current, key, rows, object, metadata>>

(* Case 2: answer with the build of the last release and build this one in *)
(* the background; without such a build, case 3.                           *)
FindPrevious(q) ==
    LET r == local[q].lastBuilt IN
    /\ Goto(q, "previous", "check")
    /\ \/ \E row \in ReadyRowsOf(r) : Return(q, Answer(row.version, r))
       \/ ReadyRowsOf(r) = {} /\ UNCHANGED answer
    /\ UNCHANGED <<slow, current, key, rows, object, metadata, local>>

----------------------------------------------------------------------------
(* build                                                                   *)

FindReady(q, from) ==
    \E row \in ReadyRowsOf(local[q].release) :
        /\ Goto(q, from, "key")
        /\ local' = [local EXCEPT ![q].version = row.version]

(* Step 0: the row of the release, whatever its status.                    *)
Check(q) ==
    /\ \/ FindReady(q, "check")
       \/ \E row \in RowsOf(local[q].release) :
            /\ row.status = "BUILDING" /\ row.old
            /\ Goto(q, "check", "stale")
            /\ local' = [local EXCEPT ![q].seen = {row.id}]
       \/ /\ \A row \in RowsOf(local[q].release) : row.status = "BUILDING" /\ ~row.old
          /\ Goto(q, "check", "latest")
          /\ UNCHANGED local
    /\ UNCHANGED <<slow, current, key, rows, object, metadata, answer>>

(***************************************************************************)
(* Variants, for runs that ask which line a property rests on.             *)
(***************************************************************************)

(* The stale row is deleted by release, as the clean-up deletes.           *)
StaleByRelease(q) == RowsOf(local[q].release)

(* A unique index is missing.                                              *)
NoVersionIndex(q) == RowsOf(local[q].release)
NoReleaseIndex(q) == {row \in rows : row.version = local[q].version}

(* The build is marked before the last upload, or not at all.              *)
ReadyAfterZip(left) == IF left \subseteq {"aar"} THEN "ready" ELSE "upload"
ReadySkipped(left) == IF left = {} THEN "list" ELSE "upload"

(* A version of the metadata that does not parse is kept as 0.0.0.         *)
MalformedKept == {metadata, {}, {0}}

----------------------------------------------------------------------------

(* The row that a take-over deletes: the one it saw, though by now its     *)
(* build may have ended. A failed deletion is ignored.                     *)
Stale(q) == {row \in rows : row.id \in local[q].seen}

DeleteStale(q) ==
    /\ Goto(q, "stale", "latest")
    /\ rows' \in {rows, rows \ Stale(q)}
    /\ local' = [local EXCEPT ![q].seen = {}]
    /\ UNCHANGED <<slow, current, key, object, metadata, answer>>

(* Step 1: one more than the latest version of any row, whatever its       *)
(* status and release.                                                     *)
Latest(q) ==
    /\ Goto(q, "latest", "insert")
    /\ local' = [local EXCEPT ![q].version = 1 + Max({row.version : row \in rows} \cup {0})]
    /\ UNCHANGED <<slow, current, key, rows, object, metadata, answer>>

(* The rows that the unique indexes refuse to have beside the new one.     *)
Conflicts(q) ==
    {row \in rows : row.release = local[q].release \/ row.version = local[q].version}

(* Without files there is no archive: the build goes on to Step 3.         *)
Uploads(q) == IF local[q].release = Default THEN {} ELSE Kinds

Insert(q) ==
    /\ \/ /\ Conflicts(q) = {}
          /\ rows' = rows \cup {[id |-> q, release |-> local[q].release,
                                 version |-> local[q].version,
                                 status |-> "BUILDING", old |-> FALSE]}
          /\ local' = [local EXCEPT ![q].uploads = Uploads(q)]
          /\ Goto(q, "insert", IF Uploads(q) = {} THEN "ready" ELSE "upload")
       \/ /\ Conflicts(q) # {}
          /\ Goto(q, "insert", "conflict")
          /\ local' = [local EXCEPT ![q].version = 0]
          /\ UNCHANGED rows
    /\ UNCHANGED <<slow, current, key, object, metadata, answer>>

(* A conflict: the release is READY by now, or a later version is tried.   *)
Recheck(q) ==
    /\ \/ FindReady(q, "conflict")
       \/ /\ ReadyRowsOf(local[q].release) = {}
          /\ Goto(q, "conflict", "latest")
          /\ UNCHANGED local
    /\ UNCHANGED <<slow, current, key, rows, object, metadata, answer>>

(* The deadline of five seconds, looked at before each attempt.            *)
GiveUp(q) ==
    /\ End(q, "insert", Failure)
    /\ UNCHANGED <<slow, current, key, rows, object, metadata>>

(* Step 2: the objects are uploaded in order, over what their paths hold.  *)
AfterUpload(left) == IF left = {} THEN "ready" ELSE "upload"

(* Beside the files, both archives get the configuration that              *)
(* serve_release answers before the first upload, not the one resolved. It *)
(* may be of a release concluded since, of an earlier one that a cache in  *)
(* front of the server still holds, or of one ramped to the half that toss *)
(* 99 is in. 0.0.0 is answered with an error.                              *)
Served(q) == IF local[q].uploads = Kinds THEN Configs ELSE {local[q].config}

Upload(q) ==
    LET kind == NextKind(local[q].uploads)
        left == local[q].uploads \ {kind}
    IN  \E c \in Served(q) :
            /\ Goto(q, "upload", AfterUpload(left))
            /\ object' = [object EXCEPT ![local[q].version][kind] =
                    [files |-> local[q].release, config |-> c]]
            /\ local' = [local EXCEPT ![q].uploads = left,
                                      ![q].config = IF left = {} THEN 0 ELSE c]
            /\ UNCHANGED <<slow, current, key, rows, metadata, answer>>

(* A file or the configuration cannot be had, or an upload fails.          *)
UploadFails(q) ==
    /\ Goto(q, "upload", "cleanup")
    /\ local' = [local EXCEPT ![q].uploads = {}, ![q].config = 0]
    /\ UNCHANGED <<slow, current, key, rows, object, metadata, answer>>

(* The rows that the clean-up deletes and that Step 3 marks: found by      *)
(* release, not by id.                                                     *)
Claimed(q) == RowsOf(local[q].release)

CleanUp(q) ==
    /\ End(q, "cleanup", Failure)
    /\ rows' \in {rows, rows \ Claimed(q)}
    /\ UNCHANGED <<slow, current, key, object, metadata>>

(* Step 3: no row to mark is no error.                                     *)
MarkReady(q) ==
    /\ \/ /\ Goto(q, "ready", "list")
          /\ rows' = (rows \ Claimed(q)) \cup {[row EXCEPT !.status = "READY"] : row \in Claimed(q)}
          /\ UNCHANGED <<local, answer>>
       \/ End(q, "ready", Failure) /\ UNCHANGED rows
    /\ UNCHANGED <<slow, current, key, object, metadata>>

(* Step 4: read the metadata, add the version, write it back. Any error of *)
(* the request is taken for an absent file; one of the transfer is not.    *)
Existing == {metadata, {}}

ReadMetadata(q) ==
    /\ \/ /\ Goto(q, "list", "publish")
          /\ \E found \in Existing : local' = [local EXCEPT ![q].listed = found]
          /\ UNCHANGED answer
       \/ End(q, "list", Failure)
    /\ UNCHANGED <<slow, current, key, rows, object, metadata>>

WriteMetadata(q) ==
    /\ \/ /\ Goto(q, "publish", "key")
          /\ metadata' = local[q].listed \cup {local[q].version}
          /\ local' = [local EXCEPT ![q].listed = {}]
          /\ UNCHANGED answer
       \/ End(q, "publish", Failure) /\ UNCHANGED metadata
    /\ UNCHANGED <<slow, current, key, rows, object>>

(* Step 5, and the answer with a READY row: the key, at best, then return. *)
UpdateKey(q) ==
    /\ End(q, "key", Answer(local[q].version, local[q].release))
    /\ key' \in {key, local[q].release}
    /\ UNCHANGED <<slow, current, rows, object, metadata>>

(* The server stops under a request.                                       *)
Crash(q) ==
    /\ pc[q] \notin {"idle", "done"}
    /\ End(q, pc[q], Failure)
    /\ UNCHANGED <<slow, current, key, rows, object, metadata>>

----------------------------------------------------------------------------

Generate(q) == Resolve(q) \/ ResolveFails(q) \/ FindCurrent(q) \/ FindPrevious(q)
Claim(q) ==
    Check(q) \/ DeleteStale(q) \/ Latest(q) \/ Insert(q) \/ Recheck(q) \/ GiveUp(q)
Produce(q) == Upload(q) \/ UploadFails(q) \/ CleanUp(q) \/ MarkReady(q)
Publish(q) == ReadMetadata(q) \/ WriteMetadata(q) \/ UpdateKey(q)

Next ==
    \/ Conclude \/ Age
    \/ \E q \in Requests : Generate(q) \/ Claim(q) \/ Produce(q) \/ Publish(q) \/ Crash(q)

Spec == Init /\ [][Next]_vars

----------------------------------------------------------------------------

TypeOK ==
    /\ slow \in 0 .. MaxSlow
    /\ current \in Releases /\ key \in SomeRelease
    /\ rows \subseteq Row
    /\ object \in [Versions -> [Kinds -> Content]]
    /\ metadata \subseteq Versions
    /\ pc \in [Requests -> Places]
    /\ local \in [Requests -> Locals]
    /\ answer \in [Requests -> [how : {"none", "error", "ok"}, version : Versions \cup {0},
                                release : SomeRelease]]

(* The archives of a version of release r have the files of r, and one      *)
(* configuration, the same. A build of 0.0.0 has no archives.               *)
Complete(archives, r) ==
    \E c \in Configs : \A k \in Kinds : archives[k] = [files |-> r, config |-> c]
Holds(v, r) == r # Default => Complete(object[v], r)

(* A READY row is the promise of a complete build: whatever failed, crashed *)
(* or was taken over before, the archives of its version have the files of  *)
(* its release, none is missing, and they agree on the configuration, which *)
(* may be another release's. The exception is a build of 0.0.0.             *)
ReadyIsComplete ==
    slow = 0 => \A row \in rows : row.status = "READY" => Holds(row.version, row.release)

(* A version that a request returned has the files of the release it was    *)
(* returned for and one configuration, and keeps them: no other build ever  *)
(* gets that version to write. A build of 0.0.0 has none.                   *)
AnswerBacked ==
    slow = 0 => \A q \in Requests : answer[q].how = "ok" => Holds(answer[q].version, answer[q].release)

(* The row excludes: two live builds never have a release or a version in   *)
(* common, though both may have found the same stale row.                   *)
OneBuilder ==
    slow = 0 => \A p, q \in Requests : p # q /\ pc[p] \in Building /\ pc[q] \in Building
        => local[p].release # local[q].release /\ local[p].version # local[q].version

(* A READY row stays as it is: neither a take-over that read the table      *)
(* earlier nor the clean-up of a failed build deletes it.                   *)
ReadyStaysReady ==
    [][slow' = 0 => \A row \in rows : row.status = "READY" => row \in rows']_vars

(* "Update superposition key ONLY now that status = READY": the key names a *)
(* release with a READY row, now and later.                                 *)
KeyNamesReady == slow = 0 /\ key # 0 => ReadyRowsOf(key) # {}

(* The metadata lists, and a request about to write it has read, only       *)
(* versions whose row is READY.                                             *)
MetadataListsReady ==
    slow = 0 => \A v \in metadata \cup UNION {local[q].listed : q \in Requests} :
        \E row \in rows : row.version = v /\ row.status = "READY"

(* With "x-force: false" (no header means forced), a request that resolved a *)
(* last build is answered before anything is built: it neither waits for a   *)
(* build nor fails with one.                                                 *)
PreviousBuildAnswers ==
    slow = 0 => \A q \in Requests :
        /\ ~local[q].force /\ local[q].lastBuilt # 0
        /\ pc[q] \notin {"current", "previous"}
        => answer[q].how = "ok"

(* Stated by the unique index on the version ("no duplicate build versions  *)
(* per app"): a version is returned for one release only.                   *)
OneReleasePerVersion ==
    \A p, q \in Requests :
        /\ answer[p].how = "ok" /\ answer[q].how = "ok"
        /\ answer[p].version = answer[q].version
        => answer[p].release = answer[q].release

(* Stated by update_one_metadata ("merge with new version"): a build that   *)
(* ran to its end has its version in the metadata.                          *)
ReturnedIsListed ==
    \A row \in rows :
        pc[row.id] = "done" /\ row.status = "READY"
            /\ answer[row.id] = Answer(row.version, row.release)
        => row.version \in metadata

============================================================================
