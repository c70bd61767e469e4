------------------------------ MODULE Publish ------------------------------
(***************************************************************************)
(* Publishing an update: the create-remote-files and create-remote-package *)
(* commands of the command line tool, the file and package handlers of the *)
(* server, and the cache of file rows that releases are served from.       *)
(*                                                                         *)
(* Both platforms of a project share one .airborne/mappings.json, which    *)
(* remembers for each tag and path the row the server answered with. The   *)
(* server inserts an uploaded file as a pending row, streams it to the     *)
(* bucket, then completes the row or deletes it. One application; every    *)
(* statement, file access and message is a step of its own.                *)
(***************************************************************************)
EXTENDS Naturals, FiniteSets, Sequences

CONSTANTS
    Platforms,   \* android and ios: one command at a time on each
    Order,       \* the paths of a bundle: the order of the loop, the index first
    Index,       \* its index file, or None in a bundle without one
    Uploaders,   \* the platforms whose commands are given --upload
    Tags,        \* what -t may give
    NoTag,       \* no -t: the mapping is kept under __default__
    Contents,    \* what a file may hold; its checksum tells two apart
    None,        \* an absent or empty value
    Torn,        \* an empty or half written mappings.json: it does not parse
    Slots,       \* requests the server can be running
    MaxVersion,  \* of a file
    MaxPackage,  \* of a package
    MaxCommands, \* of both platforms
    MaxMishaps   \* crashes, lost answers, failed statements, packages and tags by hand

Paths == {Order[i] : i \in 1 .. Len(Order)}
Versions == 1 .. MaxVersion
PackageVersions == 1 .. MaxPackage
AnyTag == Tags \cup {NoTag}

ASSUME OrderAssumption ==
    /\ Order # <<>>
    /\ Order \in Seq(Paths)
    /\ \A i, j \in 1 .. Len(Order) : Order[i] = Order[j] => i = j
    /\ Index \in {Order[1], None}
ASSUME NoneAssumption ==
    /\ None \notin Contents \cup Versions \cup PackageVersions \cup Slots \cup AnyTag
    /\ NoTag \notin Tags
    /\ None \notin Platforms
ASSUME BoundAssumption ==
    {MaxVersion, MaxPackage, MaxCommands, MaxMishaps} \subseteq Nat

VARIABLES
    disk,      \* the bundle in each platform's build folder
    rc,        \* each platform's release_config.json
    mappings,  \* .airborne/mappings.json
    cli,       \* the command each platform is running
    server,    \* the requests being handled
    files,     \* the table of files, by path and version
    cache,     \* redis: rows of files, by path and version
    packages,  \* the table of packages
    byHand,    \* the rows ever packaged, or given a tag, by hand (history)
    spent      \* how much of each bound is used

vars == <<disk, rc, mappings, cli, server, files, cache, packages, byHand, spent>>
local == <<disk, rc, mappings>>
tables == <<files, cache, packages>>

----------------------------------------------------------------------------
(* A row is pending until its checksum and url are known.                  *)
Row == [path : Paths, version : Versions, tag : AnyTag,
        url : {"", "s3", "cdn"}, sum : Contents \cup {None}]
Pending(row) == row.sum = None
Ready(row) == row # None /\ ~Pending(row)

(* What a release serves of a row, and the cache keeps of it.              *)
Served == [url : {"", "s3", "cdn"}, sum : Contents \cup {None}]
ServedOf(row) == [url |-> row.url, sum |-> row.sum]

(* A place without a row holds none.                                      *)
ASSUME AbsentAssumption == None \notin Row \cup Served

(* What an answered row leaves in a mapping: the key as its version.       *)
Entry == [version : Versions, url : {"s3", "cdn"}, sum : Contents]
EntryOf(row) == [version |-> row.version, url |-> row.url, sum |-> row.sum]

Mappings == [AnyTag -> [Paths -> Entry \cup {None}]]
Mapped(t, p) == IF mappings = Torn THEN None ELSE mappings[t][p]

ReleaseConfig == [version : PackageVersions \cup {None},
                  files   : [Paths -> [url : {"s3", "cdn"}, sum : Contents] \cup {None}]]

Package == [version : PackageVersions, by : {"package", "byhand"}, tag : AnyTag,
            files : [Paths -> Versions],
            meant : [Paths -> Contents \cup {None}]]  \* what its maker saw (history)

Command == [
    pc     : {"idle", "file", "wait", "open", "write", "collect", "send", "number"},
    tag    : AnyTag,
    next   : 1 .. Len(Order) + 1,               \* the file it is at
    slot   : Slots \cup {None},                 \* its request
    got    : Row \cup {None},                   \* the row it was answered
    known  : Mappings \cup {None},              \* the mappings it read
    done   : [Paths -> Entry \cup {None}]]      \* the results, or the ids collected

NoEntries == [p \in Paths |-> None]
Idle == [pc |-> "idle", tag |-> NoTag, next |-> 1, slot |-> None,
         got |-> None, known |-> None, done |-> NoEntries]

Request == [
    st      : {"free", "lost", "check", "latest", "insert", "stream",
               "lookup", "number", "save", "answer"},
    op      : {"none", "upload", "create", "package", "byhand"},
    client  : Platforms \cup {None},            \* None: a browser, or it went away
    tag     : AnyTag,
    path    : Paths,
    sum     : Contents \cup {None},
    version : Versions \cup PackageVersions \cup {None},
    files   : [Paths -> Versions \cup {None}],
    meant   : [Paths -> Contents \cup {None}],
    reply   : Row \cup {None}]

Free == [st |-> "free", op |-> "none", client |-> None, tag |-> NoTag, path |-> Order[1],
         sum |-> None, version |-> None, files |-> NoEntries, meant |-> NoEntries, reply |-> None]
FreeSlots == {s \in Slots : server[s].st = "free"}
Running(s) == server[s].st \notin {"free", "lost", "answer"}

TypeOK ==
    /\ disk \in [Platforms -> [Paths -> Contents]]
    /\ rc \in [Platforms -> ReleaseConfig]
    /\ mappings = Torn \/ mappings \in Mappings
    /\ cli \in [Platforms -> Command]
    /\ server \in [Slots -> Request]
    /\ files \in [Paths -> [Versions -> Row \cup {None}]]
    /\ cache \in [Paths -> [Versions -> Served \cup {None}]]
    /\ packages \subseteq Package
    /\ byHand \in [packaged : SUBSET (Paths \X Versions), tagged : SUBSET (Paths \X Versions)]
    /\ spent \in [commands : 0 .. MaxCommands, hand : 0 .. MaxMishaps, faults : 0 .. MaxMishaps]

NoRows == [p \in Paths |-> [v \in Versions |-> None]]
BlankFiles == [version |-> None, files |-> NoEntries]

(* create-local-release-config has run on each platform.                   *)
Init ==
    /\ disk \in [Platforms -> [Paths -> Contents]]
    /\ rc = [pl \in Platforms |-> BlankFiles]
    /\ mappings = [t \in AnyTag |-> NoEntries]
    /\ cli = [pl \in Platforms |-> Idle]
    /\ server = [s \in Slots |-> Free]
    /\ files = NoRows /\ cache = NoRows /\ packages = {}
    /\ byHand = [packaged |-> {}, tagged |-> {}]
    /\ spent = [commands |-> 0, hand |-> 0, faults |-> 0]

----------------------------------------------------------------------------
(* The commands                                                            *)

(* update-local-release-config: a new bundle, and urls and checksums blank *)
(* again; the version of the last package stays.                           *)
UpdateLocal(pl) ==
    /\ cli[pl].pc = "idle"
    /\ spent.commands < MaxCommands
    /\ spent' = [spent EXCEPT !.commands = @ + 1]
    /\ \E bundle \in [Paths -> Contents] : disk' = [disk EXCEPT ![pl] = bundle]
    /\ rc' = [rc EXCEPT ![pl].files = NoEntries]
    /\ UNCHANGED <<mappings, cli, server, files, cache, packages, byHand>>

StartFiles(pl) ==
    /\ cli[pl].pc = "idle"
    /\ spent.commands < MaxCommands
    /\ spent' = [spent EXCEPT !.commands = @ + 1]
    /\ \E t \in AnyTag : cli' = [cli EXCEPT ![pl] = [Idle EXCEPT !.pc = "file", !.tag = t]]
    /\ UNCHANGED <<local, server, tables, byHand>>

(* The next file, whatever became of this one: the loop counts a failure   *)
(* and goes on.                                                            *)
NextFile(c) == [c EXCEPT !.pc = "file", !.next = @ + 1, !.slot = None, !.got = None, !.known = None]

(* Sends request r on a free slot.                                         *)
Send(pl, r, pc) ==
    \E s \in FreeSlots :
    /\ server' = [server EXCEPT ![s] = r]
    /\ cli' = [cli EXCEPT ![pl].pc = pc, ![pl].slot = s]

(* One round of the loop of uploadFiles and createFiles: a file whose      *)
(* recorded checksum is still that of the build is not sent again.         *)
Recorded(pl) ==
    LET p == Order[cli[pl].next]  e == Mapped(cli[pl].tag, p) IN
    e # None /\ e.sum = disk[pl][p]

SkipFile(pl) ==
    /\ cli[pl].pc = "file" /\ cli[pl].next <= Len(Order)
    /\ Recorded(pl)
    /\ LET p == Order[cli[pl].next] IN
         cli' = [cli EXCEPT ![pl] = NextFile([@ EXCEPT !.done[p] = Mapped(cli[pl].tag, p)])]
    /\ UNCHANGED <<local, server, tables, byHand, spent>>

SendFile(pl) ==
    /\ cli[pl].pc = "file" /\ cli[pl].next <= Len(Order)
    /\ ~Recorded(pl)
    /\ LET p == Order[cli[pl].next]
           r == [Free EXCEPT !.client = pl, !.tag = cli[pl].tag, !.path = p]
       IN  IF pl \in Uploaders
           THEN Send(pl, [r EXCEPT !.op = "upload", !.st = "check", !.sum = disk[pl][p]], "wait")
           ELSE Send(pl, [r EXCEPT !.op = "create", !.st = "check"], "wait")
    /\ UNCHANGED <<local, tables, byHand, spent>>

(* The answer, or a connection that broke. createFileMapping reads the     *)
(* whole file of mappings,                                                 *)
TakeRow(pl) ==
    LET s == cli[pl].slot IN
    /\ cli[pl].pc = "wait"
    /\ server[s].st \in {"answer", "lost"}
    /\ server' = [server EXCEPT ![s] = Free]
    /\ cli' = [cli EXCEPT ![pl] =
           IF server[s].reply = None \/ mappings = Torn THEN NextFile(@)
           ELSE [@ EXCEPT !.pc = "open", !.slot = None,
                          !.got = server[s].reply, !.known = mappings]]
    /\ UNCHANGED <<local, tables, byHand, spent>>

(* truncates it,                                                           *)
OpenMappings(pl) ==
    /\ cli[pl].pc = "open"
    /\ mappings' = Torn
    /\ cli' = [cli EXCEPT ![pl].pc = "write"]
    /\ UNCHANGED <<disk, rc, server, tables, byHand, spent>>

(* and writes it with one entry changed. Over what the other platform      *)
(* wrote meanwhile, the tail of a longer text may stay.                    *)
WriteMappings(pl) ==
    LET row == cli[pl].got
        new == [cli[pl].known EXCEPT ![row.tag][row.path] = EntryOf(row)]
    IN  /\ cli[pl].pc = "write"
        /\ \/ mappings' = new
           \/ mappings # Torn /\ mappings' = Torn
        /\ cli' = [cli EXCEPT ![pl] = NextFile([@ EXCEPT !.done[row.path] = EntryOf(row)])]
        /\ UNCHANGED <<disk, rc, server, tables, byHand, spent>>

(* A variant: the whole entry goes into the release config.                *)
InConfigWhole(e, old) == IF e = None THEN old ELSE e

(* The files that failed keep the url and checksum they had.               *)
InConfig(e, old) == IF e = None THEN old ELSE [url |-> e.url, sum |-> e.sum]

FinishFiles(pl) ==
    /\ cli[pl].pc = "file" /\ cli[pl].next > Len(Order)
    /\ rc' = [rc EXCEPT ![pl].files =
           [p \in Paths |-> InConfig(cli[pl].done[p], @[p])]]
    /\ cli' = [cli EXCEPT ![pl] = Idle]
    /\ UNCHANGED <<disk, mappings, server, tables, byHand, spent>>

StartPackage(pl) ==
    /\ cli[pl].pc = "idle"
    /\ spent.commands < MaxCommands
    /\ spent' = [spent EXCEPT !.commands = @ + 1]
    /\ \E t \in AnyTag : cli' = [cli EXCEPT ![pl] = [Idle EXCEPT !.pc = "collect", !.tag = t]]
    /\ UNCHANGED <<local, server, tables, byHand>>

(* A variant: a file not published under the tag is taken from __default__.*)
FoundAnywhere(t, p) == IF Mapped(t, p) # None THEN Mapped(t, p) ELSE Mapped(NoTag, p)

Found(t, p) == Mapped(t, p)

(* createPackageFromLocalRelease reads the mappings once for each file; a  *)
(* file that is not there ends the command. An url or a checksum missing   *)
(* from the release config does not.                                       *)
Collect(pl) ==
    /\ cli[pl].pc = "collect"
    /\ LET i == cli[pl].next  e == Found(cli[pl].tag, Order[i]) IN
         cli' = [cli EXCEPT ![pl] =
             IF e = None THEN Idle
             ELSE [@ EXCEPT !.done[Order[i]] = e, !.next = i + 1,
                            !.pc = IF i = Len(Order) THEN "send" ELSE "collect"]]
    /\ UNCHANGED <<local, server, tables, byHand, spent>>

SendPackage(pl) ==
    /\ cli[pl].pc = "send"
    /\ Send(pl, [Free EXCEPT !.op = "package", !.st = "lookup", !.client = pl, !.tag = cli[pl].tag,
                             !.files = [p \in Paths |-> cli[pl].done[p].version],
                             !.meant = [p \in Paths |-> cli[pl].done[p].sum]], "number")
    /\ UNCHANGED <<local, tables, byHand, spent>>

(* The version of the package goes into the release config.                *)
TakePackage(pl) ==
    LET s == cli[pl].slot IN
    /\ cli[pl].pc = "number"
    /\ server[s].st \in {"answer", "lost"}
    /\ server' = [server EXCEPT ![s] = Free]
    /\ cli' = [cli EXCEPT ![pl] = Idle]
    /\ rc' = IF server[s].version = None THEN rc ELSE [rc EXCEPT ![pl].version = server[s].version]
    /\ UNCHANGED <<disk, mappings, tables, byHand, spent>>

CliStep(pl) ==
    \/ SkipFile(pl) \/ SendFile(pl) \/ TakeRow(pl)
    \/ OpenMappings(pl) \/ WriteMappings(pl) \/ FinishFiles(pl)
    \/ Collect(pl) \/ SendPackage(pl) \/ TakePackage(pl)

----------------------------------------------------------------------------
(* The file handlers                                                       *)

RowsOf(p) == {files[p][v] : v \in Versions} \ {None}
Goto(s, r) == server' = [server EXCEPT ![s] = r]

(* The answer of request s; nobody may be there to take it.                *)
Answer(s, a) ==
    Goto(s, IF server[s].client = None THEN Free
            ELSE [a EXCEPT !.st = "answer", !.client = server[s].client])
Fail(s) == Answer(s, Free)
Reply(s, row) == Answer(s, [Free EXCEPT !.reply = row])

(* The same path and tag: the first row found, in no order. It is the      *)
(* answer when it holds the same; a tag is refused to anything else.       *)
CheckFor(s, sum) ==
    LET q == [server[s] EXCEPT !.sum = sum]
        found == {row \in RowsOf(q.path) : row.tag = q.tag}
        same(row) == row.sum = q.sum /\ (q.op = "create" => row.url = "cdn")
        on == Goto(s, [q EXCEPT !.st = "latest"])
    IN  \/ found = {} /\ on
        \/ \E row \in found :
             \/ same(row) /\ Reply(s, row)
             \/ ~same(row) /\ q.tag # NoTag /\ Fail(s)
             \/ ~same(row) /\ q.tag = NoTag /\ on

CheckUpload(s) ==
    /\ server[s].st = "check" /\ server[s].op = "upload"
    /\ CheckFor(s, server[s].sum)
    /\ UNCHANGED <<local, cli, tables, byHand, spent>>

(* create_file without a checksum first downloads the url, and keeps the   *)
(* checksum of whatever is there.                                          *)
CheckCreate(s) ==
    /\ server[s].st = "check" /\ server[s].op = "create"
    /\ \/ \E c \in Contents : CheckFor(s, c)
       \/ Fail(s)
    /\ UNCHANGED <<local, cli, tables, byHand, spent>>

(* The transaction locks the latest row and inserts the version after it.  *)
Latest(p) == CHOOSE v \in Versions \cup {0} :
                /\ v = 0 \/ files[p][v] # None
                /\ \A w \in Versions : files[p][w] # None => w <= v

ReadLatest(s) ==
    LET q == server[s]  next == Latest(q.path) + 1 IN
    /\ q.st = "latest"
    /\ next \in Versions
    /\ Goto(s, [q EXCEPT !.st = "insert", !.version = next])
    /\ UNCHANGED <<local, cli, tables, byHand, spent>>

(* A variant: there is no unique index over path and version.              *)
TagTaken(q) == q.tag # NoTag /\ \E row \in RowsOf(q.path) : row.tag = q.tag

(* A unique index refuses a version, or a tag, inserted meanwhile.         *)
Taken(q) ==
    \/ files[q.path][q.version] # None
    \/ q.tag # NoTag /\ \E row \in RowsOf(q.path) : row.tag = q.tag

Insert(s) ==
    LET q == server[s]
        blank == [path |-> q.path, version |-> q.version, tag |-> q.tag,
                  url |-> "", sum |-> None]
        row == IF q.op = "upload" THEN blank ELSE [blank EXCEPT !.url = "cdn", !.sum = q.sum]
    IN  /\ q.st = "insert"
        /\ IF Taken(q) THEN Fail(s) /\ UNCHANGED files
           ELSE /\ files' = [files EXCEPT ![q.path][q.version] = row]
                /\ IF q.op = "upload" THEN Goto(s, [q EXCEPT !.st = "stream"]) ELSE Reply(s, row)
        /\ UNCHANGED <<local, cli, cache, packages, byHand, spent>>

(* The row another transaction has read as the latest is locked.           *)
Locked(p, v) == \E s \in Slots :
    server[s].st = "insert" /\ server[s].path = p /\ server[s].version = v + 1

(* The bucket took the stream, whose checksum it checks. The update may    *)
(* fail, like any other statement: StatementFails.                         *)
Commit(s) ==
    LET q == server[s]
        row == [files[q.path][q.version] EXCEPT !.url = "s3", !.sum = q.sum]
    IN  /\ q.st = "stream" /\ ~Locked(q.path, q.version)
        /\ files' = [files EXCEPT ![q.path][q.version] = row]
        /\ Reply(s, row)
        /\ UNCHANGED <<local, cli, cache, packages, byHand, spent>>

(* Variants: the rows it was to replace go with it; the row stays.         *)
UndoneReplaced(q) == {v \in Versions :
    v = q.version \/ (Ready(files[q.path][v]) /\ files[q.path][v].tag = q.tag)}
UndoneNone(q) == {}

(* The bucket failed: the upload deletes its row, by id, and the version   *)
(* is free again, unless the deletion fails as well.                       *)
Undone(q) == {q.version}

Rollback(s) ==
    LET q == server[s] IN
    /\ q.st = "stream" /\ \A v \in Undone(q) : ~Locked(q.path, v)
    /\ files' = [files EXCEPT ![q.path] = [v \in Versions |-> IF v \in Undone(q) THEN None ELSE @[v]]]
    /\ Fail(s)
    /\ UNCHANGED <<local, cli, cache, packages, byHand, spent>>

----------------------------------------------------------------------------
(* Packages, and what releases are served from                             *)

(* get_files_by_file_keys_async: the cached row, or else the row, which is *)
(* then cached for three days as it is.                                    *)
Resolved(p, v) ==
    IF cache[p][v] # None \/ files[p][v] = None THEN cache[p][v] ELSE ServedOf(files[p][v])

(* A variant: rows are cached under their path alone.                      *)
FilledByPath(want) == [p \in Paths |-> [v \in Versions |->
    IF \E w \in Versions : <<p, w>> \in want
    THEN Resolved(p, CHOOSE w \in Versions : <<p, w>> \in want) ELSE cache[p][v]]]

(* Afterwards the cache holds every wanted row.                            *)
Filled(want) == [p \in Paths |-> [v \in Versions |->
                    IF <<p, v>> \in want THEN Resolved(p, v) ELSE cache[p][v]]]

(* create_package looks up every file but the index.                       *)
LookUp(s) ==
    LET q == server[s]
        want == {<<p, q.files[p]>> : p \in Paths \ {Index}}
    IN  /\ q.st = "lookup"
        /\ cache' = Filled(want)
        /\ IF \A k \in want : Resolved(k[1], k[2]) # None
           THEN Goto(s, [q EXCEPT !.st = "number"])
           ELSE Fail(s)
        /\ UNCHANGED <<local, cli, files, packages, byHand, spent>>

LatestPackage == CHOOSE n \in PackageVersions \cup {0} :
                    /\ n = 0 \/ \E pkg \in packages : pkg.version = n
                    /\ \A pkg \in packages : pkg.version <= n

(* The latest number is read and the next inserted without a transaction.  *)
Number(s) ==
    LET next == LatestPackage + 1 IN
    /\ server[s].st = "number"
    /\ next \in PackageVersions
    /\ Goto(s, [server[s] EXCEPT !.st = "save", !.version = next])
    /\ UNCHANGED <<local, cli, tables, byHand, spent>>

Save(s) ==
    LET q == server[s]
        taken == \E pkg \in packages :
                    pkg.version = q.version \/ (q.tag # NoTag /\ pkg.tag = q.tag)
    IN  /\ q.st = "save"
        /\ IF taken THEN Fail(s) /\ UNCHANGED packages
           ELSE /\ packages' = packages \cup
                      {[version |-> q.version, by |-> q.op, tag |-> q.tag,
                        files |-> q.files, meant |-> q.meant]}
                /\ Answer(s, [Free EXCEPT !.version = q.version])
        /\ UNCHANGED <<local, cli, files, cache, byHand, spent>>

HandlerStep(s) ==
    \/ CheckUpload(s) \/ CheckCreate(s) \/ ReadLatest(s) \/ Insert(s)
    \/ Commit(s) \/ Rollback(s) \/ LookUp(s) \/ Number(s) \/ Save(s)

(* A release of the package is created or served: every file is looked up. *)
Serve ==
    /\ \E pkg \in packages : cache' = Filled({<<p, pkg.files[p]>> : p \in Paths})
    /\ UNCHANGED <<local, cli, server, files, packages, byHand, spent>>

Expire ==
    /\ \E p \in Paths, v \in Versions :
         cache[p][v] # None /\ cache' = [cache EXCEPT ![p][v] = None]
    /\ UNCHANGED <<local, cli, server, files, packages, byHand, spent>>

(* The dashboard lists every row, pending or not, and posts the chosen.    *)
PackageByHand ==
    /\ spent.hand + spent.faults < MaxMishaps
    /\ spent' = [spent EXCEPT !.hand = @ + 1]
    /\ \E chosen \in [Paths -> Versions], t \in Tags, s \in FreeSlots :
         /\ \A p \in Paths : files[p][chosen[p]] # None
         /\ server' = [server EXCEPT ![s] =
                [Free EXCEPT !.op = "byhand", !.st = "lookup", !.tag = t,
                             !.files = chosen,
                             !.meant = [p \in Paths |-> files[p][chosen[p]].sum]]]
         /\ byHand' = [byHand EXCEPT !.packaged = @ \cup {<<p, chosen[p]>> : p \in Paths}]
    /\ UNCHANGED <<local, cli, tables>>

(* update_file: the dashboard moves a tag.                                 *)
Retag ==
    /\ spent.hand + spent.faults < MaxMishaps
    /\ spent' = [spent EXCEPT !.hand = @ + 1]
    /\ \E p \in Paths, v \in Versions, t \in Tags :
         /\ files[p][v] # None /\ ~Locked(p, v)
         /\ \A row \in RowsOf(p) : row.tag # t
         /\ files' = [files EXCEPT ![p][v].tag = t]
         /\ byHand' = [byHand EXCEPT !.tagged = @ \cup {<<p, v>>}]
    /\ UNCHANGED <<local, cli, server, cache, packages>>

----------------------------------------------------------------------------
(* Failures                                                                *)

Fault == spent.hand + spent.faults < MaxMishaps /\ spent' = [spent EXCEPT !.faults = @ + 1]
Unheard(s) == IF Running(s) THEN [server[s] EXCEPT !.client = None] ELSE Free

(* The command is killed: mappings.json stays as it is at that moment.     *)
CliCrash(pl) ==
    /\ Fault
    /\ cli[pl].pc # "idle"
    /\ cli' = [cli EXCEPT ![pl] = Idle]
    /\ server' = [s \in Slots |-> IF s = cli[pl].slot THEN Unheard(s) ELSE server[s]]
    /\ UNCHANGED <<local, tables, byHand>>

(* The connection of a waiting command breaks; its request may go on.      *)
LoseAnswer(pl) ==
    LET s == cli[pl].slot IN
    /\ Fault
    /\ cli[pl].pc \in {"wait", "number"}
    /\ cli' = [cli EXCEPT ![pl] = IF @.pc = "wait" THEN NextFile(@) ELSE Idle]
    /\ server' = [server EXCEPT ![s] = Unheard(s)]
    /\ UNCHANGED <<local, tables, byHand>>

(* A request whose client went away is dropped where it waits.             *)
Drop(s) ==
    /\ Running(s) /\ server[s].client = None
    /\ Goto(s, Free)
    /\ UNCHANGED <<local, cli, tables, byHand, spent>>

(* No connection to the database is to be had, or a statement fails: the   *)
(* handler answers with an error and undoes nothing. An upload whose last  *)
(* statement fails, the update or the deletion, leaves its row pending.    *)
StatementFails(s) ==
    /\ Fault
    /\ Running(s)
    /\ Fail(s)
    /\ UNCHANGED <<local, cli, tables, byHand>>

ServerCrash ==
    /\ Fault
    /\ server' = [s \in Slots |->
           IF server[s].client \in Platforms
           THEN [Free EXCEPT !.st = "lost", !.client = server[s].client]
           ELSE Free]
    /\ UNCHANGED <<local, cli, tables, byHand>>

Next ==
    \/ \E pl \in Platforms :
         \/ UpdateLocal(pl) \/ StartFiles(pl) \/ StartPackage(pl) \/ CliStep(pl)
         \/ CliCrash(pl) \/ LoseAnswer(pl)
    \/ \E s \in Slots : HandlerStep(s) \/ Drop(s) \/ StatementFails(s)
    \/ Serve \/ Expire \/ PackageByHand \/ Retag \/ ServerCrash

Spec == Init /\ [][Next]_vars

----------------------------------------------------------------------------
(* Properties                                                              *)

(* What the local files say is on the server is there, as they say: the    *)
(* row that a mapping entry names, the contents that release_config.json   *)
(* lists, the package whose version it bears. Two platforms writing one    *)
(* file, reused versions and lost answers never leave a dangling record    *)
(* that a later command would skip an upload for.                          *)
Backs(e, p) == Ready(files[p][e.version]) /\ EntryOf(files[p][e.version]) = e
LocalRecordsBacked ==
    /\ \A t \in AnyTag, p \in Paths : Mapped(t, p) # None => Backs(Mapped(t, p), p)
    /\ \A pl \in Platforms :
        /\ \A p \in Paths : rc[pl].files[p] # None =>
             \E v \in Versions : /\ Ready(files[p][v])
                                 /\ files[p][v].url = rc[pl].files[p].url
                                 /\ files[p][v].sum = rc[pl].files[p].sum
        /\ rc[pl].version # None =>
             \E pkg \in packages : pkg.by = "package" /\ pkg.version = rc[pl].version

(* A package made by create-remote-package under a tag holds rows of that  *)
(* tag only, whatever was published under the others from the same         *)
(* directory, unless somebody moved the tag of the row by hand.            *)
PackageKeepsTag ==
    \A pkg \in packages, p \in Paths : pkg.by = "package" =>
        \/ files[p][pkg.files[p]].tag = pkg.tag
        \/ <<p, pkg.files[p]>> \in byHand.tagged

(* Through the cache too, a package made by the command is served with the *)
(* contents its command had recorded. What may spoil it, for three days,   *)
(* is a package made by hand that named the row while it was pending; the  *)
(* property is silent on every row ever chosen by hand, pending or not.    *)
ServedAsPublished ==
    \A pkg \in packages, p \in Paths : pkg.by = "package" =>
        LET row == Resolved(p, pkg.files[p]) IN
        \/ Ready(row) /\ row.sum = pkg.meant[p]
        \/ <<p, pkg.files[p]>> \in byHand.packaged

(* A pending row is some request's to complete or delete. What leaves one  *)
(* behind, whose tag is refused to every later upload of the path, is a    *)
(* crash, a client that went away, or a failed statement: the update that  *)
(* completes the row or the deletion. A bucket that failed does not, nor   *)
(* does an insertion that lost to another or a version freed and given     *)
(* again.                                                                  *)
Owned(p, v) == \E s \in Slots :
    /\ server[s].st = "stream"
    /\ server[s].path = p /\ server[s].version = v
OrphanNeedsFault ==
    spent.faults = 0 => \A p \in Paths, v \in Versions :
        files[p][v] # None /\ Pending(files[p][v]) => Owned(p, v)

(* The tables implement the registry: no interleaving of uploads, failed   *)
(* uploads that free their version, and crashes replaces or withdraws a    *)
(* file once it is ready, and no package of the command names another.     *)
Published == [p \in Paths |-> [v \in Versions |->
                 IF Ready(files[p][v]) THEN files[p][v].sum ELSE None]]
Packaged == {[version |-> pkg.version, files |-> pkg.files] :
                pkg \in {x \in packages : x.by = "package"}}
Reg == INSTANCE Registry WITH published <- Published, packaged <- Packaged
ImplementsRegistry == Reg!RegSpec
============================================================================
