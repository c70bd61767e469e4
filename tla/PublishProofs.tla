--------------------------- MODULE PublishProofs ---------------------------
(***************************************************************************)
(* Publishing, for any paths, commands, requests and faults: what is       *)
(* recorded locally, packaged or cached is backed by rows that are ready,  *)
(* and a ready row is never replaced or withdrawn.                         *)
(***************************************************************************)
EXTENDS Publish, TLAPS

----------------------------------------------------------------------------
(* Each part of the invariant is said of the tables it is about, so that   *)
(* it can be carried from the tables before a step to those after it: f is *)
(* the table of files, h what was done by hand, pk the packages.           *)

(* A row that is ready, as e has it, and under tag t unless moved by hand. *)
Backed(f, p, e) ==
    e.version \in Versions /\ Ready(f[p][e.version]) /\ EntryOf(f[p][e.version]) = e
Under(f, h, t, p, v) == f[p][v].tag = t \/ <<p, v>> \in h.tagged

RowBacked(f, h, row) ==
    /\ row \in Row
    /\ Backed(f, row.path, EntryOf(row)) /\ Under(f, h, row.tag, row.path, row.version)
MapBacked(f, h, m) == \A t \in AnyTag, p \in Paths :
    m[t][p] # None => Backed(f, p, m[t][p]) /\ Under(f, h, t, p, m[t][p].version)

(* What a package of the command names, and what one made by hand does.    *)
PackBacked(f, h, t, named, meant) == \A p \in Paths :
    /\ named[p] \in Versions /\ Ready(f[p][named[p]])
    /\ f[p][named[p]].sum = meant[p] /\ Under(f, h, t, p, named[p])
PackByHand(h, named) == \A p \in Paths : <<p, named[p]>> \in h.packaged

CommandFits(f, h, c) ==
    /\ c.pc \in {"wait", "number"} => c.slot \in Slots
    /\ \A p \in Paths : c.done[p] # None =>
         /\ Backed(f, p, c.done[p])
         /\ c.pc \in {"collect", "send"} => Under(f, h, c.tag, p, c.done[p].version)
    /\ c.pc \in {"open", "write"} =>
         RowBacked(f, h, c.got) /\ c.known \in Mappings /\ MapBacked(f, h, c.known)
    /\ c.pc \in {"wait", "open", "write", "collect"} => c.next <= Len(Order)
    /\ c.pc = "collect" => \A i \in 1 .. Len(Order) : i < c.next => c.done[Order[i]] # None
    /\ c.pc = "send" => \A p \in Paths : c.done[p] # None

RequestFits(f, h, pk, q) ==
    /\ q.st \in {"check", "latest", "insert", "stream"} =>
         /\ q.op \in {"upload", "create"}
         /\ q.op = "upload" \/ q.st # "check" => q.sum \in Contents
    /\ q.st \in {"insert", "stream"} => q.version \in Versions
    /\ q.st = "stream" => q.op = "upload"
    /\ q.st \in {"lookup", "number", "save"} =>
         /\ q.files \in [Paths -> Versions]
         /\ \/ q.op = "package" /\ PackBacked(f, h, q.tag, q.files, q.meant)
            \/ q.op = "byhand" /\ q.client = None /\ PackByHand(h, q.files)
    /\ q.st = "save" => q.version \in PackageVersions
    /\ q.reply # None => RowBacked(f, h, q.reply)
    /\ q.st \in {"answer", "lost"} /\ q.version # None =>
         \E pkg \in pk : pkg.by = "package" /\ pkg.version = q.version

PackageFits(f, h, pkg) ==
    IF pkg.by = "package" THEN PackBacked(f, h, pkg.tag, pkg.files, pkg.meant)
    ELSE PackByHand(h, pkg.files)

ConfigFits(f, pk, config) ==
    /\ \A p \in Paths : config.files[p] # None =>
         \E v \in Versions : /\ Ready(f[p][v])
                             /\ f[p][v].url = config.files[p].url /\ f[p][v].sum = config.files[p].sum
    /\ config.version # None =>
         \E pkg \in pk : pkg.by = "package" /\ pkg.version = config.version

(* A cached row is the row, or one that a package made by hand named.      *)
CacheFits(f, h, c) == \A p \in Paths, v \in Versions : c[p][v] # None =>
    \/ Ready(f[p][v]) /\ c[p][v] = ServedOf(f[p][v])
    \/ <<p, v>> \in h.packaged

Records ==
    /\ \A pl \in Platforms : CommandFits(files, byHand, cli[pl]) /\ ConfigFits(files, packages, rc[pl])
    /\ \A s \in Slots : RequestFits(files, byHand, packages, server[s])
    /\ \A pkg \in packages : PackageFits(files, byHand, pkg)
    /\ mappings # Torn => MapBacked(files, byHand, mappings)
    /\ CacheFits(files, byHand, cache)

(* A row is in its place, and ready only with its url.                     *)
RowsPlaced == \A p \in Paths, v \in Versions : files[p][v] # None =>
    /\ files[p][v].path = p /\ files[p][v].version = v
    /\ ~Pending(files[p][v]) => files[p][v].url # ""

(* A request that streams has a pending row to itself.                     *)
Streams(s) == server[s].st = "stream"
StreamsOwn ==
    /\ \A s \in Slots : Streams(s) =>
         LET row == files[server[s].path][server[s].version] IN row # None /\ Pending(row)
    /\ \A s, z \in Slots : s # z /\ Streams(s) /\ Streams(z) =>
         server[s].path # server[z].path \/ server[s].version # server[z].version

(* Without a fault, a client waits for every request about a file.         *)
ClientsWait == spent.faults = 0 => \A s \in Slots :
    server[s].st \in {"check", "latest", "insert", "stream"} => server[s].client # None

PInv == TypeOK /\ Records /\ RowsPlaced /\ StreamsOwn /\ ClientsWait /\ OrphanNeedsFault

----------------------------------------------------------------------------
(* Facts about the constants and the records.                              *)

LEMMA OrderFacts ==
  /\ Len(Order) \in Nat \ {0} /\ Order[1] \in Paths
  /\ \A i \in 1 .. Len(Order) : Order[i] \in Paths
  /\ \A p \in Paths : \E i \in 1 .. Len(Order) : p = Order[i]
BY OrderAssumption DEF Paths

LEMMA NoneFacts ==
  /\ None \notin Contents \cup Versions \cup PackageVersions \cup Slots \cup AnyTag \cup Platforms
  /\ None \notin Row \cup Served /\ NoTag \notin Tags
BY NoneAssumption, AbsentAssumption

LEMMA IdleFacts ==
  /\ Idle \in Command /\ Idle.pc = "idle" /\ Idle.next = 1 /\ Idle.slot = None
  /\ \A p \in Paths : Idle.done[p] = None
BY OrderFacts DEF Idle, Command, NoEntries, AnyTag

LEMMA FreeFacts ==
  /\ Free \in Request /\ Free.st = "free" /\ Free.op = "none" /\ Free.client = None
  /\ Free.reply = None /\ Free.version = None
BY OrderFacts DEF Free, Request, NoEntries, AnyTag

LEMMA NextFileFacts ==
  ASSUME NEW c \in Command, c.next <= Len(Order)
  PROVE  /\ NextFile(c) \in Command /\ NextFile(c).pc = "file" /\ NextFile(c).done = c.done
         /\ NextFile(c).slot = None
<1>1. c.next + 1 \in 1 .. Len(Order) + 1
  BY OrderFacts DEF Command
<1>2. NextFile(c) = [c EXCEPT !.pc = "file", !.next = c.next + 1, !.slot = None,
                              !.got = None, !.known = None]
  BY DEF NextFile
<1> QED BY <1>1, <1>2 DEF Command

(* An answer leaves the slot free, or with what is answered.               *)
LEMMA AnswerFacts ==
  ASSUME TypeOK, NEW s \in Slots, NEW a \in Request, Answer(s, a)
  PROVE  \E r \in Request :
           /\ server' = [server EXCEPT ![s] = r]
           /\ \/ r = Free
              \/ /\ r.st = "answer" /\ r.op = a.op /\ r.reply = a.reply /\ r.version = a.version
                 /\ r.client = server[s].client /\ server[s].client # None
<1>1. server[s].client \in Platforms \cup {None}
  BY DEF TypeOK, Request
<1> DEFINE r == [a EXCEPT !.st = "answer", !.client = server[s].client]
<1>2. /\ r \in Request /\ r.st = "answer" /\ r.op = a.op /\ r.reply = a.reply
      /\ r.version = a.version /\ r.client = server[s].client
  BY <1>1 DEF Request
<1> QED BY <1>2, FreeFacts DEF Answer, Goto

----------------------------------------------------------------------------
(* The tables only grow: a ready row keeps its content, and its tag unless *)
(* it is moved by hand.                                                    *)
Grows(f, h, f2, h2) ==
    /\ h.tagged \subseteq h2.tagged /\ h.packaged \subseteq h2.packaged
    /\ \A p \in Paths, v \in Versions : Ready(f[p][v]) =>
         /\ Ready(f2[p][v]) /\ f2[p][v].version = f[p][v].version
         /\ f2[p][v].url = f[p][v].url /\ f2[p][v].sum = f[p][v].sum
         /\ f2[p][v].tag = f[p][v].tag \/ <<p, v>> \in h2.tagged

LEMMA GrowsAtAll ==
  ASSUME NEW f, NEW h
  PROVE  Grows(f, h, f, h)
BY DEF Grows

LEMMA BackedGrows ==
  ASSUME NEW f, NEW h, NEW f2, NEW h2, Grows(f, h, f2, h2), NEW p \in Paths, NEW e, Backed(f, p, e)
  PROVE  Backed(f2, p, e)
BY DEF Grows, Backed, EntryOf

LEMMA UnderGrows ==
  ASSUME NEW f, NEW h, NEW f2, NEW h2, Grows(f, h, f2, h2),
         NEW p \in Paths, NEW v \in Versions, Ready(f[p][v]), NEW t, Under(f, h, t, p, v)
  PROVE  Under(f2, h2, t, p, v)
BY DEF Grows, Under

LEMMA RowGrows ==
  ASSUME NEW f, NEW h, NEW f2, NEW h2, Grows(f, h, f2, h2), NEW row, RowBacked(f, h, row)
  PROVE  RowBacked(f2, h2, row)
<1>1. row.path \in Paths /\ row.version \in Versions
  BY DEF RowBacked, Row
<1>2. Ready(f[row.path][row.version])
  BY DEF RowBacked, Backed, EntryOf
<1> QED BY <1>1, <1>2, BackedGrows, UnderGrows DEF RowBacked

LEMMA MapGrows ==
  ASSUME NEW f, NEW h, NEW f2, NEW h2, Grows(f, h, f2, h2), NEW m, MapBacked(f, h, m)
  PROVE  MapBacked(f2, h2, m)
<1>1. ASSUME NEW t \in AnyTag, NEW p \in Paths, m[t][p] # None
      PROVE  Backed(f2, p, m[t][p]) /\ Under(f2, h2, t, p, m[t][p].version)
  <2>1. Backed(f, p, m[t][p]) /\ Under(f, h, t, p, m[t][p].version)
    BY <1>1 DEF MapBacked
  <2>2. m[t][p].version \in Versions /\ Ready(f[p][m[t][p].version])
    BY <2>1 DEF Backed
  <2> QED BY <2>1, <2>2, BackedGrows, UnderGrows
<1> QED BY <1>1 DEF MapBacked

LEMMA PackGrows ==
  ASSUME NEW f, NEW h, NEW f2, NEW h2, Grows(f, h, f2, h2), NEW t, NEW named, NEW meant
  PROVE  /\ PackBacked(f, h, t, named, meant) => PackBacked(f2, h2, t, named, meant)
         /\ PackByHand(h, named) => PackByHand(h2, named)
<1>1. ASSUME PackBacked(f, h, t, named, meant), NEW p \in Paths
      PROVE  /\ named[p] \in Versions /\ Ready(f2[p][named[p]])
             /\ f2[p][named[p]].sum = meant[p] /\ Under(f2, h2, t, p, named[p])
  <2>1. /\ named[p] \in Versions /\ Ready(f[p][named[p]])
        /\ f[p][named[p]].sum = meant[p] /\ Under(f, h, t, p, named[p])
    BY <1>1 DEF PackBacked
  <2>2. Under(f2, h2, t, p, named[p])
    BY <2>1, UnderGrows
  <2> QED BY <2>1, <2>2 DEF Grows
<1> QED BY <1>1 DEF PackBacked, PackByHand, Grows

LEMMA CommandGrows ==
  ASSUME NEW f, NEW h, NEW f2, NEW h2, Grows(f, h, f2, h2), NEW c, CommandFits(f, h, c)
  PROVE  CommandFits(f2, h2, c)
<1>1. ASSUME NEW p \in Paths, c.done[p] # None
      PROVE  /\ Backed(f2, p, c.done[p])
             /\ c.pc \in {"collect", "send"} => Under(f2, h2, c.tag, p, c.done[p].version)
  <2>1. Backed(f, p, c.done[p])
    BY <1>1 DEF CommandFits
  <2>2. c.done[p].version \in Versions /\ Ready(f[p][c.done[p].version])
    BY <2>1 DEF Backed
  <2>3. c.pc \in {"collect", "send"} => Under(f, h, c.tag, p, c.done[p].version)
    BY <1>1 DEF CommandFits
  <2> QED BY <2>1, <2>2, <2>3, BackedGrows, UnderGrows
<1>2. c.pc \in {"open", "write"} => RowBacked(f2, h2, c.got) /\ MapBacked(f2, h2, c.known)
  BY RowGrows, MapGrows DEF CommandFits
<1> QED BY <1>1, <1>2 DEF CommandFits

LEMMA RequestGrows ==
  ASSUME NEW f, NEW h, NEW f2, NEW h2, Grows(f, h, f2, h2), NEW pk, NEW pk2, pk \subseteq pk2,
         NEW q, RequestFits(f, h, pk, q)
  PROVE  RequestFits(f2, h2, pk2, q)
<1>1. q.reply # None => RowBacked(f2, h2, q.reply)
  BY RowGrows DEF RequestFits
<1>2. /\ PackBacked(f, h, q.tag, q.files, q.meant) => PackBacked(f2, h2, q.tag, q.files, q.meant)
      /\ PackByHand(h, q.files) => PackByHand(h2, q.files)
  BY PackGrows
<1> QED BY <1>1, <1>2 DEF RequestFits

LEMMA ConfigGrows ==
  ASSUME NEW f, NEW h, NEW f2, NEW h2, Grows(f, h, f2, h2), NEW pk, NEW pk2, pk \subseteq pk2,
         NEW g, ConfigFits(f, pk, g)
  PROVE  ConfigFits(f2, pk2, g)
<1>1. ASSUME NEW p \in Paths, g.files[p] # None
      PROVE  \E v \in Versions :
               Ready(f2[p][v]) /\ f2[p][v].url = g.files[p].url /\ f2[p][v].sum = g.files[p].sum
  <2>1. PICK v \in Versions :
          Ready(f[p][v]) /\ f[p][v].url = g.files[p].url /\ f[p][v].sum = g.files[p].sum
    BY <1>1 DEF ConfigFits
  <2> QED BY <2>1 DEF Grows
<1> QED BY <1>1 DEF ConfigFits

LEMMA CacheGrows ==
  ASSUME NEW f, NEW h, NEW f2, NEW h2, Grows(f, h, f2, h2), NEW c, CacheFits(f, h, c)
  PROVE  CacheFits(f2, h2, c)
BY DEF CacheFits, Grows, ServedOf

----------------------------------------------------------------------------
(* The commands and the faults of a client leave the tables alone.         *)

LEMMA FreeFits ==
  ASSUME NEW f, NEW h, NEW pk
  PROVE  RequestFits(f, h, pk, Free)
BY FreeFacts DEF RequestFits

LEMMA IdleFits ==
  ASSUME NEW f, NEW h
  PROVE  CommandFits(f, h, Idle)
BY IdleFacts DEF CommandFits

(* What request r may be on slot s instead of the one there.               *)
GoesOn(s, r) ==
    /\ r \in Request /\ RequestFits(files, byHand, packages, r)
    /\ r.st = "stream" =>
         Streams(s) /\ r.path = server[s].path /\ r.version = server[s].version
    /\ Streams(s) /\ spent'.faults = 0 => r.st = "stream"
    /\ r.st \in {"check", "latest", "insert", "stream"} /\ spent'.faults = 0 => r.client # None

LEMMA ServerMoves ==
  ASSUME PInv, UNCHANGED <<files, packages, byHand>>, spent'.faults = 0 => spent.faults = 0,
         server' \in [Slots -> Request],
         \A s \in Slots : server'[s] = server[s] \/ GoesOn(s, server'[s])
  PROVE  /\ \A s \in Slots : RequestFits(files', byHand', packages', server'[s])
         /\ StreamsOwn' /\ ClientsWait' /\ OrphanNeedsFault'
<1>1. \A s \in Slots : RequestFits(files', byHand', packages', server'[s])
  BY DEF GoesOn, PInv, Records
<1>2. StreamsOwn'
  <2>1. ASSUME NEW s \in Slots, server'[s].st = "stream"
        PROVE  Streams(s) /\ server'[s].path = server[s].path /\ server'[s].version = server[s].version
    BY <2>1 DEF GoesOn, Streams
  <2> QED BY <2>1 DEF PInv, StreamsOwn, Streams
<1>3. ClientsWait'
  BY DEF GoesOn, PInv, ClientsWait
<1>4. OrphanNeedsFault'
  <2> SUFFICES ASSUME spent'.faults = 0, NEW p \in Paths, NEW v \in Versions,
                      files[p][v] # None, Pending(files[p][v])
               PROVE  \E s \in Slots : /\ server'[s].st = "stream"
                                       /\ server'[s].path = p /\ server'[s].version = v
    BY DEF OrphanNeedsFault, Owned, Pending
  <2>1. PICK s \in Slots : Streams(s) /\ server[s].path = p /\ server[s].version = v
    BY DEF PInv, OrphanNeedsFault, Owned, Streams
  <2>2. /\ server'[s].st = "stream"
        /\ server'[s].path = server[s].path /\ server'[s].version = server[s].version
    BY <2>1 DEF GoesOn, Streams
  <2> QED BY <2>1, <2>2
<1> QED BY <1>1, <1>2, <1>3, <1>4

Spends == [commands : 0 .. MaxCommands, hand : 0 .. MaxMishaps, faults : 0 .. MaxMishaps]

LEMMA CliMoves ==
  ASSUME PInv, NEW pl \in Platforms, UNCHANGED <<tables, byHand>>,
         disk' \in [Platforms -> [Paths -> Contents]],
         spent' \in Spends, spent'.faults = 0 => spent.faults = 0,
         \E c \in Command : cli' = [cli EXCEPT ![pl] = c] /\ CommandFits(files, byHand, c),
         \E g \in ReleaseConfig : rc' = [rc EXCEPT ![pl] = g] /\ ConfigFits(files, packages, g),
         mappings' = mappings \/ mappings' = Torn
           \/ (mappings' \in Mappings /\ MapBacked(files, byHand, mappings')),
         server' \in [Slots -> Request],
         \A s \in Slots : server'[s] = server[s] \/ GoesOn(s, server'[s])
  PROVE  PInv'
<1>1. /\ \A s \in Slots : RequestFits(files', byHand', packages', server'[s])
      /\ StreamsOwn' /\ ClientsWait' /\ OrphanNeedsFault'
  BY ServerMoves DEF tables
<1>2. files' = files /\ cache' = cache /\ packages' = packages /\ byHand' = byHand
  BY DEF tables
<1>3. cli' \in [Platforms -> Command] /\ \A x \in Platforms : CommandFits(files, byHand, cli'[x])
  BY DEF PInv, TypeOK, Records
<1>4. rc' \in [Platforms -> ReleaseConfig] /\ \A x \in Platforms : ConfigFits(files, packages, rc'[x])
  BY DEF PInv, TypeOK, Records
<1>5. mappings' = Torn \/ mappings' \in Mappings
  BY DEF PInv, TypeOK
<1>6. TypeOK'
  BY <1>2, <1>3, <1>4, <1>5 DEF PInv, TypeOK, Spends
<1>7. mappings' # Torn => MapBacked(files', byHand', mappings')
  BY <1>2 DEF PInv, Records
<1>8. Records'
  BY <1>1, <1>2, <1>3, <1>4, <1>7 DEF PInv, Records
<1>9. RowsPlaced'
  BY <1>2 DEF PInv, RowsPlaced, Pending
<1> QED BY <1>1, <1>6, <1>8, <1>9 DEF PInv

(* What a step of a command that leaves a variable alone has to show of it.*)
LEMMA SameCli ==
  ASSUME PInv, NEW pl \in Platforms, cli' = cli
  PROVE  \E c \in Command : cli' = [cli EXCEPT ![pl] = c] /\ CommandFits(files, byHand, c)
<1>1. cli = [cli EXCEPT ![pl] = cli[pl]] /\ cli[pl] \in Command /\ CommandFits(files, byHand, cli[pl])
  BY DEF PInv, TypeOK, Records
<1> QED BY <1>1

LEMMA SameConfig ==
  ASSUME PInv, NEW pl \in Platforms, rc' = rc
  PROVE  \E g \in ReleaseConfig : rc' = [rc EXCEPT ![pl] = g] /\ ConfigFits(files, packages, g)
<1>1. rc = [rc EXCEPT ![pl] = rc[pl]] /\ rc[pl] \in ReleaseConfig /\ ConfigFits(files, packages, rc[pl])
  BY DEF PInv, TypeOK, Records
<1> QED BY <1>1

(* The request a command waited for is taken off its slot.                 *)
LEMMA SlotFreed ==
  ASSUME PInv, NEW s \in Slots, server[s].st \in {"answer", "lost"},
         server' = [server EXCEPT ![s] = Free]
  PROVE  /\ server' \in [Slots -> Request]
         /\ \A z \in Slots : server'[z] = server[z] \/ GoesOn(z, server'[z])
<1>1. GoesOn(s, Free)
  BY FreeFacts, FreeFits DEF GoesOn, Streams
<1> QED BY <1>1, FreeFacts DEF PInv, TypeOK

(* A request is sent on a free slot.                                       *)
LEMMA Sent ==
  ASSUME PInv, NEW pl \in Platforms, NEW r \in Request, NEW pc \in {"wait", "number"},
         Send(pl, r, pc), RequestFits(files, byHand, packages, r), r.st # "stream", r.client # None,
         pc = "wait" => cli[pl].next <= Len(Order),
         UNCHANGED <<local, tables, byHand, spent>>
  PROVE  PInv'
<1>1. PICK s \in FreeSlots : /\ server' = [server EXCEPT ![s] = r]
                             /\ cli' = [cli EXCEPT ![pl].pc = pc, ![pl].slot = s]
  BY DEF Send
<1>2. s \in Slots /\ server[s].st = "free"
  BY DEF FreeSlots
<1>3. cli[pl] \in Command /\ CommandFits(files, byHand, cli[pl])
  BY DEF PInv, TypeOK, Records
<1> DEFINE c == [cli[pl] EXCEPT !.pc = pc, !.slot = s]
<1>4. /\ c \in Command /\ c.pc = pc /\ c.slot = s /\ c.next = cli[pl].next
      /\ c.done = cli[pl].done
  BY <1>2, <1>3 DEF Command
<1>5. CommandFits(files, byHand, c)
  <2> HIDE DEF c
  <2> QED BY <1>2, <1>3, <1>4 DEF CommandFits
<1>6. cli' = [cli EXCEPT ![pl] = c]
  BY <1>1 DEF PInv, TypeOK
<1>7. GoesOn(s, r)
  BY <1>2 DEF GoesOn, Streams
<1>8. /\ server' \in [Slots -> Request]
      /\ \A z \in Slots : server'[z] = server[z] \/ GoesOn(z, server'[z])
  BY <1>1, <1>2, <1>7 DEF PInv, TypeOK
<1>9. disk' = disk /\ rc' = rc /\ mappings' = mappings
  BY DEF local
<1> HIDE DEF c
<1>10. \E x \in Command : cli' = [cli EXCEPT ![pl] = x] /\ CommandFits(files, byHand, x)
  BY <1>4, <1>5, <1>6
<1>11. disk' \in [Platforms -> [Paths -> Contents]] /\ spent' \in Spends
  BY <1>9 DEF PInv, TypeOK, Spends
<1> QED BY <1>8, <1>9, <1>10, <1>11, SameConfig, CliMoves

(* What the invariant says of a command, for its steps.                    *)
LEMMA CommandHas ==
  ASSUME PInv, NEW pl \in Platforms
  PROVE  /\ cli \in [Platforms -> Command] /\ cli[pl] \in Command /\ CommandFits(files, byHand, cli[pl])
         /\ rc \in [Platforms -> ReleaseConfig] /\ rc[pl] \in ReleaseConfig
         /\ ConfigFits(files, packages, rc[pl])
         /\ disk \in [Platforms -> [Paths -> Contents]] /\ spent \in Spends
         /\ server \in [Slots -> Request]
BY DEF PInv, TypeOK, Records, Spends

LEMMA SpendCommand ==
  ASSUME PInv, spent.commands < MaxCommands, spent' = [spent EXCEPT !.commands = @ + 1]
  PROVE  spent' \in Spends /\ spent'.faults = spent.faults
<1>1. spent.commands + 1 \in 0 .. MaxCommands /\ spent \in Spends
  BY BoundAssumption DEF PInv, TypeOK, Spends
<1> QED BY <1>1 DEF Spends

LEMMA UpdateLocalStep ==
  ASSUME PInv, NEW pl \in Platforms, UpdateLocal(pl)
  PROVE  PInv'
<1>1. spent' \in Spends /\ spent'.faults = spent.faults
  BY SpendCommand DEF UpdateLocal
<1>2. disk' \in [Platforms -> [Paths -> Contents]]
  BY CommandHas DEF UpdateLocal
<1> DEFINE g == [rc[pl] EXCEPT !.files = NoEntries]
<1>3. g \in ReleaseConfig /\ g.version = rc[pl].version /\ g.files = NoEntries
  BY CommandHas DEF ReleaseConfig, NoEntries
<1>4. rc' = [rc EXCEPT ![pl] = g]
  BY CommandHas DEF UpdateLocal
<1>5. ConfigFits(files, packages, g)
  BY <1>3, CommandHas DEF ConfigFits, NoEntries
<1> HIDE DEF g
<1> QED BY <1>1, <1>2, <1>3, <1>4, <1>5, CommandHas, SameCli, CliMoves DEF UpdateLocal, tables

LEMMA StartStep ==
  ASSUME PInv, NEW pl \in Platforms, StartFiles(pl) \/ StartPackage(pl)
  PROVE  PInv'
<1>1. spent' \in Spends /\ spent'.faults = spent.faults
  BY SpendCommand DEF StartFiles, StartPackage
<1>2. PICK t \in AnyTag, pc \in {"file", "collect"} :
        cli' = [cli EXCEPT ![pl] = [Idle EXCEPT !.pc = pc, !.tag = t]]
  BY DEF StartFiles, StartPackage
<1> DEFINE c == [Idle EXCEPT !.pc = pc, !.tag = t]
<1>3. c \in Command /\ c.pc = pc /\ c.next = 1 /\ c.done = Idle.done
  BY IdleFacts DEF Command, Idle
<1>4. CommandFits(files, byHand, c)
  <2> HIDE DEF c
  <2> QED BY <1>3, IdleFacts, OrderFacts DEF CommandFits
<1>5. \E x \in Command : cli' = [cli EXCEPT ![pl] = x] /\ CommandFits(files, byHand, x)
  BY <1>2, <1>3, <1>4
<1>6. UNCHANGED <<local, server, tables, byHand>>
  BY DEF StartFiles, StartPackage
<1> QED BY <1>1, <1>5, <1>6, CommandHas, SameConfig, CliMoves DEF local

(* The entry under a tag, if there is one, is backed.                      *)
LEMMA MappedBacked ==
  ASSUME PInv, NEW t \in AnyTag, NEW p \in Paths, Mapped(t, p) # None
  PROVE  /\ Mapped(t, p) \in Entry /\ Backed(files, p, Mapped(t, p))
         /\ Under(files, byHand, t, p, Mapped(t, p).version)
<1>1. mappings # Torn /\ Mapped(t, p) = mappings[t][p]
  BY DEF Mapped
<1>2. MapBacked(files, byHand, mappings) /\ mappings \in Mappings
  BY <1>1 DEF PInv, TypeOK, Records
<1> QED BY <1>1, <1>2 DEF MapBacked, Mappings

(* One more file is done.                                                  *)
LEMMA DoneFacts ==
  ASSUME NEW c \in Command, NEW p \in Paths, NEW e \in Entry \cup {None}
  PROVE  LET d == [c EXCEPT !.done[p] = e] IN
         /\ d \in Command /\ d.pc = c.pc /\ d.next = c.next /\ d.tag = c.tag
         /\ d.done = [c.done EXCEPT ![p] = e]
BY DEF Command

(* On to the next file.                                                    *)
LEMMA NextFits ==
  ASSUME NEW f, NEW h, NEW c \in Command, c.next <= Len(Order),
         \A p \in Paths : c.done[p] # None => Backed(f, p, c.done[p])
  PROVE  NextFile(c) \in Command /\ CommandFits(f, h, NextFile(c))
<1>1. /\ NextFile(c) \in Command /\ NextFile(c).pc = "file" /\ NextFile(c).done = c.done
      /\ NextFile(c).slot = None
  BY NextFileFacts
<1> QED BY <1>1 DEF CommandFits

LEMMA SkipFileStep ==
  ASSUME PInv, NEW pl \in Platforms, SkipFile(pl)
  PROVE  PInv'
<1> DEFINE p == Order[cli[pl].next]
           e == Mapped(cli[pl].tag, p)
           c == [cli[pl] EXCEPT !.done[p] = e]
<1>1. cli[pl] \in Command /\ cli[pl].next \in 1 .. Len(Order) /\ cli[pl].tag \in AnyTag /\ p \in Paths
  BY CommandHas, OrderFacts DEF SkipFile, Command
<1>2. e # None
  BY DEF SkipFile, Recorded
<1>3. e \in Entry /\ Backed(files, p, e)
  BY <1>1, <1>2, MappedBacked
<1>4. cli' = [cli EXCEPT ![pl] = NextFile(c)]
  BY CommandHas DEF SkipFile
<1> HIDE DEF p, e
<1>5. c \in Command /\ c.next = cli[pl].next /\ c.done = [cli[pl].done EXCEPT ![p] = e]
  BY <1>1, <1>3, DoneFacts
<1>6. \A x \in Paths : c.done[x] # None => Backed(files, x, c.done[x])
  BY <1>1, <1>3, <1>5, CommandHas DEF CommandFits, Command
<1> HIDE DEF c
<1>7. NextFile(c) \in Command /\ CommandFits(files, byHand, NextFile(c))
  <2>1. c \in Command /\ c.next <= Len(Order)
    BY <1>1, <1>5
  <2> QED BY <2>1, <1>6, NextFits
<1>8. UNCHANGED <<local, server, tables, byHand, spent>>
  BY DEF SkipFile
<1> QED BY <1>4, <1>7, <1>8, CommandHas, SameConfig, CliMoves DEF local

LEMMA SendFileStep ==
  ASSUME PInv, NEW pl \in Platforms, SendFile(pl)
  PROVE  PInv'
<1> DEFINE p == Order[cli[pl].next]
           r == [Free EXCEPT !.client = pl, !.tag = cli[pl].tag, !.path = p]
           up == [r EXCEPT !.op = "upload", !.st = "check", !.sum = disk[pl][p]]
           cr == [r EXCEPT !.op = "create", !.st = "check"]
<1>1. /\ cli[pl].next \in 1 .. Len(Order) /\ cli[pl].tag \in AnyTag /\ p \in Paths
      /\ disk[pl][p] \in Contents /\ pl # None
  BY CommandHas, OrderFacts, NoneFacts DEF SendFile, Command
<1> HIDE DEF p
<1>2. /\ up \in Request /\ up.st = "check" /\ up.op = "upload" /\ up.sum = disk[pl][p]
      /\ up.reply = None /\ up.client = pl
  BY <1>1, FreeFacts DEF Request
<1>3. cr \in Request /\ cr.st = "check" /\ cr.op = "create" /\ cr.reply = None /\ cr.client = pl
  BY <1>1, FreeFacts DEF Request
<1>4. Send(pl, up, "wait") \/ Send(pl, cr, "wait")
  BY DEF SendFile, p
<1> HIDE DEF up, cr
<1>5. RequestFits(files, byHand, packages, up) /\ RequestFits(files, byHand, packages, cr)
  BY <1>1, <1>2, <1>3 DEF RequestFits
<1>6. UNCHANGED <<local, tables, byHand, spent>>
  BY DEF SendFile
<1> QED BY <1>1, <1>2, <1>3, <1>4, <1>5, <1>6, Sent

LEMMA TakeRowStep ==
  ASSUME PInv, NEW pl \in Platforms, TakeRow(pl)
  PROVE  PInv'
<1> DEFINE s == cli[pl].slot
           c == [cli[pl] EXCEPT !.pc = "open", !.slot = None, !.got = server[s].reply, !.known = mappings]
<1>1. s \in Slots /\ cli[pl].next <= Len(Order) /\ server[s].st \in {"answer", "lost"}
  BY CommandHas DEF TakeRow, CommandFits
<1>2. server[s] \in Request /\ RequestFits(files, byHand, packages, server[s])
  BY <1>1, CommandHas DEF PInv, Records
<1>3. cli' = [cli EXCEPT ![pl] =
                IF server[s].reply = None \/ mappings = Torn THEN NextFile(cli[pl]) ELSE c]
  BY CommandHas DEF TakeRow
<1>4. NextFile(cli[pl]) \in Command /\ CommandFits(files, byHand, NextFile(cli[pl]))
  BY <1>1, CommandHas, NextFits DEF CommandFits
<1>5. ASSUME server[s].reply # None, mappings # Torn
      PROVE  c \in Command /\ CommandFits(files, byHand, c)
  <2>1. /\ RowBacked(files, byHand, server[s].reply) /\ server[s].reply \in Row
        /\ mappings \in Mappings /\ MapBacked(files, byHand, mappings)
    BY <1>2, <1>5 DEF RequestFits, RowBacked, PInv, TypeOK, Records
  <2> DEFINE row == server[s].reply
  <2> HIDE DEF row
  <2>2. /\ c \in Command /\ c.pc = "open" /\ c.got = row /\ c.known = mappings
        /\ c.done = cli[pl].done /\ c.next = cli[pl].next
    BY <2>1, CommandHas DEF Command, row
  <2> HIDE DEF c
  <2>3. CommandFits(files, byHand, c)
    BY <1>1, <2>1, <2>2, CommandHas DEF CommandFits, row
  <2> QED BY <2>2, <2>3
<1>6. \E x \in Command : cli' = [cli EXCEPT ![pl] = x] /\ CommandFits(files, byHand, x)
  <2> HIDE DEF c
  <2> QED BY <1>3, <1>4, <1>5
<1>7. /\ server' \in [Slots -> Request]
      /\ \A z \in Slots : server'[z] = server[z] \/ GoesOn(z, server'[z])
  BY <1>1, SlotFreed DEF TakeRow
<1>8. UNCHANGED <<local, tables, byHand, spent>>
  BY DEF TakeRow
<1> QED BY <1>6, <1>7, <1>8, CommandHas, SameConfig, CliMoves DEF local

LEMMA OpenStep ==
  ASSUME PInv, NEW pl \in Platforms, OpenMappings(pl)
  PROVE  PInv'
<1> DEFINE c == [cli[pl] EXCEPT !.pc = "write"]
<1>1. /\ c \in Command /\ c.pc = "write" /\ c.slot = cli[pl].slot /\ c.next = cli[pl].next
      /\ c.done = cli[pl].done /\ c.got = cli[pl].got /\ c.known = cli[pl].known
  BY CommandHas DEF Command
<1>2. cli' = [cli EXCEPT ![pl] = c] /\ cli[pl].pc = "open" /\ mappings' = Torn
  BY CommandHas DEF OpenMappings
<1> HIDE DEF c
<1>3. CommandFits(files, byHand, c)
  BY <1>1, <1>2, CommandHas DEF CommandFits
<1>4. UNCHANGED <<disk, rc, server, tables, byHand, spent>>
  BY DEF OpenMappings
<1> QED BY <1>1, <1>2, <1>3, <1>4, CommandHas, SameConfig, CliMoves

(* The entry of an answered row.                                           *)
LEMMA EntryFacts ==
  ASSUME NEW row \in Row, NEW f, NEW h, RowBacked(f, h, row), f \in [Paths -> [Versions -> Row \cup {None}]],
         \A p \in Paths, v \in Versions : Ready(f[p][v]) => f[p][v].url # ""
  PROVE  EntryOf(row) \in Entry
<1>1. row.path \in Paths /\ row.version \in Versions
  BY DEF Row
<1>2. /\ Ready(f[row.path][row.version]) /\ f[row.path][row.version] \in Row
      /\ f[row.path][row.version].url # ""
  <2>1. EntryOf(row).version = row.version
    BY DEF EntryOf
  <2>2. Ready(f[row.path][row.version])
    BY <2>1 DEF RowBacked, Backed
  <2> QED BY <1>1, <2>2 DEF Ready
<1>3. EntryOf(f[row.path][row.version]) = EntryOf(row)
  BY DEF RowBacked, Backed, EntryOf
<1>4. EntryOf(f[row.path][row.version]) \in Entry
  BY <1>2 DEF EntryOf, Entry, Row, Ready, Pending
<1> QED BY <1>3, <1>4

LEMMA WriteStep ==
  ASSUME PInv, NEW pl \in Platforms, WriteMappings(pl)
  PROVE  PInv'
<1> DEFINE row == cli[pl].got
           e   == EntryOf(row)
           new == [cli[pl].known EXCEPT ![row.tag][row.path] = e]
           c   == [cli[pl] EXCEPT !.done[row.path] = e]
<1>1. /\ row \in Row /\ RowBacked(files, byHand, row) /\ cli[pl].next <= Len(Order)
      /\ cli[pl].known \in Mappings /\ MapBacked(files, byHand, cli[pl].known)
  BY CommandHas DEF WriteMappings, CommandFits, RowBacked
<1>2. e \in Entry
  <2>1. files \in [Paths -> [Versions -> Row \cup {None}]]
    BY DEF PInv, TypeOK
  <2>2. \A p \in Paths, v \in Versions : Ready(files[p][v]) => files[p][v].url # ""
    BY DEF PInv, RowsPlaced, Ready
  <2> QED BY <1>1, <2>1, <2>2, EntryFacts
<1>3. /\ row.path \in Paths /\ row.tag \in AnyTag /\ Backed(files, row.path, e)
      /\ Under(files, byHand, row.tag, row.path, e.version)
  BY <1>1 DEF RowBacked, Row, EntryOf
<1>4. cli' = [cli EXCEPT ![pl] = NextFile(c)]
  BY CommandHas DEF WriteMappings
<1>5. mappings' \in {new, Torn}
  BY DEF WriteMappings
<1> HIDE DEF e, row
<1>6. c \in Command /\ c.next = cli[pl].next /\ c.done = [cli[pl].done EXCEPT ![row.path] = e]
  BY <1>2, <1>3, CommandHas, DoneFacts
<1>7. \A x \in Paths : c.done[x] # None => Backed(files, x, c.done[x])
  BY <1>3, <1>6, CommandHas DEF CommandFits, Command
<1> HIDE DEF c
<1>8. NextFile(c) \in Command /\ CommandFits(files, byHand, NextFile(c))
  <2>1. c \in Command /\ c.next <= Len(Order)
    BY <1>1, <1>6
  <2> QED BY <2>1, <1>7, NextFits
<1>9. new \in Mappings
  BY <1>1, <1>2, <1>3 DEF Mappings
<1>10. MapBacked(files, byHand, new)
  <2>1. ASSUME NEW t \in AnyTag, NEW p \in Paths, new[t][p] # None
        PROVE  Backed(files, p, new[t][p]) /\ Under(files, byHand, t, p, new[t][p].version)
    <3>1. CASE t = row.tag /\ p = row.path
      <4>1. new[t][p] = e
        BY <1>1, <1>3, <3>1 DEF Mappings
      <4> QED BY <1>3, <3>1, <4>1
    <3>2. CASE ~(t = row.tag /\ p = row.path)
      <4>1. new[t][p] = cli[pl].known[t][p]
        BY <1>1, <1>3, <3>2 DEF Mappings
      <4> QED BY <1>1, <2>1, <4>1 DEF MapBacked
    <3> QED BY <3>1, <3>2
  <2> QED BY <2>1 DEF MapBacked
<1>11. UNCHANGED <<disk, rc, server, tables, byHand, spent>>
  BY DEF WriteMappings
<1>12. mappings' = Torn \/ (mappings' \in Mappings /\ MapBacked(files, byHand, mappings'))
  <2> HIDE DEF new
  <2> QED BY <1>5, <1>9, <1>10
<1> HIDE DEF new
<1> QED BY <1>4, <1>8, <1>11, <1>12, CommandHas, SameConfig, CliMoves

LEMMA FinishStep ==
  ASSUME PInv, NEW pl \in Platforms, FinishFiles(pl)
  PROVE  PInv'
<1> DEFINE fs == [p \in Paths |-> InConfig(cli[pl].done[p], rc[pl].files[p])]
           g  == [rc[pl] EXCEPT !.files = fs]
<1>1. rc' = [rc EXCEPT ![pl] = g] /\ cli' = [cli EXCEPT ![pl] = Idle]
  BY CommandHas DEF FinishFiles
<1>2. ASSUME NEW p \in Paths
      PROVE  /\ fs[p] \in [url : {"s3", "cdn"}, sum : Contents] \cup {None}
             /\ fs[p] # None => \E v \in Versions : /\ Ready(files[p][v])
                                                    /\ files[p][v].url = fs[p].url
                                                    /\ files[p][v].sum = fs[p].sum
  <2>1. CASE cli[pl].done[p] = None
    <3>1. fs[p] = rc[pl].files[p]
      BY <2>1 DEF InConfig
    <3>2. rc[pl].files[p] \in [url : {"s3", "cdn"}, sum : Contents] \cup {None}
      BY CommandHas DEF ReleaseConfig
    <3>3. rc[pl].files[p] # None =>
            \E v \in Versions : /\ Ready(files[p][v]) /\ files[p][v].url = rc[pl].files[p].url
                                /\ files[p][v].sum = rc[pl].files[p].sum
      BY CommandHas DEF ConfigFits
    <3> HIDE DEF fs
    <3> QED BY <3>1, <3>2, <3>3
  <2>2. CASE cli[pl].done[p] # None
    <3> DEFINE e == cli[pl].done[p]
    <3>1. e \in Entry /\ Backed(files, p, e)
      BY <2>2, CommandHas DEF CommandFits, Command
    <3>2. fs[p] = [url |-> e.url, sum |-> e.sum]
      BY <2>2 DEF InConfig
    <3> HIDE DEF e
    <3>3. e.version \in Versions /\ Ready(files[p][e.version])
          /\ files[p][e.version].url = e.url /\ files[p][e.version].sum = e.sum
      BY <3>1 DEF Backed, EntryOf
    <3>4. fs[p].url = e.url /\ fs[p].sum = e.sum
          /\ fs[p] \in [url : {"s3", "cdn"}, sum : Contents]
      BY <3>1, <3>2 DEF Entry
    <3> QED BY <3>3, <3>4
  <2> QED BY <2>1, <2>2
<1>3. fs \in [Paths -> [url : {"s3", "cdn"}, sum : Contents] \cup {None}]
  BY <1>2
<1> HIDE DEF fs
<1>4. g \in ReleaseConfig /\ g.version = rc[pl].version /\ g.files = fs
  BY <1>3, CommandHas DEF ReleaseConfig
<1> HIDE DEF g
<1>5. ConfigFits(files, packages, g)
  BY <1>2, <1>4, CommandHas DEF ConfigFits
<1>6. UNCHANGED <<disk, mappings, server, tables, byHand, spent>>
  BY DEF FinishFiles
<1>7. \E x \in ReleaseConfig : rc' = [rc EXCEPT ![pl] = x] /\ ConfigFits(files, packages, x)
  BY <1>1, <1>4, <1>5
<1>8. \E x \in Command : cli' = [cli EXCEPT ![pl] = x] /\ CommandFits(files, byHand, x)
  BY <1>1, IdleFacts, IdleFits
<1> QED BY <1>6, <1>7, <1>8, CommandHas, CliMoves

LEMMA CollectStep ==
  ASSUME PInv, NEW pl \in Platforms, Collect(pl)
  PROVE  PInv'
<1> DEFINE p == Order[cli[pl].next]
           e == Found(cli[pl].tag, p)
           pc == IF cli[pl].next = Len(Order) THEN "send" ELSE "collect"
           c == [cli[pl] EXCEPT !.done[p] = e, !.next = cli[pl].next + 1, !.pc = pc]
<1>1. /\ cli[pl].next \in 1 .. Len(Order) /\ cli[pl].tag \in AnyTag /\ p \in Paths
      /\ \A i \in 1 .. Len(Order) : i < cli[pl].next => cli[pl].done[Order[i]] # None
  BY CommandHas, OrderFacts DEF Collect, CommandFits, Command
<1>2. cli' = [cli EXCEPT ![pl] = IF e = None THEN Idle ELSE c]
  BY CommandHas DEF Collect
<1>3. ASSUME e # None PROVE c \in Command /\ CommandFits(files, byHand, c)
  <2>1. e \in Entry /\ Backed(files, p, e) /\ Under(files, byHand, cli[pl].tag, p, e.version)
    BY <1>1, <1>3, MappedBacked DEF Found
  <2>2. pc \in {"send", "collect"} /\ cli[pl].next + 1 \in 1 .. Len(Order) + 1
    BY <1>1, OrderFacts
  <2>3. Order[cli[pl].next] = p
    OBVIOUS
  <2>4. pc = "send" <=> cli[pl].next = Len(Order)
    OBVIOUS
  <2> HIDE DEF e, p, pc
  <2>5. /\ c \in Command /\ c.done = [cli[pl].done EXCEPT ![p] = e] /\ c.pc = pc
        /\ c.next = cli[pl].next + 1 /\ c.tag = cli[pl].tag
    BY <1>1, <2>1, <2>2, CommandHas DEF Command
  <2> HIDE DEF c
  <2>6. c.done[p] = e /\ \A x \in Paths \ {p} : c.done[x] = cli[pl].done[x]
    BY <1>1, <2>5, CommandHas DEF Command
  <2>7. \A x \in Paths : c.done[x] # None =>
          Backed(files, x, c.done[x]) /\ Under(files, byHand, c.tag, x, c.done[x].version)
    BY <2>1, <2>5, <2>6, CommandHas DEF Collect, CommandFits
  <2>8. \A i \in 1 .. Len(Order) : i < c.next => c.done[Order[i]] # None
    <3> SUFFICES ASSUME NEW i \in 1 .. Len(Order), i < c.next PROVE c.done[Order[i]] # None
      OBVIOUS
    <3>1. Order[i] \in Paths
      BY OrderFacts
    <3>2. CASE Order[i] = p
      BY <1>3, <2>6, <3>2
    <3>3. CASE Order[i] # p
      <4>1. i # cli[pl].next
        BY <2>3, <3>3
      <4>2. i < cli[pl].next
        BY <1>1, <2>5, <4>1, OrderFacts
      <4> QED BY <1>1, <2>6, <3>1, <3>3, <4>2
    <3> QED BY <3>2, <3>3
  <2>9. c.pc = "send" => \A x \in Paths : c.done[x] # None
    <3> SUFFICES ASSUME c.pc = "send", NEW x \in Paths PROVE c.done[x] # None
      OBVIOUS
    <3>1. PICK i \in 1 .. Len(Order) : x = Order[i]
      BY OrderFacts
    <3>2. i < c.next
      BY <2>4, <2>5, OrderFacts
    <3> QED BY <2>8, <3>1, <3>2
  <2>10. c.pc = "collect" => c.next <= Len(Order)
    BY <1>1, <2>4, <2>5, OrderFacts
  <2> QED BY <2>2, <2>5, <2>7, <2>8, <2>9, <2>10 DEF CommandFits
<1>4. \E x \in Command : cli' = [cli EXCEPT ![pl] = x] /\ CommandFits(files, byHand, x)
  <2> HIDE DEF c, e
  <2> QED BY <1>2, <1>3, IdleFacts, IdleFits
<1>5. UNCHANGED <<local, server, tables, byHand, spent>>
  BY DEF Collect
<1> QED BY <1>4, <1>5, CommandHas, SameConfig, CliMoves DEF local

LEMMA SendPackageStep ==
  ASSUME PInv, NEW pl \in Platforms, SendPackage(pl)
  PROVE  PInv'
<1> DEFINE named == [p \in Paths |-> cli[pl].done[p].version]
           meant == [p \in Paths |-> cli[pl].done[p].sum]
           r == [Free EXCEPT !.op = "package", !.st = "lookup", !.client = pl, !.tag = cli[pl].tag,
                             !.files = named, !.meant = meant]
<1>1. ASSUME NEW p \in Paths
      PROVE  /\ cli[pl].done[p] \in Entry /\ Backed(files, p, cli[pl].done[p])
             /\ Under(files, byHand, cli[pl].tag, p, cli[pl].done[p].version)
  BY CommandHas DEF SendPackage, CommandFits, Command
<1>2. named \in [Paths -> Versions] /\ meant \in [Paths -> Contents]
  BY <1>1 DEF Entry
<1>3. PackBacked(files, byHand, cli[pl].tag, named, meant)
  <2>1. ASSUME NEW p \in Paths
        PROVE  /\ named[p] \in Versions /\ Ready(files[p][named[p]])
               /\ files[p][named[p]].sum = meant[p]
               /\ Under(files, byHand, cli[pl].tag, p, named[p])
    <3>1. named[p] = cli[pl].done[p].version /\ meant[p] = cli[pl].done[p].sum
      OBVIOUS
    <3> DEFINE e == cli[pl].done[p]
    <3>2. Backed(files, p, e) /\ Under(files, byHand, cli[pl].tag, p, e.version)
      BY <1>1
    <3> HIDE DEF named, meant, e
    <3>3. e.version \in Versions /\ Ready(files[p][e.version]) /\ files[p][e.version].sum = e.sum
      BY <3>2 DEF Backed, EntryOf
    <3>4. named[p] = e.version /\ meant[p] = e.sum
      BY <3>1 DEF e
    <3> QED BY <3>2, <3>3, <3>4
  <2> QED BY <2>1 DEF PackBacked
<1>4. cli[pl].tag \in AnyTag /\ pl # None
  BY CommandHas, NoneFacts DEF Command
<1>5. Send(pl, r, "number") /\ UNCHANGED <<local, tables, byHand, spent>>
  BY DEF SendPackage
<1> HIDE DEF named, meant
<1>6. /\ r \in Request /\ r.op = "package" /\ r.st = "lookup" /\ r.client = pl /\ r.reply = None
      /\ r.tag = cli[pl].tag /\ r.files = named /\ r.meant = meant
  BY <1>2, <1>4, FreeFacts DEF Request
<1> HIDE DEF r
<1>7. RequestFits(files, byHand, packages, r)
  BY <1>2, <1>3, <1>6 DEF RequestFits
<1> QED BY <1>4, <1>5, <1>6, <1>7, Sent

LEMMA TakePackageStep ==
  ASSUME PInv, NEW pl \in Platforms, TakePackage(pl)
  PROVE  PInv'
<1> DEFINE s == cli[pl].slot
           n == server[s].version
           g == IF n = None THEN rc[pl] ELSE [rc[pl] EXCEPT !.version = n]
<1>1. s \in Slots /\ server[s].st \in {"answer", "lost"}
  BY CommandHas DEF TakePackage, CommandFits
<1>2. n # None => \E pkg \in packages : pkg.by = "package" /\ pkg.version = n
  BY <1>1 DEF PInv, Records, RequestFits
<1>3. n # None => n \in PackageVersions
  BY <1>2 DEF PInv, TypeOK, Package
<1>4. rc' = [rc EXCEPT ![pl] = g] /\ cli' = [cli EXCEPT ![pl] = Idle]
  BY CommandHas DEF TakePackage
<1> HIDE DEF n
<1>5. g \in ReleaseConfig /\ g.files = rc[pl].files /\ g.version = IF n = None THEN rc[pl].version ELSE n
  BY <1>3, CommandHas DEF ReleaseConfig
<1> HIDE DEF g
<1>6. ConfigFits(files, packages, g)
  BY <1>2, <1>5, CommandHas DEF ConfigFits
<1>7. /\ server' \in [Slots -> Request]
      /\ \A z \in Slots : server'[z] = server[z] \/ GoesOn(z, server'[z])
  BY <1>1, SlotFreed DEF TakePackage
<1>8. UNCHANGED <<disk, mappings, tables, byHand, spent>>
  BY DEF TakePackage
<1>9. \E x \in ReleaseConfig : rc' = [rc EXCEPT ![pl] = x] /\ ConfigFits(files, packages, x)
  BY <1>4, <1>5, <1>6
<1>10. \E x \in Command : cli' = [cli EXCEPT ![pl] = x] /\ CommandFits(files, byHand, x)
  BY <1>4, IdleFacts, IdleFits
<1> QED BY <1>7, <1>8, <1>9, <1>10, CommandHas, CliMoves

LEMMA FaultSpends ==
  ASSUME PInv, Fault
  PROVE  spent' \in Spends /\ spent'.faults # 0
<1>1. spent \in Spends
  BY DEF PInv, TypeOK, Spends
<1>2. spent.faults + 1 \in 0 .. MaxMishaps /\ spent.faults + 1 # 0
  BY <1>1, BoundAssumption DEF Fault, Spends
<1> QED BY <1>1, <1>2 DEF Fault, Spends

(* A request whose client goes away goes on, if it was running.            *)
LEMMA UnheardGoesOn ==
  ASSUME PInv, NEW s \in Slots, spent'.faults # 0
  PROVE  GoesOn(s, Unheard(s))
<1>1. CASE ~Running(s)
  BY <1>1, FreeFacts, FreeFits DEF GoesOn, Unheard, Running, Streams
<1>2. CASE Running(s)
  <2> DEFINE r == [server[s] EXCEPT !.client = None]
  <2>1. Unheard(s) = r
    BY <1>2 DEF Unheard
  <2>2. /\ r \in Request /\ r.st = server[s].st /\ r.op = server[s].op /\ r.sum = server[s].sum
        /\ r.version = server[s].version /\ r.files = server[s].files /\ r.meant = server[s].meant
        /\ r.tag = server[s].tag /\ r.path = server[s].path /\ r.reply = server[s].reply
        /\ r.client = None
    BY DEF PInv, TypeOK, Request
  <2>3. RequestFits(files, byHand, packages, server[s])
    BY DEF PInv, Records
  <2> HIDE DEF r
  <2>4. RequestFits(files, byHand, packages, r)
    BY <2>2, <2>3 DEF RequestFits
  <2> QED BY <2>1, <2>2, <2>4 DEF GoesOn, Streams
<1> QED BY <1>1, <1>2

LEMMA CliCrashStep ==
  ASSUME PInv, NEW pl \in Platforms, CliCrash(pl)
  PROVE  PInv'
<1>1. spent' \in Spends /\ spent'.faults # 0
  BY FaultSpends DEF CliCrash
<1>2. \A z \in Slots : GoesOn(z, Unheard(z))
  BY <1>1, UnheardGoesOn
<1>3. server' = [z \in Slots |-> IF z = cli[pl].slot THEN Unheard(z) ELSE server[z]]
  BY DEF CliCrash
<1>4. \A z \in Slots : Unheard(z) \in Request /\ server[z] \in Request
  BY <1>2 DEF GoesOn, PInv, TypeOK
<1>5. /\ server' \in [Slots -> Request]
      /\ \A z \in Slots : server'[z] = server[z] \/ GoesOn(z, server'[z])
  BY <1>2, <1>3, <1>4
<1>6. \E c \in Command : cli' = [cli EXCEPT ![pl] = c] /\ CommandFits(files, byHand, c)
  BY IdleFacts, IdleFits DEF CliCrash
<1>7. UNCHANGED <<local, tables, byHand>>
  BY DEF CliCrash
<1> QED BY <1>1, <1>5, <1>6, <1>7, CommandHas, SameConfig, CliMoves DEF local

LEMMA LoseAnswerStep ==
  ASSUME PInv, NEW pl \in Platforms, LoseAnswer(pl)
  PROVE  PInv'
<1> DEFINE s == cli[pl].slot
<1>1. spent' \in Spends /\ spent'.faults # 0
  BY FaultSpends DEF LoseAnswer
<1>2. s \in Slots /\ (cli[pl].pc = "wait" => cli[pl].next <= Len(Order))
  BY CommandHas DEF LoseAnswer, CommandFits
<1>3. GoesOn(s, Unheard(s)) /\ server' = [server EXCEPT ![s] = Unheard(s)]
  BY <1>1, <1>2, UnheardGoesOn DEF LoseAnswer
<1>4. /\ server' \in [Slots -> Request]
      /\ \A z \in Slots : server'[z] = server[z] \/ GoesOn(z, server'[z])
  <2> HIDE DEF s
  <2> QED BY <1>2, <1>3 DEF GoesOn, PInv, TypeOK
<1>5. cli' = [cli EXCEPT ![pl] = IF cli[pl].pc = "wait" THEN NextFile(cli[pl]) ELSE Idle]
  BY CommandHas DEF LoseAnswer
<1>6. cli[pl].pc = "wait" =>
        NextFile(cli[pl]) \in Command /\ CommandFits(files, byHand, NextFile(cli[pl]))
  BY <1>2, CommandHas, NextFits DEF CommandFits
<1>7. \E c \in Command : cli' = [cli EXCEPT ![pl] = c] /\ CommandFits(files, byHand, c)
  BY <1>5, <1>6, IdleFacts, IdleFits
<1>8. UNCHANGED <<local, tables, byHand>>
  BY DEF LoseAnswer
<1> QED BY <1>1, <1>4, <1>7, <1>8, CommandHas, SameConfig, CliMoves DEF local

----------------------------------------------------------------------------
(* The handlers leave the local files and the commands alone.              *)

Hands == [packaged : SUBSET (Paths \X Versions), tagged : SUBSET (Paths \X Versions)]
Table(values) == [Paths -> [Versions -> values \cup {None}]]

LEMMA TablesMove ==
  ASSUME PInv, UNCHANGED <<local, cli>>,
         Grows(files, byHand, files', byHand'), packages \subseteq packages',
         files' \in Table(Row), cache' \in Table(Served), packages' \subseteq Package,
         byHand' \in Hands, spent' \in Spends, server' \in [Slots -> Request],
         \A s \in Slots : RequestFits(files', byHand', packages', server'[s]),
         \A pkg \in packages' \ packages : PackageFits(files', byHand', pkg),
         CacheFits(files', byHand', cache'),
         RowsPlaced', StreamsOwn', ClientsWait', OrphanNeedsFault'
  PROVE  PInv'
<1>1. disk' = disk /\ rc' = rc /\ mappings' = mappings /\ cli' = cli
  BY DEF local
<1>2. TypeOK'
  BY <1>1 DEF PInv, TypeOK, Spends, Hands, Table
<1>3. \A pl \in Platforms : CommandFits(files', byHand', cli[pl]) /\ ConfigFits(files', packages', rc[pl])
  BY CommandGrows, ConfigGrows DEF PInv, Records
<1>4. \A pkg \in packages : PackageFits(files', byHand', pkg)
  <2> SUFFICES ASSUME NEW pkg \in packages PROVE PackageFits(files', byHand', pkg)
    OBVIOUS
  <2>1. PackageFits(files, byHand, pkg)
    BY DEF PInv, Records
  <2> QED BY <2>1, PackGrows DEF PackageFits
<1>5. mappings # Torn => MapBacked(files', byHand', mappings)
  BY MapGrows DEF PInv, Records
<1>6. Records'
  BY <1>1, <1>3, <1>4, <1>5 DEF Records
<1> QED BY <1>2, <1>6 DEF PInv

(* A step of a handler that changes neither rows nor packages.             *)
LEMMA HandlerMoves ==
  ASSUME PInv, UNCHANGED <<local, cli, files, packages, byHand>>,
         cache' \in Table(Served), CacheFits(files, byHand, cache'),
         spent' \in Spends, spent'.faults = 0 => spent.faults = 0,
         server' \in [Slots -> Request],
         \A s \in Slots : server'[s] = server[s] \/ GoesOn(s, server'[s])
  PROVE  PInv'
<1>1. /\ \A s \in Slots : RequestFits(files', byHand', packages', server'[s])
      /\ StreamsOwn' /\ ClientsWait' /\ OrphanNeedsFault'
  BY ServerMoves
<1>2. Grows(files, byHand, files', byHand')
  BY GrowsAtAll
<1>3. RowsPlaced'
  BY DEF PInv, RowsPlaced, Pending
<1>4. /\ files' \in Table(Row) /\ packages' \subseteq Package /\ byHand' \in Hands
      /\ packages \subseteq packages' /\ packages' \ packages = {}
  BY DEF PInv, TypeOK, Table, Hands
<1> QED BY <1>1, <1>2, <1>3, <1>4, TablesMove

LEMMA HandlerHas ==
  ASSUME PInv, NEW s \in Slots
  PROVE  /\ server \in [Slots -> Request] /\ server[s] \in Request
         /\ RequestFits(files, byHand, packages, server[s])
         /\ cache \in Table(Served) /\ CacheFits(files, byHand, cache) /\ spent \in Spends
         /\ files \in Table(Row)
BY DEF PInv, TypeOK, Records, Table, Spends

(* A request that is not streaming answers.                                *)
LEMMA AnswerGoesOn ==
  ASSUME PInv, NEW s \in Slots, ~Streams(s), NEW a \in Request, Answer(s, a),
         a.version = None, a.reply # None => RowBacked(files, byHand, a.reply)
  PROVE  /\ server' \in [Slots -> Request]
         /\ \A z \in Slots : server'[z] = server[z] \/ GoesOn(z, server'[z])
<1>1. PICK r \in Request :
        /\ server' = [server EXCEPT ![s] = r]
        /\ \/ r = Free
           \/ /\ r.st = "answer" /\ r.op = a.op /\ r.reply = a.reply /\ r.version = a.version
              /\ r.client = server[s].client /\ server[s].client # None
  BY AnswerFacts DEF PInv
<1>2. RequestFits(files, byHand, packages, r)
  <2>1. CASE r = Free
    BY <2>1, FreeFits
  <2>2. CASE r.st = "answer" /\ r.reply = a.reply /\ r.version = None
    BY <2>2 DEF RequestFits
  <2> QED BY <1>1, <2>1, <2>2
<1>3. r.st \in {"free", "answer"}
  BY <1>1, FreeFacts
<1>4. GoesOn(s, r)
  BY <1>2, <1>3 DEF GoesOn
<1> QED BY <1>1, <1>4, HandlerHas

(* Every request fails with nothing to say.                                *)
LEMMA FailGoesOn ==
  ASSUME PInv, NEW s \in Slots, ~Streams(s), Fail(s)
  PROVE  /\ server' \in [Slots -> Request]
         /\ \A z \in Slots : server'[z] = server[z] \/ GoesOn(z, server'[z])
BY FreeFacts, AnswerGoesOn DEF Fail

(* A row that is ready is backed by itself.                                *)
LEMMA ReadyBacks ==
  ASSUME PInv, NEW p \in Paths, NEW v \in Versions, Ready(files[p][v])
  PROVE  /\ files[p][v].path = p /\ files[p][v].version = v /\ files[p][v] \in Row
         /\ RowBacked(files, byHand, files[p][v]) /\ files[p][v].sum \in Contents
<1>1. files[p][v] \in Row /\ files[p][v].path = p /\ files[p][v].version = v
  <2>1. files[p][v] # None /\ files[p][v] \in Row \cup {None}
    BY DEF PInv, TypeOK, Ready
  <2> QED BY <2>1 DEF PInv, RowsPlaced
<1> DEFINE row == files[p][v]
<1>2. EntryOf(row).version = v
  BY <1>1 DEF EntryOf
<1>3. row.sum \in Contents
  BY <1>1 DEF Row, Ready, Pending
<1> QED BY <1>1, <1>2, <1>3 DEF RowBacked, Backed, Under

LEMMA CheckGoesOn ==
  ASSUME PInv, NEW s \in Slots, server[s].st = "check", NEW c \in Contents, CheckFor(s, c),
         spent' = spent
  PROVE  /\ server' \in [Slots -> Request]
         /\ \A z \in Slots : server'[z] = server[z] \/ GoesOn(z, server'[z])
<1> DEFINE q == [server[s] EXCEPT !.sum = c]
           r == [q EXCEPT !.st = "latest"]
<1>1. /\ q \in Request /\ q.sum = c /\ q.path = server[s].path /\ q.tag = server[s].tag
      /\ q.op = server[s].op /\ q.path \in Paths
  BY HandlerHas DEF Request
<1>2. ~Streams(s)
  BY DEF Streams
<1>3. CASE server' = [server EXCEPT ![s] = r]
  <2>1. /\ r \in Request /\ r.st = "latest" /\ r.sum = c /\ r.op = server[s].op
        /\ r.client = server[s].client /\ r.reply = server[s].reply
    <3>1. server[s] \in Request
      BY HandlerHas
    <3>2. q \in Request /\ q.sum = c /\ q.op = server[s].op /\ q.client = server[s].client
          /\ q.reply = server[s].reply
      BY <3>1 DEF Request
    <3> HIDE DEF q
    <3> QED BY <3>2 DEF Request
  <2> HIDE DEF r
  <2>2. RequestFits(files, byHand, packages, r)
    BY <2>1, HandlerHas DEF RequestFits
  <2>3. spent'.faults = 0 => r.client # None
    BY <2>1 DEF PInv, ClientsWait
  <2>4. GoesOn(s, r)
    BY <1>2, <2>1, <2>2, <2>3 DEF GoesOn
  <2> QED BY <1>3, <2>4, HandlerHas, <2>1
<1>4. CASE Fail(s)
  BY <1>2, <1>4, FailGoesOn
<1>5. ASSUME NEW row \in RowsOf(q.path), row.sum = c, Reply(s, row)
      PROVE  /\ server' \in [Slots -> Request]
             /\ \A z \in Slots : server'[z] = server[z] \/ GoesOn(z, server'[z])
  <2>1. PICK v \in Versions : row = files[q.path][v] /\ row # None
    BY <1>5 DEF RowsOf
  <2>2. Ready(row)
    BY <1>5, <2>1, NoneFacts DEF Ready, Pending
  <2>3. RowBacked(files, byHand, row) /\ row \in Row
    BY <1>1, <2>1, <2>2, ReadyBacks
  <2> DEFINE a == [Free EXCEPT !.reply = row]
  <2>4. a \in Request /\ a.version = None /\ a.reply = row
    BY <2>3, FreeFacts DEF Request
  <2>5. Answer(s, a)
    BY <1>5 DEF Reply
  <2> HIDE DEF a
  <2> QED BY <1>2, <2>3, <2>4, <2>5, AnswerGoesOn
<1>6. \/ server' = [server EXCEPT ![s] = r]
      \/ Fail(s)
      \/ \E row \in RowsOf(q.path) : row.sum = c /\ Reply(s, row)
  <2>1. q.sum = c
    BY <1>1
  <2> QED BY <2>1 DEF CheckFor, Goto
<1> QED BY <1>3, <1>4, <1>5, <1>6

LEMMA CheckStep ==
  ASSUME PInv, NEW s \in Slots, CheckUpload(s) \/ CheckCreate(s)
  PROVE  PInv'
<1>1. /\ server' \in [Slots -> Request]
      /\ \A z \in Slots : server'[z] = server[z] \/ GoesOn(z, server'[z])
  <2>1. CASE CheckUpload(s)
    <3>1. server[s].sum \in Contents
      BY <2>1, HandlerHas DEF CheckUpload, RequestFits
    <3> QED BY <2>1, <3>1, CheckGoesOn DEF CheckUpload
  <2>2. CASE CheckCreate(s)
    <3>1. ~Streams(s)
      BY <2>2 DEF CheckCreate, Streams
    <3> QED BY <2>2, <3>1, CheckGoesOn, FailGoesOn DEF CheckCreate
  <2> QED BY <2>1, <2>2
<1>2. UNCHANGED <<local, cli, tables, byHand, spent>>
  BY DEF CheckUpload, CheckCreate
<1> QED BY <1>1, <1>2, HandlerHas, HandlerMoves DEF tables

(* A request of a file goes on with a version.                             *)
LEMMA ReadLatestStep ==
  ASSUME PInv, NEW s \in Slots, ReadLatest(s)
  PROVE  PInv'
<1> DEFINE next == Latest(server[s].path) + 1
           r == [server[s] EXCEPT !.st = "insert", !.version = next]
<1>1. next \in Versions /\ server[s].st = "latest" /\ server' = [server EXCEPT ![s] = r]
      /\ UNCHANGED <<local, cli, tables, byHand, spent>>
  BY DEF ReadLatest, Goto
<1> HIDE DEF next
<1>2. /\ r \in Request /\ r.st = "insert" /\ r.version = next /\ r.op = server[s].op
      /\ r.sum = server[s].sum /\ r.client = server[s].client /\ r.reply = server[s].reply
  <2>1. server[s] \in Request
    BY HandlerHas
  <2>2. next \in Versions \cup PackageVersions \cup {None}
    BY <1>1
  <2> QED BY <2>1, <2>2 DEF Request
<1> HIDE DEF r
<1>3. RequestFits(files, byHand, packages, r)
  BY <1>1, <1>2, HandlerHas DEF RequestFits
<1>4. GoesOn(s, r)
  BY <1>1, <1>2, <1>3 DEF GoesOn, Streams, PInv, ClientsWait
<1> QED BY <1>1, <1>2, <1>4, HandlerHas, HandlerMoves DEF tables

LEMMA NumberStep ==
  ASSUME PInv, NEW s \in Slots, Number(s)
  PROVE  PInv'
<1> DEFINE next == LatestPackage + 1
           r == [server[s] EXCEPT !.st = "save", !.version = next]
<1>1. next \in PackageVersions /\ server[s].st = "number" /\ server' = [server EXCEPT ![s] = r]
      /\ UNCHANGED <<local, cli, tables, byHand, spent>>
  BY DEF Number, Goto
<1> HIDE DEF next
<1>2. /\ r \in Request /\ r.st = "save" /\ r.version = next /\ r.op = server[s].op
      /\ r.files = server[s].files /\ r.meant = server[s].meant /\ r.tag = server[s].tag
      /\ r.client = server[s].client /\ r.reply = server[s].reply
  <2>1. server[s] \in Request
    BY HandlerHas
  <2> QED BY <1>1, <2>1 DEF Request
<1> HIDE DEF r
<1>3. RequestFits(files, byHand, packages, r)
  BY <1>1, <1>2, HandlerHas DEF RequestFits
<1>4. GoesOn(s, r)
  BY <1>1, <1>2, <1>3 DEF GoesOn, Streams
<1> QED BY <1>1, <1>2, <1>4, HandlerHas, HandlerMoves DEF tables

(* The cache is filled with what is served of the rows: pending ones only  *)
(* of a package made by hand.                                              *)
LEMMA FilledFits ==
  ASSUME PInv, NEW want,
         \A p \in Paths, v \in Versions :
            <<p, v>> \in want => Ready(files[p][v]) \/ <<p, v>> \in byHand.packaged
  PROVE  Filled(want) \in Table(Served) /\ CacheFits(files, byHand, Filled(want))
<1>1. ASSUME NEW p \in Paths, NEW v \in Versions
      PROVE  Resolved(p, v) \in Served \cup {None}
  <2>1. cache[p][v] \in Served \cup {None} /\ files[p][v] \in Row \cup {None}
    BY DEF PInv, TypeOK
  <2>2. files[p][v] \in Row => ServedOf(files[p][v]) \in Served
    BY DEF ServedOf, Served, Row
  <2> QED BY <2>1, <2>2 DEF Resolved
<1>2. Filled(want) \in Table(Served)
  BY <1>1 DEF Filled, Table, PInv, TypeOK
<1>3. ASSUME NEW p \in Paths, NEW v \in Versions, Filled(want)[p][v] # None
      PROVE  (Ready(files[p][v]) /\ Filled(want)[p][v] = ServedOf(files[p][v]))
             \/ <<p, v>> \in byHand.packaged
  <2>1. Filled(want)[p][v] = IF <<p, v>> \in want THEN Resolved(p, v) ELSE cache[p][v]
    BY DEF Filled
  <2>2. cache[p][v] # None => (Ready(files[p][v]) /\ cache[p][v] = ServedOf(files[p][v]))
                              \/ <<p, v>> \in byHand.packaged
    BY DEF PInv, Records, CacheFits
  <2> QED BY <1>3, <2>1, <2>2 DEF Resolved
<1> QED BY <1>2, <1>3 DEF CacheFits

LEMMA LookUpStep ==
  ASSUME PInv, NEW s \in Slots, LookUp(s)
  PROVE  PInv'
<1> DEFINE want == {<<p, server[s].files[p]>> : p \in Paths \ {Index}}
           r == [server[s] EXCEPT !.st = "number"]
<1>1. /\ server[s].st = "lookup" /\ cache' = Filled(want)
      /\ UNCHANGED <<local, cli, files, packages, byHand, spent>>
      /\ server' = [server EXCEPT ![s] = r] \/ Fail(s)
  BY DEF LookUp, Goto
<1>2. ~Streams(s)
  BY <1>1 DEF Streams
<1>3. \A p \in Paths, v \in Versions :
         <<p, v>> \in want => Ready(files[p][v]) \/ <<p, v>> \in byHand.packaged
  BY <1>1, HandlerHas DEF RequestFits, PackBacked, PackByHand
<1> HIDE DEF want
<1>4. cache' \in Table(Served) /\ CacheFits(files, byHand, cache')
  BY <1>1, <1>3, FilledFits
<1>5. /\ r \in Request /\ r.st = "number" /\ r.op = server[s].op
      /\ r.files = server[s].files /\ r.meant = server[s].meant /\ r.tag = server[s].tag
      /\ r.client = server[s].client /\ r.reply = server[s].reply
  BY HandlerHas DEF Request
<1> HIDE DEF r
<1>6. RequestFits(files, byHand, packages, r)
  BY <1>1, <1>5, HandlerHas DEF RequestFits
<1>7. GoesOn(s, r)
  BY <1>2, <1>5, <1>6 DEF GoesOn
<1>8. /\ server' \in [Slots -> Request]
      /\ \A z \in Slots : server'[z] = server[z] \/ GoesOn(z, server'[z])
  <2>1. CASE server' = [server EXCEPT ![s] = r]
    BY <1>5, <1>7, <2>1, HandlerHas
  <2> QED BY <1>1, <1>2, <2>1, FailGoesOn
<1> QED BY <1>1, <1>4, <1>8, HandlerHas, HandlerMoves

LEMMA CacheStep ==
  ASSUME PInv, Serve \/ Expire
  PROVE  PInv'
<1>1. UNCHANGED <<local, cli, server, files, packages, byHand, spent>>
  BY DEF Serve, Expire
<1>2. server \in [Slots -> Request] /\ spent \in Spends
  BY DEF PInv, TypeOK, Spends
<1>3. CASE Serve
  <2>1. PICK pkg \in packages : cache' = Filled({<<p, pkg.files[p]>> : p \in Paths})
    BY <1>3 DEF Serve
  <2>2. PackageFits(files, byHand, pkg)
    BY DEF PInv, Records
  <2>3. \A p \in Paths, v \in Versions : <<p, v>> \in {<<x, pkg.files[x]>> : x \in Paths} =>
           Ready(files[p][v]) \/ <<p, v>> \in byHand.packaged
    BY <2>2 DEF PackageFits, PackBacked, PackByHand
  <2>4. cache' \in Table(Served) /\ CacheFits(files, byHand, cache')
    BY <2>1, <2>3, FilledFits
  <2> QED BY <1>1, <1>2, <2>4, HandlerMoves
<1>4. CASE Expire
  <2>1. PICK p \in Paths, v \in Versions : cache' = [cache EXCEPT ![p][v] = None]
    BY <1>4 DEF Expire
  <2>2. cache \in Table(Served) /\ CacheFits(files, byHand, cache)
    BY DEF PInv, TypeOK, Records, Table
  <2>3. cache' \in Table(Served)
    BY <2>1, <2>2 DEF Table
  <2>4. CacheFits(files, byHand, cache')
    BY <2>1, <2>2 DEF CacheFits, Table
  <2> QED BY <1>1, <1>2, <2>3, <2>4, HandlerMoves
<1> QED BY <1>3, <1>4

LEMMA DropStep ==
  ASSUME PInv, NEW s \in Slots, Drop(s)
  PROVE  PInv'
<1>1. /\ server' = [server EXCEPT ![s] = Free] /\ server[s].client = None
      /\ UNCHANGED <<local, cli, tables, byHand, spent>>
  BY DEF Drop, Goto
<1>2. GoesOn(s, Free)
  BY <1>1, FreeFacts, FreeFits DEF GoesOn, Streams, PInv, ClientsWait
<1> QED BY <1>1, <1>2, FreeFacts, HandlerHas, HandlerMoves DEF tables

(* A handler whose statement failed answers with an error. Its row may     *)
(* stay pending: this is a fault.                                          *)
LEMMA StatementFailsStep ==
  ASSUME PInv, NEW s \in Slots, StatementFails(s)
  PROVE  PInv'
<1>1. spent' \in Spends /\ spent'.faults # 0
  BY FaultSpends DEF StatementFails
<1>2. PICK r \in Request :
        /\ server' = [server EXCEPT ![s] = r]
        /\ \/ r = Free
           \/ /\ r.st = "answer" /\ r.op = Free.op /\ r.reply = Free.reply /\ r.version = Free.version
              /\ r.client = server[s].client /\ server[s].client # None
  BY FreeFacts, AnswerFacts DEF PInv, StatementFails, Fail
<1>3. RequestFits(files, byHand, packages, r) /\ r.st \in {"free", "answer"}
  BY <1>2, FreeFacts, FreeFits DEF RequestFits
<1>4. GoesOn(s, r)
  BY <1>1, <1>3 DEF GoesOn
<1>5. UNCHANGED <<local, cli, tables, byHand>>
  BY DEF StatementFails
<1> QED BY <1>1, <1>2, <1>4, <1>5, HandlerHas, HandlerMoves DEF tables

LEMMA ServerCrashStep ==
  ASSUME PInv, ServerCrash
  PROVE  PInv'
<1>1. spent' \in Spends /\ spent'.faults # 0
  BY FaultSpends DEF ServerCrash
<1>2. ASSUME NEW s \in Slots
      PROVE  GoesOn(s, server'[s])
  <2> DEFINE r == [Free EXCEPT !.st = "lost", !.client = server[s].client]
  <2>1. server'[s] = IF server[s].client \in Platforms THEN r ELSE Free
    BY DEF ServerCrash
  <2>2. server[s].client \in Platforms =>
          r \in Request /\ r.st = "lost" /\ r.reply = None /\ r.version = None
    BY FreeFacts DEF Request
  <2>3. server[s].client \in Platforms => GoesOn(s, r)
    <3> HIDE DEF r
    <3> QED BY <1>1, <2>2 DEF GoesOn, RequestFits
  <2> QED BY <1>1, <2>1, <2>3, FreeFacts, FreeFits DEF GoesOn
<1>3. server' \in [Slots -> Request]
  BY <1>2 DEF ServerCrash, GoesOn
<1>4. UNCHANGED <<local, cli, files, cache, packages, byHand>>
  BY DEF ServerCrash, tables
<1>5. cache \in Table(Served) /\ CacheFits(files, byHand, cache)
  BY DEF PInv, TypeOK, Records, Table
<1> QED BY <1>1, <1>2, <1>3, <1>4, <1>5, HandlerMoves

(* One row that was not ready changes, and the request it is of goes on.   *)
RowTurns(s, r, p, v, row) ==
    /\ server' = [server EXCEPT ![s] = r] /\ RequestFits(files', byHand, packages, r)
    /\ files' \in Table(Row) /\ ~Ready(files[p][v]) /\ files'[p][v] = row
    /\ \A x \in Paths, w \in Versions : (x = p /\ w = v) \/ files'[x][w] = files[x][w]
    /\ row # None => /\ row.path = p /\ row.version = v
                     /\ Pending(row) => r.st = "stream"
                     /\ ~Pending(row) => row.url # ""
    /\ Streams(s) => server[s].path = p /\ server[s].version = v
    /\ \A z \in Slots \ {s} : Streams(z) => server[z].path # p \/ server[z].version # v
    /\ r.st = "stream" => r.path = p /\ r.version = v /\ row # None /\ Pending(row)
    /\ r.st \in {"check", "latest", "insert", "stream"} => spent.faults # 0 \/ r.client # None
LEMMA RowMoves ==
  ASSUME PInv, UNCHANGED <<local, cli, cache, packages, byHand, spent>>,
         NEW s \in Slots, NEW r \in Request, NEW p \in Paths, NEW v \in Versions,
         NEW row \in Row \cup {None}, RowTurns(s, r, p, v, row)
  PROVE  PInv'
<1>1. Grows(files, byHand, files', byHand')
  BY DEF Grows, RowTurns
<1>2. /\ server \in [Slots -> Request] /\ server' \in [Slots -> Request]
      /\ server'[s] = r /\ \A z \in Slots \ {s} : server'[z] = server[z]
  BY HandlerHas DEF RowTurns
<1>3. \A z \in Slots : RequestFits(files', byHand', packages', server'[z])
  <2> SUFFICES ASSUME NEW z \in Slots PROVE RequestFits(files', byHand', packages', server'[z])
    OBVIOUS
  <2>1. CASE z = s
    BY <1>2, <2>1 DEF RowTurns
  <2>2. CASE z # s
    <3>1. RequestFits(files, byHand, packages, server[z]) /\ packages \subseteq packages'
      BY HandlerHas
    <3> QED BY <1>1, <1>2, <2>2, <3>1, RequestGrows
  <2> QED BY <2>1, <2>2
<1>4. /\ cache' \in Table(Served) /\ packages' \subseteq Package /\ byHand' \in Hands /\ spent' \in Spends
      /\ packages \subseteq packages' /\ packages' \ packages = {}
  BY DEF PInv, TypeOK, Table, Hands, Spends
<1>5. CacheFits(files', byHand', cache')
  <2>1. CacheFits(files, byHand, cache)
    BY DEF PInv, Records
  <2> QED BY <1>1, <2>1, CacheGrows
<1>6. RowsPlaced'
  <2>1. ASSUME NEW x \in Paths, NEW w \in Versions, files'[x][w] # None
        PROVE  /\ files'[x][w].path = x /\ files'[x][w].version = w
               /\ ~Pending(files'[x][w]) => files'[x][w].url # ""
    <3>1. CASE x = p /\ w = v
      BY <2>1, <3>1 DEF RowTurns
    <3>2. CASE ~(x = p /\ w = v)
      <4>1. files'[x][w] = files[x][w]
        BY <3>2 DEF RowTurns
      <4>2. RowsPlaced
        BY DEF PInv
      <4>3. files[x][w] # None
        BY <2>1, <4>1
      <4>4. files[x][w].path = x /\ files[x][w].version = w
        BY <4>2, <4>3 DEF RowsPlaced
      <4>5. ~(files[x][w].sum = None) => files[x][w].url # ""
        BY <4>2, <4>3 DEF RowsPlaced, Pending
      <4> QED BY <4>1, <4>4, <4>5 DEF Pending
    <3> QED BY <3>1, <3>2
  <2> QED BY <2>1 DEF RowsPlaced, Pending
<1>7. StreamsOwn'
  <2>1. ASSUME NEW z \in Slots, server'[z].st = "stream"
        PROVE  /\ files'[server'[z].path][server'[z].version] # None
               /\ Pending(files'[server'[z].path][server'[z].version])
    <3>1. CASE z = s
      BY <1>2, <2>1, <3>1 DEF RowTurns
    <3>2. CASE z # s
      <4>1. Streams(z) /\ server'[z] = server[z] /\ (server[z].path # p \/ server[z].version # v)
        BY <1>2, <2>1, <3>2 DEF Streams, RowTurns
      <4>2. server[z].path \in Paths /\ server[z].version \in Versions
        BY <4>1, HandlerHas DEF Request, RequestFits, Streams
      <4>3. files'[server[z].path][server[z].version] = files[server[z].path][server[z].version]
        BY <4>1, <4>2 DEF RowTurns
      <4> QED BY <4>1, <4>3 DEF PInv, StreamsOwn
    <3> QED BY <3>1, <3>2
  <2>2. ASSUME NEW y \in Slots, NEW z \in Slots, y # z,
               server'[y].st = "stream", server'[z].st = "stream"
        PROVE  server'[y].path # server'[z].path \/ server'[y].version # server'[z].version
    <3>1. ASSUME NEW x \in Slots, x # s, server'[x].st = "stream"
          PROVE  Streams(x) /\ server'[x] = server[x]
      BY <1>2, <3>1 DEF Streams
    <3>2. CASE y # s /\ z # s
      <4>1. Streams(y) /\ Streams(z) /\ server'[y] = server[y] /\ server'[z] = server[z]
        BY <2>2, <3>1, <3>2
      <4>2. StreamsOwn
        BY DEF PInv
      <4> QED BY <2>2, <4>1, <4>2 DEF StreamsOwn
    <3>3. CASE y = s \/ z = s
      BY <1>2, <2>2, <3>1, <3>3 DEF RowTurns, Streams
    <3> QED BY <3>2, <3>3
  <2> QED BY <2>1, <2>2 DEF StreamsOwn, Streams, Pending
<1>8. ClientsWait'
  BY <1>2 DEF PInv, ClientsWait, RowTurns
<1>9. OrphanNeedsFault'
  <2> SUFFICES ASSUME spent.faults = 0, NEW x \in Paths, NEW w \in Versions,
                      files'[x][w] # None, Pending(files'[x][w])
               PROVE  \E z \in Slots : /\ server'[z].st = "stream"
                                       /\ server'[z].path = x /\ server'[z].version = w
    BY DEF OrphanNeedsFault, Owned, Pending
  <2>1. CASE x = p /\ w = v
    BY <1>2, <2>1 DEF RowTurns
  <2>2. CASE ~(x = p /\ w = v)
    <3>1. PICK z \in Slots : Streams(z) /\ server[z].path = x /\ server[z].version = w
      <4>1. files'[x][w] = files[x][w]
        BY <2>2 DEF RowTurns
      <4>2. files[x][w] # None /\ Pending(files[x][w])
        BY <4>1 DEF Pending
      <4>3. OrphanNeedsFault
        BY DEF PInv
      <4>4. Owned(x, w)
        BY <4>2, <4>3 DEF OrphanNeedsFault
      <4> QED BY <4>4 DEF Owned, Streams
    <3>2. z # s
      BY <2>2, <3>1 DEF RowTurns
    <3> QED BY <1>2, <3>1, <3>2 DEF Streams
  <2> QED BY <2>1, <2>2
<1> QED BY <1>1, <1>2, <1>3, <1>4, <1>5, <1>6, <1>7, <1>8, <1>9, TablesMove DEF RowTurns

(* The answer with a row, if there is anybody to take it.                  *)
LEMMA RowAnswered ==
  ASSUME PInv, NEW s \in Slots, NEW row \in Row, Reply(s, row),
         NEW f, RowBacked(f, byHand, row)
  PROVE  \E r \in Request :
           /\ server' = [server EXCEPT ![s] = r] /\ r.st \in {"free", "answer"}
           /\ RequestFits(f, byHand, packages, r)
<1> DEFINE a == [Free EXCEPT !.reply = row]
<1>1. a \in Request /\ a.reply = row /\ a.version = None
  BY FreeFacts DEF Request
<1>2. Answer(s, a)
  BY DEF Reply
<1> HIDE DEF a
<1>3. PICK r \in Request :
        /\ server' = [server EXCEPT ![s] = r]
        /\ \/ r = Free
           \/ r.st = "answer" /\ r.reply = row /\ r.version = None
  BY <1>1, <1>2, AnswerFacts DEF PInv
<1>4. r.st \in {"free", "answer"}
  BY <1>3, FreeFacts
<1>5. RequestFits(f, byHand, packages, r)
  <2>1. CASE r = Free
    BY <2>1, FreeFits
  <2>2. CASE r.st = "answer" /\ r.reply = row /\ r.version = None
    BY <2>2 DEF RequestFits
  <2> QED BY <1>3, <2>1, <2>2
<1> QED BY <1>3, <1>4, <1>5

LEMMA InsertStep ==
  ASSUME PInv, NEW s \in Slots, Insert(s)
  PROVE  PInv'
<1> DEFINE p == server[s].path
           v == server[s].version
           blank == [path |-> p, version |-> v, tag |-> server[s].tag, url |-> "", sum |-> None]
           ready == [blank EXCEPT !.url = "cdn", !.sum = server[s].sum]
           r == [server[s] EXCEPT !.st = "stream"]
<1>1. /\ server[s].st = "insert" /\ ~Streams(s) /\ p \in Paths /\ v \in Versions
      /\ server[s].tag \in AnyTag /\ server[s].sum \in Contents /\ server[s].op \in {"upload", "create"}
      /\ UNCHANGED <<local, cli, cache, packages, byHand, spent>>
  BY HandlerHas DEF Insert, RequestFits, Request, Streams
<1>2. CASE Fail(s) /\ UNCHANGED files
  BY <1>1, <1>2, FailGoesOn, HandlerHas, HandlerMoves
<1>3. CASE files[p][v] = None /\ files' = [files EXCEPT ![p][v] = blank]
           /\ server[s].op = "upload" /\ server' = [server EXCEPT ![s] = r]
  <2>1. /\ blank \in Row /\ blank.path = p /\ blank.version = v /\ Pending(blank) /\ blank # None
    <3>1. blank \in Row
      BY <1>1 DEF Row
    <3>2. blank.path = p /\ blank.version = v /\ blank.sum = None
      OBVIOUS
    <3> HIDE DEF blank
    <3> QED BY <3>1, <3>2, NoneFacts DEF Pending
  <2>2. server[s] \in Request /\ RequestFits(files, byHand, packages, server[s])
    BY HandlerHas
  <2>3. /\ r \in Request /\ r.st = "stream" /\ r.op = server[s].op /\ r.sum = server[s].sum
        /\ r.version = v /\ r.path = p /\ r.client = server[s].client /\ r.reply = server[s].reply
    BY <2>2 DEF Request
  <2>4. /\ files' \in Table(Row) /\ files'[p][v] = blank
        /\ \A x \in Paths, w \in Versions : (x = p /\ w = v) \/ files'[x][w] = files[x][w]
    <3> HIDE DEF blank, p, v
    <3> QED BY <1>1, <1>3, <2>1, HandlerHas DEF Table
  <2>5. ~Ready(files[p][v]) /\ \A z \in Slots : Streams(z) => server[z].path # p \/ server[z].version # v
    BY <1>3 DEF Ready, PInv, StreamsOwn
  <2>6. spent.faults # 0 \/ r.client # None
    BY <1>1, <2>3 DEF PInv, ClientsWait
  <2> HIDE DEF r, blank
  <2>7. r.reply # None => RowBacked(files', byHand, r.reply)
    <3>1. Grows(files, byHand, files', byHand)
      BY <2>4, <2>5 DEF Grows
    <3> QED BY <2>2, <2>3, <3>1, RowGrows DEF RequestFits
  <2>8. RequestFits(files', byHand, packages, r)
    BY <1>1, <1>3, <2>3, <2>7 DEF RequestFits
  <2> HIDE DEF p, v
  <2>9. RowTurns(s, r, p, v, blank)
    BY <1>1, <1>3, <2>1, <2>3, <2>4, <2>5, <2>6, <2>8 DEF RowTurns
  <2> QED BY <1>1, <2>1, <2>3, <2>9, RowMoves
<1>4. CASE files[p][v] = None /\ files' = [files EXCEPT ![p][v] = ready] /\ Reply(s, ready)
  <2>1. /\ ready \in Row /\ ready.path = p /\ ready.version = v /\ ~Pending(ready) /\ ready # None
        /\ ready.url # "" /\ ready.tag = server[s].tag
    <3>1. /\ ready.path = p /\ ready.version = v /\ ready.tag = server[s].tag
          /\ ready.url = "cdn" /\ ready.sum = server[s].sum
      OBVIOUS
    <3>2. ready \in Row
      BY <1>1 DEF Row
    <3> HIDE DEF ready
    <3> QED BY <1>1, <3>1, <3>2, NoneFacts DEF Pending
  <2>2. /\ files' \in Table(Row) /\ files'[p][v] = ready
        /\ \A x \in Paths, w \in Versions : (x = p /\ w = v) \/ files'[x][w] = files[x][w]
    <3> HIDE DEF ready, p, v
    <3> QED BY <1>1, <1>4, <2>1, HandlerHas DEF Table
  <2>3. ~Ready(files[p][v]) /\ \A z \in Slots : Streams(z) => server[z].path # p \/ server[z].version # v
    BY <1>4 DEF Ready, PInv, StreamsOwn
  <2> HIDE DEF ready, p, v
  <2>4. RowBacked(files', byHand, ready)
    BY <1>1, <2>1, <2>2 DEF RowBacked, Backed, Under, EntryOf, Ready
  <2>5. PICK x \in Request :
          /\ server' = [server EXCEPT ![s] = x] /\ x.st \in {"free", "answer"}
          /\ RequestFits(files', byHand, packages, x)
    BY <1>4, <2>1, <2>4, RowAnswered
  <2>6. RowTurns(s, x, p, v, ready)
    BY <1>1, <2>1, <2>2, <2>3, <2>5 DEF RowTurns
  <2> QED BY <1>1, <2>1, <2>5, <2>6, RowMoves
<1>5. ASSUME ~Taken(server[s]) PROVE files[p][v] = None
  BY <1>5 DEF Taken
<1> QED BY <1>1, <1>2, <1>3, <1>4, <1>5 DEF Insert, Goto

(* What a request that streams owns.                                       *)
LEMMA StreamHas ==
  ASSUME PInv, NEW s \in Slots, Streams(s)
  PROVE  /\ server[s].path \in Paths /\ server[s].version \in Versions /\ server[s].sum \in Contents
         /\ LET row == files[server[s].path][server[s].version] IN
              /\ row \in Row /\ ~Ready(row)
              /\ row.path = server[s].path /\ row.version = server[s].version
         /\ \A z \in Slots \ {s} : Streams(z) =>
              server[z].path # server[s].path \/ server[z].version # server[s].version
<1>1. server[s].path \in Paths /\ server[s].version \in Versions /\ server[s].sum \in Contents
  BY HandlerHas DEF Streams, RequestFits, Request
<1> DEFINE row == files[server[s].path][server[s].version]
<1>2. row # None /\ Pending(row) /\ row \in Row \cup {None}
  BY <1>1 DEF PInv, TypeOK, StreamsOwn
<1>3. row.path = server[s].path /\ row.version = server[s].version
  BY <1>1, <1>2 DEF PInv, RowsPlaced
<1> QED BY <1>1, <1>2, <1>3 DEF PInv, StreamsOwn, Ready

LEMMA CommitStep ==
  ASSUME PInv, NEW s \in Slots, Commit(s)
  PROVE  PInv'
<1> DEFINE p == server[s].path
           v == server[s].version
           row == [files[p][v] EXCEPT !.url = "s3", !.sum = server[s].sum]
<1>1. /\ Streams(s) /\ files' = [files EXCEPT ![p][v] = row] /\ Reply(s, row)
      /\ UNCHANGED <<local, cli, cache, packages, byHand, spent>>
  BY DEF Commit, Streams
<1>2. /\ p \in Paths /\ v \in Versions /\ files[p][v] \in Row /\ ~Ready(files[p][v])
      /\ \A z \in Slots \ {s} : Streams(z) => server[z].path # p \/ server[z].version # v
  BY <1>1, StreamHas
<1>3. row \in Row /\ row.path = p /\ row.version = v /\ row # None /\ ~Pending(row) /\ row.url # ""
  BY <1>1, StreamHas, NoneFacts DEF Row, Pending
<1> HIDE DEF row
<1>4. /\ files' \in Table(Row) /\ files'[p][v] = row
      /\ \A x \in Paths, w \in Versions : (x = p /\ w = v) \/ files'[x][w] = files[x][w]
  <2> HIDE DEF p, v
  <2> QED BY <1>1, <1>2, <1>3, HandlerHas DEF Table
<1>5. server[s].path = p /\ server[s].version = v
  OBVIOUS
<1> HIDE DEF p, v
<1>6. RowBacked(files', byHand, row)
  BY <1>2, <1>3, <1>4 DEF RowBacked, Backed, Under, EntryOf, Ready
<1>7. PICK x \in Request :
        /\ server' = [server EXCEPT ![s] = x] /\ x.st \in {"free", "answer"}
        /\ RequestFits(files', byHand, packages, x)
  BY <1>1, <1>3, <1>6, RowAnswered
<1>8. RowTurns(s, x, p, v, row)
  BY <1>1, <1>2, <1>3, <1>4, <1>5, <1>7 DEF RowTurns
<1> QED BY <1>1, <1>2, <1>3, <1>7, <1>8, RowMoves

LEMMA RollbackStep ==
  ASSUME PInv, NEW s \in Slots, Rollback(s)
  PROVE  PInv'
<1> DEFINE p == server[s].path
           v == server[s].version
<1>1. /\ Streams(s) /\ Fail(s) /\ UNCHANGED <<local, cli, cache, packages, byHand, spent>>
      /\ files' = [files EXCEPT ![p] = [w \in Versions |-> IF w \in {v} THEN None ELSE files[p][w]]]
  BY StreamHas, HandlerHas DEF Rollback, Streams, Undone, Table
<1>2. /\ p \in Paths /\ v \in Versions /\ ~Ready(files[p][v])
      /\ \A z \in Slots \ {s} : Streams(z) => server[z].path # p \/ server[z].version # v
  BY <1>1, StreamHas
<1>3. server[s].path = p /\ server[s].version = v
  OBVIOUS
<1> HIDE DEF p, v
<1>4. /\ files' \in Table(Row) /\ files'[p][v] = None
      /\ \A x \in Paths, w \in Versions : (x = p /\ w = v) \/ files'[x][w] = files[x][w]
  BY <1>1, <1>2, HandlerHas DEF Table
<1>5. PICK r \in Request :
        /\ server' = [server EXCEPT ![s] = r]
        /\ r = Free \/ (r.st = "answer" /\ r.reply = None /\ r.version = None)
  BY <1>1, FreeFacts, AnswerFacts DEF Fail, PInv
<1>6. RequestFits(files', byHand, packages, r)
  <2>1. CASE r = Free
    BY <2>1, FreeFits
  <2>2. CASE r.st = "answer" /\ r.reply = None /\ r.version = None
    BY <2>2 DEF RequestFits
  <2> QED BY <1>5, <2>1, <2>2
<1>7. r.st \in {"free", "answer"} /\ None \in Row \cup {None}
  BY <1>5, FreeFacts
<1>8. RowTurns(s, r, p, v, None)
  BY <1>1, <1>2, <1>3, <1>4, <1>5, <1>6, <1>7 DEF RowTurns
<1> QED BY <1>1, <1>2, <1>5, <1>7, <1>8, RowMoves

LEMMA SaveStep ==
  ASSUME PInv, NEW s \in Slots, Save(s)
  PROVE  PInv'
<1> DEFINE q == server[s]
           new == [version |-> q.version, by |-> q.op, tag |-> q.tag, files |-> q.files, meant |-> q.meant]
           a == [Free EXCEPT !.version = q.version]
<1>1. /\ q.st = "save" /\ ~Streams(s) /\ UNCHANGED <<local, cli, files, cache, byHand, spent>>
      /\ q \in Request /\ RequestFits(files, byHand, packages, q)
  BY HandlerHas DEF Save, Streams
<1>2. CASE Fail(s) /\ UNCHANGED packages
  BY <1>1, <1>2, FailGoesOn, HandlerHas, HandlerMoves
<1>3. CASE packages' = packages \cup {new} /\ Answer(s, a)
  <2>1. /\ q.version \in PackageVersions /\ q.tag \in AnyTag /\ q.files \in [Paths -> Versions]
        /\ q.meant \in [Paths -> Contents \cup {None}]
        /\ \/ q.op = "package" /\ PackBacked(files, byHand, q.tag, q.files, q.meant)
           \/ q.op = "byhand" /\ q.client = None /\ PackByHand(byHand, q.files)
    BY <1>1 DEF RequestFits, Request
  <2>2. /\ new \in Package /\ new.by = q.op /\ new.version = q.version /\ new.tag = q.tag
        /\ new.files = q.files /\ new.meant = q.meant
    BY <2>1 DEF Package
  <2>3. a \in Request /\ a.version = q.version /\ a.reply = None
    BY <2>1, FreeFacts DEF Request
  <2> HIDE DEF new, a
  <2>4. PackageFits(files, byHand, new)
    BY <2>1, <2>2 DEF PackageFits
  <2>5. PICK r \in Request :
          /\ server' = [server EXCEPT ![s] = r]
          /\ \/ r = Free
             \/ /\ r.st = "answer" /\ r.reply = None /\ r.version = q.version
                /\ q.client # None
    BY <1>3, <2>3, AnswerFacts DEF PInv
  <2>6. RequestFits(files, byHand, packages', r)
    <3>1. CASE r = Free
      BY <3>1, FreeFits
    <3>2. CASE r.st = "answer" /\ r.reply = None /\ r.version = q.version /\ q.client # None
      <4>1. new.by = "package" /\ new \in packages' /\ new.version = r.version
        BY <1>3, <2>1, <2>2, <3>2
      <4> QED BY <3>2, <4>1 DEF RequestFits
    <3> QED BY <2>5, <3>1, <3>2
  <2>7. r.st \in {"free", "answer"}
    BY <2>5, FreeFacts
  <2> HIDE DEF q
  <2>8. /\ server' \in [Slots -> Request] /\ server'[s] = r
        /\ \A z \in Slots \ {s} : server'[z] = server[z]
    BY <2>5, HandlerHas
  <2>9. Grows(files, byHand, files', byHand') /\ packages \subseteq packages'
    BY <1>1, <1>3, GrowsAtAll
  <2>10. \A z \in Slots : RequestFits(files', byHand', packages', server'[z])
    <3> SUFFICES ASSUME NEW z \in Slots PROVE RequestFits(files', byHand', packages', server'[z])
      OBVIOUS
    <3>1. CASE z = s
      BY <1>1, <2>6, <2>8, <3>1
    <3>2. CASE z # s
      <4>1. RequestFits(files, byHand, packages, server[z]) /\ server'[z] = server[z]
        BY <2>8, <3>2, HandlerHas
      <4> QED BY <2>9, <4>1, RequestGrows
    <3> QED BY <3>1, <3>2
  <2>11. \A z \in Slots : server'[z] = server[z] \/ (z = s /\ server'[z].st \in {"free", "answer"})
    BY <2>7, <2>8
  <2>12. StreamsOwn' /\ ClientsWait'
    <3>1. StreamsOwn /\ ClientsWait
      BY DEF PInv
    <3>2. StreamsOwn'
      BY <1>1, <2>11, <3>1 DEF StreamsOwn, Streams, Pending
    <3>3. ClientsWait'
      BY <1>1, <2>11, <3>1 DEF ClientsWait
    <3> QED BY <3>2, <3>3
  <2>13. OrphanNeedsFault'
    <3> SUFFICES ASSUME spent.faults = 0, NEW x \in Paths, NEW w \in Versions,
                        files[x][w] # None, Pending(files[x][w])
                 PROVE  \E z \in Slots : /\ server'[z].st = "stream"
                                         /\ server'[z].path = x /\ server'[z].version = w
      BY <1>1 DEF OrphanNeedsFault, Owned, Pending
    <3>1. Owned(x, w)
      BY DEF PInv, OrphanNeedsFault
    <3>2. PICK z \in Slots : Streams(z) /\ server[z].path = x /\ server[z].version = w
      BY <3>1 DEF Owned, Streams
    <3> QED BY <1>1, <2>11, <3>2 DEF Streams
  <2>14. RowsPlaced'
    BY <1>1 DEF PInv, RowsPlaced, Pending
  <2>15. /\ files' \in Table(Row) /\ cache' \in Table(Served) /\ CacheFits(files', byHand', cache')
         /\ spent' \in Spends
    BY <1>1, HandlerHas
  <2>16. packages' \subseteq Package /\ byHand' \in Hands
    BY <1>1, <1>3, <2>2 DEF PInv, TypeOK, Hands
  <2>17. \A pkg \in packages' \ packages : PackageFits(files', byHand', pkg)
    BY <1>1, <1>3, <2>4
  <2> QED BY <1>1, <2>8, <2>9, <2>10, <2>12, <2>13, <2>14, <2>15, <2>16, <2>17, TablesMove
<1> QED BY <1>1, <1>2, <1>3 DEF Save

LEMMA HandSpends ==
  ASSUME PInv, spent.hand + spent.faults < MaxMishaps, spent' = [spent EXCEPT !.hand = @ + 1]
  PROVE  spent' \in Spends /\ spent'.faults = spent.faults
<1>1. spent \in Spends
  BY DEF PInv, TypeOK, Spends
<1>2. spent.hand + 1 \in 0 .. MaxMishaps
  BY <1>1, BoundAssumption DEF Spends
<1> QED BY <1>1, <1>2 DEF Spends

LEMMA PackageByHandStep ==
  ASSUME PInv, PackageByHand
  PROVE  PInv'
<1>1. spent' \in Spends /\ spent'.faults = spent.faults
  BY HandSpends DEF PackageByHand
<1>2. PICK chosen \in [Paths -> Versions], t \in Tags, s \in FreeSlots :
         /\ \A p \in Paths : files[p][chosen[p]] # None
         /\ server' = [server EXCEPT ![s] =
                [Free EXCEPT !.op = "byhand", !.st = "lookup", !.tag = t,
                             !.files = chosen,
                             !.meant = [p \in Paths |-> files[p][chosen[p]].sum]]]
         /\ byHand' = [byHand EXCEPT !.packaged = @ \cup {<<p, chosen[p]>> : p \in Paths}]
  BY DEF PackageByHand
<1> DEFINE meant == [p \in Paths |-> files[p][chosen[p]].sum]
           r == [Free EXCEPT !.op = "byhand", !.st = "lookup", !.tag = t, !.files = chosen, !.meant = meant]
           new == {<<p, chosen[p]>> : p \in Paths}
<1>3. meant \in [Paths -> Contents \cup {None}]
  <2>1. ASSUME NEW p \in Paths PROVE files[p][chosen[p]].sum \in Contents \cup {None}
    <3>1. files[p][chosen[p]] \in Row
      BY <1>2 DEF PInv, TypeOK
    <3> QED BY <3>1 DEF Row
  <2> QED BY <2>1
<1>4. UNCHANGED <<local, cli, files, cache, packages>> /\ s \in Slots /\ server[s].st = "free"
  BY DEF PackageByHand, tables, FreeSlots
<1> HIDE DEF meant
<1>5. /\ r \in Request /\ r.st = "lookup" /\ r.op = "byhand" /\ r.client = None /\ r.files = chosen
      /\ r.reply = None
  BY <1>3, FreeFacts DEF Request, AnyTag
<1>6. server' = [server EXCEPT ![s] = r]
  BY <1>2 DEF meant
<1> HIDE DEF r
<1>7. /\ byHand' \in Hands /\ byHand'.tagged = byHand.tagged
      /\ byHand'.packaged = byHand.packaged \cup new
  <2>1. byHand \in Hands /\ new \in SUBSET (Paths \X Versions)
    BY DEF PInv, TypeOK, Hands
  <2>2. byHand' = [byHand EXCEPT !.packaged = byHand.packaged \cup new]
    BY <1>2, <2>1 DEF Hands
  <2> HIDE DEF new
  <2> QED BY <2>1, <2>2 DEF Hands
<1>8. Grows(files, byHand, files', byHand')
  BY <1>4, <1>7 DEF Grows
<1>9. RequestFits(files', byHand', packages', r)
  <2>1. PackByHand(byHand', chosen)
    BY <1>7 DEF PackByHand
  <2> QED BY <1>5, <2>1 DEF RequestFits
<1>10. /\ server' \in [Slots -> Request] /\ server'[s] = r
       /\ \A z \in Slots \ {s} : server'[z] = server[z]
  BY <1>4, <1>5, <1>6, HandlerHas
<1>11. \A z \in Slots : RequestFits(files', byHand', packages', server'[z])
  <2> SUFFICES ASSUME NEW z \in Slots PROVE RequestFits(files', byHand', packages', server'[z])
    OBVIOUS
  <2>1. CASE z = s
    BY <1>9, <1>10, <2>1
  <2>2. CASE z # s
    <3>1. RequestFits(files, byHand, packages, server[z]) /\ server'[z] = server[z]
          /\ packages \subseteq packages'
      BY <1>4, <1>10, <2>2, HandlerHas
    <3> QED BY <1>8, <3>1, RequestGrows
  <2> QED BY <2>1, <2>2
<1>12. \A z \in Slots : server'[z] = server[z] \/ (z = s /\ server'[z].st = "lookup")
  BY <1>5, <1>10
<1>13. StreamsOwn' /\ ClientsWait'
  <2>1. StreamsOwn /\ ClientsWait
    BY DEF PInv
  <2>2. StreamsOwn'
    BY <1>4, <1>12, <2>1 DEF StreamsOwn, Streams, Pending
  <2>3. ClientsWait'
    BY <1>1, <1>12, <2>1 DEF ClientsWait
  <2> QED BY <2>2, <2>3
<1>14. OrphanNeedsFault'
  <2> SUFFICES ASSUME spent.faults = 0, NEW x \in Paths, NEW w \in Versions,
                      files[x][w] # None, Pending(files[x][w])
               PROVE  \E z \in Slots : /\ server'[z].st = "stream"
                                       /\ server'[z].path = x /\ server'[z].version = w
    BY <1>1, <1>4 DEF OrphanNeedsFault, Owned, Pending
  <2>1. Owned(x, w)
    BY DEF PInv, OrphanNeedsFault
  <2>2. PICK z \in Slots : Streams(z) /\ server[z].path = x /\ server[z].version = w
    BY <2>1 DEF Owned, Streams
  <2> QED BY <1>4, <1>12, <2>2 DEF Streams
<1>15. RowsPlaced'
  BY <1>4 DEF PInv, RowsPlaced, Pending
<1>16. /\ files' \in Table(Row) /\ cache' \in Table(Served) /\ packages' \subseteq Package
       /\ packages \subseteq packages' /\ packages' \ packages = {}
  BY <1>4 DEF PInv, TypeOK, Table
<1>17. CacheFits(files', byHand', cache')
  <2>1. CacheFits(files, byHand, cache) /\ cache' = cache
    BY <1>4 DEF PInv, Records
  <2> QED BY <1>8, <2>1, CacheGrows
<1> QED BY <1>1, <1>4, <1>7, <1>8, <1>10, <1>11, <1>13, <1>14, <1>15, <1>16, <1>17, TablesMove

LEMMA RetagStep ==
  ASSUME PInv, Retag
  PROVE  PInv'
<1>1. spent' \in Spends /\ spent'.faults = spent.faults
  BY HandSpends DEF Retag
<1>2. PICK p \in Paths, v \in Versions, t \in Tags :
        /\ files[p][v] # None /\ files' = [files EXCEPT ![p][v].tag = t]
        /\ byHand' = [byHand EXCEPT !.tagged = @ \cup {<<p, v>>}]
  BY DEF Retag
<1>3. UNCHANGED <<local, cli, server, cache, packages>>
  BY DEF Retag
<1>4. byHand' \in Hands /\ byHand'.packaged = byHand.packaged /\ byHand'.tagged = byHand.tagged \cup {<<p, v>>}
  <2>1. byHand \in Hands
    BY DEF PInv, TypeOK, Hands
  <2> QED BY <1>2, <2>1 DEF Hands
<1> DEFINE row == [files[p][v] EXCEPT !.tag = t]
<1>5. files[p][v] \in Row /\ files \in Table(Row)
  BY <1>2 DEF PInv, TypeOK, Table
<1>6. /\ row \in Row /\ row.path = files[p][v].path /\ row.version = files[p][v].version
      /\ row.url = files[p][v].url /\ row.sum = files[p][v].sum /\ row # None
  BY <1>5, NoneFacts DEF Row, AnyTag
<1>7. files' = [files EXCEPT ![p][v] = row]
  BY <1>2, <1>5 DEF Table
<1> HIDE DEF row
<1>8. /\ files' \in Table(Row) /\ files'[p][v] = row
      /\ \A x \in Paths, w \in Versions : (x = p /\ w = v) \/ files'[x][w] = files[x][w]
  BY <1>5, <1>6, <1>7 DEF Table
(* Everything but the tag of one row is as it was.                         *)
<1>9. ASSUME NEW x \in Paths, NEW w \in Versions
      PROVE  /\ files'[x][w] # None <=> files[x][w] # None
             /\ files[x][w] # None => /\ files'[x][w].path = files[x][w].path
                                      /\ files'[x][w].version = files[x][w].version
                                      /\ files'[x][w].url = files[x][w].url
                                      /\ files'[x][w].sum = files[x][w].sum
                                      /\ \/ files'[x][w].tag = files[x][w].tag
                                         \/ <<x, w>> \in byHand'.tagged
  <2>1. CASE x = p /\ w = v
    BY <1>2, <1>4, <1>6, <1>8, <2>1
  <2>2. CASE ~(x = p /\ w = v)
    BY <1>8, <2>2
  <2> QED BY <2>1, <2>2
<1>10. Grows(files, byHand, files', byHand')
  <2>1. \A x \in Paths, w \in Versions : Ready(files[x][w]) =>
          /\ Ready(files'[x][w]) /\ files'[x][w].version = files[x][w].version
          /\ files'[x][w].url = files[x][w].url /\ files'[x][w].sum = files[x][w].sum
          /\ files'[x][w].tag = files[x][w].tag \/ <<x, w>> \in byHand'.tagged
    BY <1>9 DEF Ready, Pending
  <2> QED BY <1>4, <2>1 DEF Grows
<1>11. \A z \in Slots : RequestFits(files', byHand', packages', server'[z])
  <2> SUFFICES ASSUME NEW z \in Slots PROVE RequestFits(files', byHand', packages', server'[z])
    OBVIOUS
  <2>1. RequestFits(files, byHand, packages, server[z]) /\ server'[z] = server[z]
        /\ packages \subseteq packages'
    BY <1>3, HandlerHas
  <2> QED BY <1>10, <2>1, RequestGrows
<1>12. RowsPlaced'
  <2>1. RowsPlaced
    BY DEF PInv
  <2>2. \A x \in Paths, w \in Versions : files'[x][w] # None =>
          /\ files'[x][w].path = x /\ files'[x][w].version = w
          /\ ~(files'[x][w].sum = None) => files'[x][w].url # ""
    <3> SUFFICES ASSUME NEW x \in Paths, NEW w \in Versions, files'[x][w] # None
                 PROVE  /\ files'[x][w].path = x /\ files'[x][w].version = w
                        /\ ~(files'[x][w].sum = None) => files'[x][w].url # ""
      OBVIOUS
    <3>1. files[x][w] # None
      BY <1>9
    <3>2. /\ files[x][w].path = x /\ files[x][w].version = w
          /\ ~(files[x][w].sum = None) => files[x][w].url # ""
      BY <2>1, <3>1 DEF RowsPlaced, Pending
    <3>3. /\ files'[x][w].path = files[x][w].path
          /\ files'[x][w].version = files[x][w].version
          /\ files'[x][w].url = files[x][w].url
          /\ files'[x][w].sum = files[x][w].sum
      BY <1>9, <3>1
    <3> QED BY <3>2, <3>3
  <2> QED BY <2>2 DEF RowsPlaced, Pending
<1>13. StreamsOwn'
  <2>1. ASSUME NEW z \in Slots, Streams(z)
        PROVE  /\ files'[server[z].path][server[z].version] # None
               /\ files'[server[z].path][server[z].version].sum = None
    <3>1. /\ server[z].path \in Paths /\ server[z].version \in Versions
          /\ files[server[z].path][server[z].version] # None
          /\ files[server[z].path][server[z].version].sum = None
      BY <2>1, HandlerHas DEF PInv, StreamsOwn, Pending, RequestFits, Request, Streams
    <3> QED BY <1>9, <3>1
  <2> QED BY <1>3, <2>1 DEF PInv, StreamsOwn, Streams, Pending
<1>14. ClientsWait'
  BY <1>1, <1>3 DEF PInv, ClientsWait
<1>15. OrphanNeedsFault'
  <2> SUFFICES ASSUME spent.faults = 0, NEW x \in Paths, NEW w \in Versions,
                      files'[x][w] # None, files'[x][w].sum = None
               PROVE  Owned(x, w)
    BY <1>1, <1>3 DEF OrphanNeedsFault, Owned, Pending
  <2>1. files[x][w] # None /\ Pending(files[x][w])
    BY <1>9 DEF Pending
  <2> QED BY <2>1 DEF PInv, OrphanNeedsFault
<1>16. /\ cache' \in Table(Served) /\ packages' \subseteq Package /\ server' \in [Slots -> Request]
       /\ packages \subseteq packages' /\ packages' \ packages = {}
  BY <1>3 DEF PInv, TypeOK, Table
<1>17. CacheFits(files', byHand', cache')
  <2>1. CacheFits(files, byHand, cache) /\ cache' = cache
    BY <1>3 DEF PInv, Records
  <2> QED BY <1>10, <2>1, CacheGrows
<1> QED BY <1>1, <1>3, <1>4, <1>8, <1>10, <1>11, <1>12, <1>13, <1>14, <1>15, <1>16, <1>17, TablesMove


----------------------------------------------------------------------------
(* The invariant holds at the start, and every step keeps it.              *)

LEMMA InitPInv ==
  ASSUME Init
  PROVE  PInv
<1>1. \A pl \in Platforms : cli[pl] = Idle /\ rc[pl] = BlankFiles
  BY DEF Init
<1>2. \A p \in Paths, v \in Versions : files[p][v] = None /\ cache[p][v] = None
  BY DEF Init, NoRows
<1>3. \A s \in Slots : server[s] = Free
  BY DEF Init
<1>4. BlankFiles \in ReleaseConfig /\ BlankFiles.version = None /\ \A p \in Paths : BlankFiles.files[p] = None
  BY DEF BlankFiles, ReleaseConfig, NoEntries
<1>5. mappings \in Mappings /\ \A t \in AnyTag, p \in Paths : mappings[t][p] = None
  BY DEF Init, Mappings, NoEntries
<1>6. TypeOK
  <2>1. /\ disk \in [Platforms -> [Paths -> Contents]] /\ rc \in [Platforms -> ReleaseConfig]
        /\ cli \in [Platforms -> Command] /\ server \in [Slots -> Request]
    BY <1>4, IdleFacts, FreeFacts DEF Init
  <2>2. /\ files \in [Paths -> [Versions -> Row \cup {None}]]
        /\ cache \in [Paths -> [Versions -> Served \cup {None}]]
    BY DEF Init, NoRows
  <2>3. /\ packages \subseteq Package
        /\ byHand \in [packaged : SUBSET (Paths \X Versions), tagged : SUBSET (Paths \X Versions)]
        /\ spent \in [commands : 0 .. MaxCommands, hand : 0 .. MaxMishaps, faults : 0 .. MaxMishaps]
    BY BoundAssumption DEF Init
  <2> QED BY <1>5, <2>1, <2>2, <2>3 DEF TypeOK
<1>7. Records
  <2>1. \A pl \in Platforms : CommandFits(files, byHand, cli[pl])
    BY <1>1, IdleFits
  <2>2. \A pl \in Platforms : ConfigFits(files, packages, rc[pl])
    BY <1>1, <1>4 DEF ConfigFits
  <2>3. \A s \in Slots : RequestFits(files, byHand, packages, server[s])
    BY <1>3, FreeFits
  <2>4. MapBacked(files, byHand, mappings) /\ CacheFits(files, byHand, cache) /\ packages = {}
    BY <1>2, <1>5 DEF MapBacked, CacheFits, Init
  <2> QED BY <2>1, <2>2, <2>3, <2>4 DEF Records
<1>8. RowsPlaced /\ OrphanNeedsFault
  BY <1>2 DEF RowsPlaced, OrphanNeedsFault
<1>9. StreamsOwn /\ ClientsWait
  BY <1>3, FreeFacts DEF StreamsOwn, ClientsWait, Streams
<1> QED BY <1>6, <1>7, <1>8, <1>9 DEF PInv

LEMMA StutterPInv ==
  ASSUME PInv, UNCHANGED vars
  PROVE  PInv'
<1>1. /\ UNCHANGED <<local, cli, files, packages, byHand>> /\ server' = server
      /\ cache' = cache /\ spent' = spent
  BY DEF vars, local
<1>2. /\ cache \in Table(Served) /\ CacheFits(files, byHand, cache) /\ spent \in Spends
      /\ server \in [Slots -> Request]
  BY DEF PInv, TypeOK, Records, Table, Spends
<1> QED BY <1>1, <1>2, HandlerMoves

LEMMA NextPInv ==
  ASSUME PInv, [Next]_vars
  PROVE  PInv'
<1>1. ASSUME NEW pl \in Platforms,
             \/ UpdateLocal(pl) \/ StartFiles(pl) \/ StartPackage(pl)
             \/ CliCrash(pl) \/ LoseAnswer(pl)
      PROVE  PInv'
  BY <1>1, UpdateLocalStep, StartStep, CliCrashStep, LoseAnswerStep
<1>2. ASSUME NEW pl \in Platforms, CliStep(pl)
      PROVE  PInv'
  BY <1>2, SkipFileStep, SendFileStep, TakeRowStep, OpenStep, WriteStep, FinishStep, CollectStep,
     SendPackageStep, TakePackageStep DEF CliStep
<1>3. ASSUME NEW s \in Slots, HandlerStep(s) \/ Drop(s) \/ StatementFails(s)
      PROVE  PInv'
  BY <1>3, CheckStep, ReadLatestStep, InsertStep, CommitStep, RollbackStep, LookUpStep, NumberStep,
     SaveStep, DropStep, StatementFailsStep DEF HandlerStep
<1>4. ASSUME Serve \/ Expire \/ PackageByHand \/ Retag \/ ServerCrash
      PROVE  PInv'
  BY <1>4, CacheStep, PackageByHandStep, RetagStep, ServerCrashStep
<1>5. CASE UNCHANGED vars
  BY <1>5, StutterPInv
<1> QED BY <1>1, <1>2, <1>3, <1>4, <1>5 DEF Next

(* The invariant the other theorems rest on: every record kept on a        *)
(* developer's machine, in a request or in the cache is backed by ready    *)
(* rows, an upload that streams has its pending row to itself, and until   *)
(* something failed every pending row has such an upload.                  *)
THEOREM PublishInvariant == Spec => []PInv
<1>1. Init => PInv
  BY InitPInv
<1>2. PInv /\ [Next]_vars => PInv'
  BY NextPInv
<1> QED BY <1>1, <1>2, PTL DEF Spec

(* Every variable keeps its type, for any bundle, commands and requests.   *)
THEOREM PublishTypeOK == Spec => []TypeOK
<1>1. PInv => TypeOK
  BY DEF PInv
<1> QED BY <1>1, PublishInvariant, PTL

(* mappings.json and release_config.json never name a row, a content or a  *)
(* package that the server does not have.                                  *)
THEOREM PublishRecords == Spec => []LocalRecordsBacked
<1>1. ASSUME PInv PROVE LocalRecordsBacked
  <2>1. ASSUME NEW t \in AnyTag, NEW p \in Paths, Mapped(t, p) # None
        PROVE  Backs(Mapped(t, p), p)
    BY <1>1, <2>1, MappedBacked DEF Backed, Backs
  <2>2. \A pl \in Platforms : ConfigFits(files, packages, rc[pl])
    BY <1>1 DEF PInv, Records
  <2> QED BY <2>1, <2>2 DEF LocalRecordsBacked, ConfigFits
<1> QED BY <1>1, PublishInvariant, PTL

LEMMA PackageHas ==
  ASSUME PInv, NEW pkg \in packages, pkg.by = "package", NEW p \in Paths
  PROVE  /\ pkg.files[p] \in Versions /\ Ready(files[p][pkg.files[p]])
         /\ files[p][pkg.files[p]].sum = pkg.meant[p]
         /\ Under(files, byHand, pkg.tag, p, pkg.files[p])
<1>1. PackageFits(files, byHand, pkg)
  BY DEF PInv, Records
<1> QED BY <1>1 DEF PackageFits, PackBacked

(* A package made by the command holds rows of its own tag only.           *)
THEOREM PublishTags == Spec => []PackageKeepsTag
<1>1. PInv => PackageKeepsTag
  BY PackageHas DEF PackageKeepsTag, Under
<1> QED BY <1>1, PublishInvariant, PTL

(* Through the cache too, a package made by the command is served with the *)
(* contents it was made of, unless a pending row was packaged by hand.     *)
THEOREM PublishServes == Spec => []ServedAsPublished
<1>1. ASSUME PInv PROVE ServedAsPublished
  <2> SUFFICES ASSUME NEW pkg \in packages, NEW p \in Paths, pkg.by = "package",
                      <<p, pkg.files[p]>> \notin byHand.packaged
               PROVE  /\ Ready(Resolved(p, pkg.files[p]))
                      /\ Resolved(p, pkg.files[p]).sum = pkg.meant[p]
    BY DEF ServedAsPublished
  <2> DEFINE v == pkg.files[p]
  <2>1. v \in Versions /\ Ready(files[p][v]) /\ files[p][v].sum = pkg.meant[p]
    BY <1>1, PackageHas
  <2>2. cache[p][v] # None => cache[p][v] = ServedOf(files[p][v])
    BY <1>1, <2>1 DEF PInv, Records, CacheFits
  <2>3. Resolved(p, v) = ServedOf(files[p][v])
    BY <2>1, <2>2 DEF Resolved, Ready
  <2>4. ServedOf(files[p][v]) \in Served /\ ServedOf(files[p][v]).sum = files[p][v].sum
    <3>1. files[p][v] \in Row
      BY <1>1, <2>1, ReadyBacks
    <3> QED BY <3>1 DEF ServedOf, Served, Row
  <2>5. ServedOf(files[p][v]) # None /\ ~Pending(ServedOf(files[p][v]))
    BY <2>1, <2>4, NoneFacts DEF Pending, Ready
  <2> QED BY <2>1, <2>3, <2>4, <2>5 DEF Ready
<1> QED BY <1>1, PublishInvariant, PTL

(* While nothing has crashed, no client went away and no statement failed, *)
(* every pending row is some upload's to complete or delete: failed        *)
(* streams, lost races for a version and reused versions orphan none.      *)
THEOREM PublishNoOrphans == Spec => []OrphanNeedsFault
<1>1. PInv => OrphanNeedsFault
  BY DEF PInv
<1> QED BY <1>1, PublishInvariant, PTL

----------------------------------------------------------------------------
(* The tables implement the registry: a step publishes one file, creates   *)
(* one package or changes nothing that the registry shows.                 *)

(* The content a row has published.                                        *)
Shown(row) == IF Ready(row) THEN row.sum ELSE None

LEMMA ShownFacts ==
  ASSUME NEW p \in Paths, NEW v \in Versions
  PROVE  /\ Published[p][v] = Shown(files[p][v])
         /\ Published'[p][v] = Shown(files'[p][v])
BY DEF Published, Shown, Ready, Pending

(* Tables whose rows show the same are the same to the registry.           *)
LEMMA ShowsSame ==
  ASSUME \A p \in Paths, v \in Versions : Shown(files'[p][v]) = Shown(files[p][v]),
         UNCHANGED packages
  PROVE  UNCHANGED <<Published, Packaged>>
<1>1. Published' = [p \in Paths |-> [v \in Versions |-> Shown(files'[p][v])]]
  BY DEF Published, Shown, Ready, Pending
<1>2. Published = [p \in Paths |-> [v \in Versions |-> Shown(files[p][v])]]
  BY DEF Published, Shown, Ready, Pending
<1>3. Published' = Published
  BY <1>1, <1>2
<1>4. Packaged' = Packaged
  BY DEF Packaged
<1> QED BY <1>3, <1>4

(* One row changes: a file is published, or nothing is shown of it.        *)
LEMMA RowShows ==
  ASSUME files \in Table(Row), NEW p \in Paths, NEW v \in Versions, NEW row \in Row \cup {None},
         files' = [files EXCEPT ![p][v] = row], ~Ready(files[p][v]), UNCHANGED packages
  PROVE  [Reg!RegNext]_(Reg!regVars)
<1>1. /\ files'[p][v] = row
      /\ \A x \in Paths, w \in Versions : (x = p /\ w = v) \/ files'[x][w] = files[x][w]
  BY DEF Table
<1>2. CASE ~Ready(row)
  <2>1. \A x \in Paths, w \in Versions : Shown(files'[x][w]) = Shown(files[x][w])
    BY <1>1, <1>2 DEF Shown
  <2> QED BY <2>1, ShowsSame DEF Reg!regVars
<1>3. CASE Ready(row)
  <2>1. Published[p][v] = None /\ Published'[p][v] = row.sum
    BY <1>1, <1>3, ShownFacts DEF Shown
  <2>2. row.sum \in Contents
    BY <1>3 DEF Ready, Pending, Row
  <2>3. Published' = [Published EXCEPT ![p][v] = Published'[p][v]]
    <3>1. Published' = [x \in Paths |-> [w \in Versions |-> Shown(files'[x][w])]]
      BY DEF Published, Shown, Ready, Pending
    <3>2. Published = [x \in Paths |-> [w \in Versions |-> Shown(files[x][w])]]
      BY DEF Published, Shown, Ready, Pending
    <3>3. \A x \in Paths, w \in Versions :
            Shown(files'[x][w]) = IF x = p /\ w = v THEN row.sum ELSE Shown(files[x][w])
      BY <1>1, <1>3 DEF Shown
    <3>4. [Published EXCEPT ![p][v] = row.sum] =
            [x \in Paths |-> [w \in Versions |->
               IF x = p /\ w = v THEN row.sum ELSE Shown(files[x][w])]]
      BY <3>2
    <3>5. Published' = [x \in Paths |-> [w \in Versions |->
               IF x = p /\ w = v THEN row.sum ELSE Shown(files[x][w])]]
      BY <3>1, <3>3
    <3> QED BY <2>1, <3>4, <3>5
  <2>4. Packaged' = Packaged
    BY DEF Packaged
  <2>5. Reg!PublishFile(p, v)
    BY <2>1, <2>2, <2>3, <2>4 DEF Reg!PublishFile
  <2> QED BY <2>5 DEF Reg!RegNext
<1> QED BY <1>2, <1>3

LEMMA StepShows ==
  ASSUME PInv, [Next]_vars
  PROVE  [Reg!RegNext]_(Reg!regVars)
<1>1. CASE UNCHANGED <<files, packages>>
  BY <1>1, ShowsSame DEF Reg!regVars
<1>2. ASSUME NEW s \in Slots, Insert(s)
      PROVE  [Reg!RegNext]_(Reg!regVars)
  <2> DEFINE p == server[s].path
             v == server[s].version
             blank == [path |-> p, version |-> v, tag |-> server[s].tag, url |-> "", sum |-> None]
             row == IF server[s].op = "upload" THEN blank
                    ELSE [blank EXCEPT !.url = "cdn", !.sum = server[s].sum]
  <2>1. /\ p \in Paths /\ v \in Versions /\ server[s].tag \in AnyTag /\ server[s].sum \in Contents
        /\ files \in Table(Row) /\ UNCHANGED packages
    BY <1>2, HandlerHas DEF Insert, RequestFits, Request, PInv, TypeOK, Table
  <2>2. CASE UNCHANGED files
    BY <1>1, <2>1, <2>2
  <2>3. CASE ~Taken(server[s]) /\ files' = [files EXCEPT ![p][v] = row]
    <3>1. ~Ready(files[p][v])
      BY <2>3 DEF Taken, Ready
    <3>2. row \in Row
      BY <2>1 DEF Row
    <3> HIDE DEF row, p, v
    <3> QED BY <2>1, <2>3, <3>1, <3>2, RowShows
  <2> QED BY <1>2, <2>2, <2>3 DEF Insert
<1>3. ASSUME NEW s \in Slots, Commit(s)
      PROVE  [Reg!RegNext]_(Reg!regVars)
  <2> DEFINE p == server[s].path
             v == server[s].version
             row == [files[p][v] EXCEPT !.url = "s3", !.sum = server[s].sum]
  <2>1. /\ Streams(s) /\ files' = [files EXCEPT ![p][v] = row] /\ UNCHANGED packages
        /\ files \in Table(Row)
    BY <1>3 DEF Commit, Streams, PInv, TypeOK, Table
  <2>2. /\ p \in Paths /\ v \in Versions /\ files[p][v] \in Row /\ ~Ready(files[p][v])
        /\ server[s].sum \in Contents
    BY <2>1, StreamHas
  <2>3. row \in Row
    BY <2>2 DEF Row
  <2> HIDE DEF row, p, v
  <2> QED BY <2>1, <2>2, <2>3, RowShows
<1>4. ASSUME NEW s \in Slots, Rollback(s)
      PROVE  [Reg!RegNext]_(Reg!regVars)
  <2> DEFINE p == server[s].path
             v == server[s].version
  <2>1. /\ Streams(s) /\ UNCHANGED packages
        /\ files' = [files EXCEPT ![p] = [w \in Versions |-> IF w \in {v} THEN None ELSE files[p][w]]]
    BY <1>4, StreamHas, HandlerHas DEF Rollback, Streams, Undone, Table
  <2>2. p \in Paths /\ v \in Versions /\ ~Ready(files[p][v]) /\ files \in Table(Row)
    BY <2>1, StreamHas DEF PInv, TypeOK, Table
  <2> HIDE DEF p, v
  <2>3. /\ files'[p][v] = None
        /\ \A x \in Paths, w \in Versions : (x = p /\ w = v) \/ files'[x][w] = files[x][w]
    BY <2>1, <2>2 DEF Table
  <2>4. \A x \in Paths, w \in Versions : Shown(files'[x][w]) = Shown(files[x][w])
    BY <2>2, <2>3 DEF Shown, Ready
  <2> QED BY <2>1, <2>4, ShowsSame DEF Reg!regVars
<1>5. ASSUME Retag
      PROVE  [Reg!RegNext]_(Reg!regVars)
  <2>1. PICK p \in Paths, v \in Versions, t \in Tags :
          files[p][v] # None /\ files' = [files EXCEPT ![p][v].tag = t]
    BY <1>5 DEF Retag
  <2>2. files \in Table(Row) /\ UNCHANGED packages
    BY <1>5 DEF Retag, PInv, TypeOK, Table
  <2> DEFINE row == [files[p][v] EXCEPT !.tag = t]
  <2>3. files[p][v] \in Row
    BY <2>1, <2>2 DEF Table
  <2>4. row \in Row /\ row.sum = files[p][v].sum
    BY <2>3 DEF Row, AnyTag
  <2>5. files' = [files EXCEPT ![p][v] = row]
    BY <2>1, <2>2, <2>3 DEF Table
  <2> HIDE DEF row
  <2>6. /\ files'[p][v] = row
        /\ \A x \in Paths, w \in Versions : (x = p /\ w = v) \/ files'[x][w] = files[x][w]
    BY <2>2, <2>5 DEF Table
  <2>7. Shown(row) = Shown(files[p][v])
    BY <2>1, <2>4, NoneFacts DEF Shown, Ready, Pending
  <2>8. \A x \in Paths, w \in Versions : Shown(files'[x][w]) = Shown(files[x][w])
    BY <2>6, <2>7 DEF Shown
  <2> QED BY <2>2, <2>8, ShowsSame DEF Reg!regVars
<1>6. ASSUME NEW s \in Slots, Save(s)
      PROVE  [Reg!RegNext]_(Reg!regVars)
  <2> DEFINE q == server[s]
             new == [version |-> q.version, by |-> q.op, tag |-> q.tag, files |-> q.files, meant |-> q.meant]
             mine == [version |-> q.version, files |-> q.files]
  <2>1. /\ q.st = "save" /\ RequestFits(files, byHand, packages, q) /\ files' = files
    BY <1>6, HandlerHas DEF Save
  <2>2. CASE UNCHANGED packages
    BY <1>1, <2>1, <2>2
  <2>3. CASE packages' = packages \cup {new} /\ \A pkg \in packages : pkg.version # q.version
    <3>1. Published' = Published
      BY <2>1 DEF Published, Ready, Pending
    <3>2. new.by = q.op /\ new.version = q.version /\ new.files = q.files
      OBVIOUS
    <3> HIDE DEF new
    <3>3. CASE q.op # "package"
      <4>1. {x \in packages' : x.by = "package"} = {x \in packages : x.by = "package"}
        BY <2>3, <3>2, <3>3
      <4>2. Packaged' = Packaged
        BY <4>1 DEF Packaged
      <4> QED BY <3>1, <4>2 DEF Reg!regVars
    <3>4. CASE q.op = "package"
      <4>1. Packaged' = Packaged \cup {mine}
        <5>1. {x \in packages' : x.by = "package"} = {x \in packages : x.by = "package"} \cup {new}
          BY <2>3, <3>2, <3>4
        <5> QED BY <3>2, <5>1 DEF Packaged
      <4>2. \A other \in Packaged : other.version # mine.version
        BY <2>3 DEF Packaged
      <4>3. PackBacked(files, byHand, q.tag, q.files, q.meant)
        BY <2>1, <3>4 DEF RequestFits
      <4>4. \A p \in Paths : Published[p][mine.files[p]] \in Contents
        <5> SUFFICES ASSUME NEW p \in Paths PROVE Published[p][q.files[p]] \in Contents
          OBVIOUS
        <5>1. q.files[p] \in Versions /\ Ready(files[p][q.files[p]])
          BY <4>3 DEF PackBacked
        <5>2. files[p][q.files[p]].sum \in Contents
          BY <5>1, ReadyBacks
        <5> QED BY <5>1, <5>2, ShownFacts DEF Shown
      <4>5. mine \in Packaged' \ Packaged
        BY <4>1, <4>2
      <4>6. Reg!CreatePackage
        BY <3>1, <4>1, <4>2, <4>4, <4>5 DEF Reg!CreatePackage
      <4> QED BY <4>6 DEF Reg!RegNext
    <3> QED BY <3>3, <3>4
  <2> QED BY <1>6, <2>2, <2>3 DEF Save
<1>7. ASSUME NEW pl \in Platforms,
             \/ UpdateLocal(pl) \/ StartFiles(pl) \/ StartPackage(pl) \/ CliStep(pl)
             \/ CliCrash(pl) \/ LoseAnswer(pl)
      PROVE  UNCHANGED <<files, packages>>
  BY <1>7 DEF UpdateLocal, StartFiles, StartPackage, CliStep, CliCrash, LoseAnswer, SkipFile, SendFile,
     TakeRow, OpenMappings, WriteMappings, FinishFiles, Collect, SendPackage, TakePackage, tables
<1>8. ASSUME NEW s \in Slots,
             \/ CheckUpload(s) \/ CheckCreate(s) \/ ReadLatest(s) \/ LookUp(s) \/ Number(s)
             \/ Drop(s) \/ StatementFails(s)
      PROVE  UNCHANGED <<files, packages>>
  BY <1>8 DEF CheckUpload, CheckCreate, ReadLatest, LookUp, Number, Drop, StatementFails, tables
<1>9. ASSUME Serve \/ Expire \/ PackageByHand \/ ServerCrash
      PROVE  UNCHANGED <<files, packages>>
  BY <1>9 DEF Serve, Expire, PackageByHand, ServerCrash, tables
<1>10. CASE UNCHANGED vars
  BY <1>1, <1>10 DEF vars
<1> QED BY <1>1, <1>2, <1>3, <1>4, <1>5, <1>6, <1>7, <1>8, <1>9, <1>10 DEF Next, HandlerStep

(* The tables implement the registry: whatever the interleaving of         *)
(* uploads, failed uploads, packages and crashes, a published file is      *)
(* never replaced or withdrawn, and no package of the command ever names   *)
(* another file, or one that was not published.                            *)
THEOREM PublishImplementsRegistry == Spec => ImplementsRegistry
<1>1. ASSUME Init PROVE Reg!RegInit
  <2>1. Published = [p \in Paths |-> [v \in Versions |-> None]]
    BY <1>1 DEF Init, NoRows, Published, Ready
  <2>2. Packaged = {}
    BY <1>1 DEF Init, Packaged
  <2> QED BY <2>1, <2>2 DEF Reg!RegInit
<1>2. PInv /\ [Next]_vars => [Reg!RegNext]_(Reg!regVars)
  BY StepShows
<1> QED BY <1>1, <1>2, PublishInvariant, PTL DEF Spec, ImplementsRegistry, Reg!RegSpec
============================================================================
