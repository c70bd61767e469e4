------------------------ MODULE BuildPipelineProofs ------------------------
(***************************************************************************)
(* Builds, for any requests, releases and interleaving: as long as no live *)
(* build outlasts five minutes, a READY row is a complete build and stays, *)
(* and the answers, the key and the metadata name READY rows only.         *)
(***************************************************************************)
EXTENDS BuildPipeline, FiniteSetTheorems, WellFoundedInduction, TLAPS

----------------------------------------------------------------------------
(* Types. The requests that are past their claim, or never make one: no    *)
(* version is higher than their number, and one that is still trying to    *)
(* claim tries at most the next.                                           *)
Past == {q \in Requests : pc[q] \in Building \cup {"list", "publish", "key", "done"}}

VersionsCounted ==
    /\ \A row \in rows : row.version <= Cardinality(Past)
    /\ \A q \in Requests : pc[q] = "insert" => local[q].version <= Cardinality(Past) + 1

Answers == [how : {"none", "error", "ok"}, version : Versions \cup {0}, release : SomeRelease]
Fits(place, l) ==
    /\ place \notin {"idle", "done"} => l.release \in Releases
    /\ place \in Building \cup {"insert", "list", "publish", "key"} => l.version \in Versions
LocalsFit == \A q \in Requests : Fits(pc[q], local[q])

TInv == TypeOK /\ VersionsCounted /\ LocalsFit

----------------------------------------------------------------------------
(* Safety, while no live build is slow.                                    *)

(* The table keeps requests, releases and versions apart.                  *)
RowsApart == \A x, y \in rows : x # y =>
    x.id # y.id /\ x.release # y.release /\ x.version # y.version

(* What the status of a row says of the request that inserted it.          *)
RowPlaces == \A row \in rows :
    /\ row.status = "READY" => pc[row.id] \in {"list", "publish", "key", "done"}
    /\ row.status = "BUILDING" => pc[row.id] \in Building \cup {"done"}
    /\ row.status = "BUILDING" /\ row.old => pc[row.id] = "done"

(* A live build has its row, and its uploads are where the row says.       *)
Own(q, row) ==
    /\ row.id = q /\ row.status = "BUILDING"
    /\ row.release = local[q].release /\ row.version = local[q].version
OwnRow == \A q \in Requests : pc[q] \in Building => \E row \in rows : Own(q, row)
HalfDone(archives, l) ==
    \/ l.uploads = Kinds
    \/ /\ l.uploads = {"aar"} /\ l.config \in Configs
       /\ archives["zip"] = [files |-> l.release, config |-> l.config]
Uploaded == \A q \in Requests :
    /\ pc[q] = "upload" => HalfDone(object[local[q].version], local[q])
    /\ pc[q] = "ready" => Holds(local[q].version, local[q].release)

(* A row to be taken over is of a build that is over, and never READY.     *)
SeenDead == \A q \in Requests : \A id \in local[q].seen :
    pc[id] = "done" /\ \A row \in rows : row.id = id => row.status = "BUILDING"

(* What is said elsewhere of a version or a release has a READY row.       *)
IsReady(v, r) == \E row \in rows : row.version = v /\ row.release = r /\ row.status = "READY"
BuiltReady == \A q \in Requests :
    pc[q] \in {"list", "publish", "key"} => IsReady(local[q].version, local[q].release)
AnswersReady == \A q \in Requests :
    answer[q].how = "ok" => IsReady(answer[q].version, answer[q].release)
KeysReady ==
    /\ key # 0 => \E v \in Versions : IsReady(v, key)
    /\ \A q \in Requests : local[q].lastBuilt # 0 => \E v \in Versions : IsReady(v, local[q].lastBuilt)
ListsReady ==
    /\ \A v \in metadata : \E r \in Releases : IsReady(v, r)
    /\ \A q \in Requests : \A v \in local[q].listed : \E r \in Releases : IsReady(v, r)

(* A request is answered once, and by the previous build before any other. *)
AnswersFirst == \A q \in Requests :
    /\ pc[q] \in {"idle", "current", "previous"} => answer[q] = Pending
    /\ pc[q] = "idle" => local[q] = Blank
    /\ ~local[q].force /\ local[q].lastBuilt # 0 /\ pc[q] \notin {"current", "previous"}
         => answer[q].how = "ok"

Table ==
    /\ RowsApart /\ RowPlaces /\ OwnRow /\ Uploaded /\ SeenDead
    /\ \A row \in rows : row.status = "READY" => Holds(row.version, row.release)
Names == BuiltReady /\ AnswersReady /\ KeysReady /\ ListsReady
Safe == Table /\ Names /\ AnswersFirst

IInv == TInv /\ (slow = 0 => Safe)

----------------------------------------------------------------------------
(* Facts about the operators.                                              *)

LEMMA Constants ==
    /\ Releases \subseteq Nat \ {0} /\ IsFiniteSet(Requests) /\ MaxSlow \in Nat
    /\ Configs \subseteq Releases
    /\ Cardinality(Requests) \in Nat
BY ReleaseAssumption, RequestAssumption, SlowAssumption, ConfigAssumption, FS_CardinalityType

(* Max of a bounded set of numbers, which Max chooses from.                *)
LEMMA MaxBounded ==
  ASSUME NEW S, S \subseteq Nat, S # {}, NEW n \in Nat, \A x \in S : x <= n
  PROVE  Max(S) \in S /\ \A x \in S : x <= Max(S)
<1> DEFINE T == {n - x : x \in S}
<1>1. T \subseteq Nat /\ T # {}
  <2>1. \A x \in S : n - x \in Nat
    OBVIOUS
  <2> QED BY <2>1
<1>2. PICK t \in T : \A u \in T : ~(<<u, t>> \in OpToRel(<, Nat))
  BY <1>1, NatLessThanWellFounded, WFMin
<1>3. PICK x \in S : t = n - x
  OBVIOUS
<1>4. \A y \in S : x >= y
  <2> SUFFICES ASSUME NEW y \in S PROVE x >= y
    OBVIOUS
  <2>1. n - y \in T /\ n - y \in Nat /\ t \in Nat
    BY <1>1
  <2>2. ~(n - y < t)
    BY <1>2, <2>1 DEF OpToRel
  <2> QED BY <1>3, <2>1, <2>2
<1> QED BY <1>4 DEF Max

LEMMA PastCount ==
  ASSUME TypeOK
  PROVE  /\ Past \subseteq Requests /\ IsFiniteSet(Past)
         /\ Cardinality(Past) \in Nat /\ Cardinality(Past) <= Cardinality(Requests)
         /\ \A q \in Requests \ Past : Cardinality(Past) + 1 <= Cardinality(Requests)
<1>1. Past \subseteq Requests
  BY DEF Past
<1>2. IsFiniteSet(Past) /\ Cardinality(Past) <= Cardinality(Requests) /\ Cardinality(Past) \in Nat
  BY <1>1, Constants, FS_Subset, FS_CardinalityType
<1>3. ASSUME NEW q \in Requests \ Past
      PROVE  Cardinality(Past) + 1 <= Cardinality(Requests)
  <2>1. Cardinality(Past) # Cardinality(Requests)
    BY <1>1, Constants, FS_Subset
  <2> QED BY <1>2, <2>1, Constants
<1> QED BY <1>1, <1>2, <1>3

----------------------------------------------------------------------------
(* Types are invariant.                                                    *)

LEMMA InitTypes == Init => TInv
<1> SUFFICES ASSUME Init PROVE TInv
  OBVIOUS
<1>1. Blank \in Locals /\ Pending \in [how : {"none", "error", "ok"}, version : Versions \cup {0},
                                       release : SomeRelease]
  BY DEF Blank, Locals, Pending, SomeRelease
<1>2. object \in [Versions -> [Kinds -> Content]]
  BY DEF Init, Content, Nothing, SomeRelease
<1>3. TypeOK
  BY <1>1, <1>2, Constants DEF Init, TypeOK, SomeRelease, Places
<1>4. VersionsCounted /\ LocalsFit
  BY DEF Init, VersionsCounted, LocalsFit, Fits, Building
<1> QED BY <1>3, <1>4 DEF TInv

(* A request that is past its claim stays there.                           *)
LEMMA PastGrows ==
  ASSUME TypeOK, [Next]_vars
  PROVE  /\ Past \subseteq Past' /\ IsFiniteSet(Past')
         /\ Cardinality(Past) \in Nat /\ Cardinality(Past') \in Nat
         /\ Cardinality(Past) <= Cardinality(Past')
<1>1. Past \subseteq Past'
  <2> USE DEF Past, TypeOK, Building
  <2>1. CASE Conclude \/ Age \/ UNCHANGED vars
    BY <2>1 DEF Conclude, Age, vars
  <2>2. ASSUME NEW q \in Requests, Generate(q) PROVE Past \subseteq Past'
    BY <2>2 DEF Generate, Resolve, ResolveFails, FindCurrent, FindPrevious, End, Goto
  <2>3. ASSUME NEW q \in Requests, Claim(q) PROVE Past \subseteq Past'
    BY <2>3 DEF Claim, Check, DeleteStale, Latest, Insert, Recheck, GiveUp, FindReady, End, Goto
  <2>4. ASSUME NEW q \in Requests, Produce(q) \/ Publish(q) \/ Crash(q) PROVE Past \subseteq Past'
    BY <2>4 DEF Produce, Upload, UploadFails, CleanUp, MarkReady, Publish, ReadMetadata,
                WriteMetadata, UpdateKey, Crash, AfterUpload, End, Goto
  <2> QED BY <2>1, <2>2, <2>3, <2>4 DEF Next
<1>2. Past' \subseteq Requests
  BY DEF Past
<1>3. IsFiniteSet(Past')
  BY <1>2, Constants, FS_Subset
<1> QED BY <1>1, <1>3, PastCount, FS_Subset, FS_CardinalityType

LEMMA OthersKeepTypes ==
  ASSUME TInv, Conclude \/ Age \/ UNCHANGED vars
  PROVE  TInv'
<1> USE DEF TInv, TypeOK, VersionsCounted, LocalsFit, Past
<1>1. CASE Conclude
  BY <1>1 DEF Conclude, SomeRelease
<1>2. CASE Age
  <2>1. PICK row \in rows : /\ rows' = (rows \ {row}) \cup {[row EXCEPT !.old = TRUE]}
                            /\ slow' = IF pc[row.id] \in Building THEN slow + 1 ELSE slow
                            /\ slow' <= MaxSlow
    BY <1>2 DEF Age
  <2>2. [row EXCEPT !.old = TRUE] \in Row /\ [row EXCEPT !.old = TRUE].version = row.version
    BY DEF Row
  <2>3. slow' \in 0 .. MaxSlow
    BY <2>1, Constants
  <2> QED BY <1>2, <2>1, <2>2, <2>3 DEF Age
<1>3. CASE UNCHANGED vars
  BY <1>3 DEF vars
<1> QED BY <1>1, <1>2, <1>3

(* What a step of a request has to show.                                   *)
LEMMA StepTypes ==
  ASSUME TInv, [Next]_vars, NEW q \in Requests, NEW place \in Places,
         pc' = [pc EXCEPT ![q] = place],
         local' \in [Requests -> Locals], \A x \in Requests \ {q} : local'[x] = local[x],
         Fits(place, local'[q]),
         place = "insert" => local'[q].version <= Cardinality(Past) + 1,
         \A row \in rows' : row \in Row /\ row.version <= Cardinality(Past'),
         TypeOK'
  PROVE  TInv'
<1>1. LocalsFit'
  BY DEF TInv, TypeOK, LocalsFit
<1>2. VersionsCounted'
  <2>1. Cardinality(Past) \in Nat /\ Cardinality(Past') \in Nat /\ Cardinality(Past) <= Cardinality(Past')
    BY PastGrows DEF TInv
  <2>2. ASSUME NEW x \in Requests, pc'[x] = "insert"
        PROVE  local'[x].version <= Cardinality(Past') + 1
    <3>1. local'[x].version \in Nat
      BY DEF Locals, Versions
    <3>2. local'[x].version <= Cardinality(Past) + 1
      BY <2>2 DEF TInv, TypeOK, VersionsCounted
    <3> QED BY <2>1, <3>1, <3>2
  <2> QED BY <2>2 DEF VersionsCounted
<1> QED BY <1>1, <1>2 DEF TInv

LEMMA RowsStay ==
  ASSUME TInv, [Next]_vars, rows' \subseteq rows
  PROVE  \A row \in rows' : row \in Row /\ row.version <= Cardinality(Past')
<1>1. Cardinality(Past) \in Nat /\ Cardinality(Past') \in Nat /\ Cardinality(Past) <= Cardinality(Past')
  BY PastGrows DEF TInv
<1> QED BY <1>1 DEF TInv, TypeOK, VersionsCounted, Row, Versions

(* A request that ends gives up its locals.                                *)
LEMMA BlankTypes ==
  /\ Blank \in Locals /\ Blank.version = 0 /\ Blank.lastBuilt = 0 /\ Blank.seen = {}
  /\ Blank.listed = {} /\ Fits("done", Blank)
BY DEF Blank, Locals, SomeRelease, Fits, Building

LEMMA EndTypes ==
  ASSUME TInv, [Next]_vars, NEW q \in Requests, NEW from, NEW a \in Answers, End(q, from, a),
         rows' \subseteq rows, metadata' = metadata, slow' = slow, current' = current,
         object' = object, key' \in SomeRelease
  PROVE  TInv'
<1>1. TypeOK'
  BY BlankTypes DEF TInv, TypeOK, End, Goto, Return, Answers, Places
<1>2. local' = [local EXCEPT ![q] = Blank] /\ pc' = [pc EXCEPT ![q] = "done"]
  BY DEF End, Goto
<1>3. local'[q] = Blank /\ \A x \in Requests \ {q} : local'[x] = local[x]
  BY <1>2 DEF TInv, TypeOK
<1>4. local' \in [Requests -> Locals]
  BY <1>1 DEF TypeOK
<1> QED BY <1>1, <1>2, <1>3, <1>4, BlankTypes, RowsStay, StepTypes DEF Places

LEMMA GenerateTypes ==
  ASSUME TInv, NEW q \in Requests, Generate(q)
  PROVE  TInv'
<1>0. [Next]_vars
  BY DEF Next
<1>1. CASE Resolve(q)
  <2>1. PICK f \in BOOLEAN : 
          /\ local' = [local EXCEPT ![q] =
                [Blank EXCEPT !.force = f, !.release = current, !.lastBuilt = key]]
          /\ Goto(q, "idle", IF key = current THEN "current"
                           ELSE IF ~f /\ key # 0 THEN "previous" ELSE "check")
    BY <1>1 DEF Resolve
  <2>2. PICK place \in {"current", "previous", "check"} : pc' = [pc EXCEPT ![q] = place]
    BY <2>1 DEF Goto
  <2>3. TypeOK'
    BY <1>1, <2>1, <2>2 DEF Resolve, Blank, Locals, SomeRelease, Places, TInv, TypeOK
  <2>4. local'[q].release = current /\ current \in Releases
    BY <1>1, <2>1 DEF Resolve, Blank, SomeRelease, TInv, TypeOK
  <2>5. Fits(place, local'[q])
    BY <2>4 DEF Fits, Building
  <2>6. /\ local' \in [Requests -> Locals] /\ \A x \in Requests \ {q} : local'[x] = local[x]
        /\ place \in Places /\ place # "insert" /\ rows' = rows
    BY <1>1, <2>1, <2>3 DEF Resolve, TInv, TypeOK, Places
  <2> QED BY <1>0, <2>2, <2>3, <2>5, <2>6, RowsStay, StepTypes
<1>2. CASE ResolveFails(q)
  <2>1. Failure \in Answers
    BY DEF Failure, Answers, SomeRelease
  <2> QED BY <1>0, <1>2, <2>1, EndTypes DEF ResolveFails, TInv, TypeOK
<1>3. CASE FindCurrent(q)
  <2>1. ASSUME NEW row \in ReadyRowsOf(local[q].release),
               End(q, "current", Answer(row.version, local[q].release))
        PROVE  TInv'
    <3>1. Answer(row.version, local[q].release) \in Answers
      BY DEF ReadyRowsOf, RowsOf, Answer, Answers, TInv, TypeOK, Row, Locals
    <3> QED BY <1>0, <1>3, <2>1, <3>1, EndTypes DEF FindCurrent, TInv, TypeOK
  <2>2. ASSUME NEW place \in {"check", "previous"}, Goto(q, "current", place),
               UNCHANGED <<local, answer>>
        PROVE  TInv'
    <3>1. TypeOK' /\ rows' = rows /\ place \in Places
      BY <1>3, <2>2 DEF FindCurrent, TInv, TypeOK, Goto, Places
    <3>2. Fits(place, local'[q])
      BY <2>2 DEF Goto, TInv, LocalsFit, Fits, Building
    <3> QED BY <1>0, <2>2, <3>1, <3>2, RowsStay, StepTypes DEF Goto, TypeOK
  <2> QED BY <1>3, <2>1, <2>2 DEF FindCurrent
<1>4. CASE FindPrevious(q)
  <2>1. TypeOK' /\ rows' = rows /\ local' = local /\ pc' = [pc EXCEPT ![q] = "check"]
    <3>0. answer \in [Requests -> Answers] /\ local[q].lastBuilt \in SomeRelease /\ rows \subseteq Row
      BY DEF Answers, TInv, TypeOK, Locals
    <3>1. answer' \in [Requests -> Answers]
      <4>1. ASSUME NEW row \in ReadyRowsOf(local[q].lastBuilt),
                   Return(q, Answer(row.version, local[q].lastBuilt))
            PROVE  answer' \in [Requests -> Answers]
        <5>1. Answer(row.version, local[q].lastBuilt) \in Answers
          BY <3>0 DEF Answer, Answers, ReadyRowsOf, RowsOf, Row
        <5> QED BY <3>0, <4>1, <5>1 DEF Return
      <4> QED BY <1>4, <3>0, <4>1 DEF FindPrevious
    <3> QED BY <1>4, <3>1 DEF FindPrevious, TInv, TypeOK, Goto, Places, Answers
  <2>2. Fits("check", local'[q])
    BY <1>4, <2>1 DEF FindPrevious, Goto, TInv, LocalsFit, Fits, Building
  <2> QED BY <1>0, <2>1, <2>2, RowsStay, StepTypes DEF TypeOK, Places
<1> QED BY <1>1, <1>2, <1>3, <1>4 DEF Generate

(* A request goes on, with other locals but the same release.              *)
Follows(place, old, l) ==
    /\ l.release = old.release
    /\ place \in Building \cup {"insert", "list", "publish", "key"} => l.version \in Versions
    /\ place = "insert" => l.version <= Cardinality(Past) + 1
LEMMA GoOnTypes ==
  ASSUME TInv, [Next]_vars, NEW q \in Requests, NEW from \in Places, NEW place \in Places,
         Goto(q, from, place), from \notin {"idle", "done"},
         \E l \in Locals : local' = [local EXCEPT ![q] = l] /\ Follows(place, local[q], l),
         \A row \in rows' : row \in Row /\ row.version <= Cardinality(Past'),
         answer' = answer, metadata' \subseteq Versions, slow' = slow, current' = current,
         object' \in [Versions -> [Kinds -> Content]], key' \in SomeRelease
  PROVE  TInv'
<1>0. PICK l \in Locals : local' = [local EXCEPT ![q] = l] /\ Follows(place, local[q], l)
  OBVIOUS
<1>1. TypeOK'
  BY <1>0 DEF TInv, TypeOK, Goto
<1>2. local' \in [Requests -> Locals] /\ local'[q] = l /\ \A x \in Requests \ {q} : local'[x] = local[x]
  BY <1>0 DEF TInv, TypeOK
<1>3. l.release \in Releases
  BY <1>0 DEF TInv, LocalsFit, Fits, Goto, Follows
<1> QED BY <1>0, <1>1, <1>2, <1>3, StepTypes DEF Goto, Fits, Follows

(* The next version exists.                                                *)
LEMMA NextVersion ==
  ASSUME TInv, NEW q \in Requests, pc[q] = "latest"
  PROVE  LET v == 1 + Max({row.version : row \in rows} \cup {0}) IN
         /\ v \in Versions /\ v <= Cardinality(Past) + 1
         /\ \A row \in rows : row.version < v
<1> DEFINE S == {row.version : row \in rows} \cup {0}
<1>1. Cardinality(Past) \in Nat /\ Cardinality(Past) + 1 <= Cardinality(Requests)
  BY PastCount DEF TInv, Past, Building
<1>2. S \subseteq Nat /\ S # {} /\ \A x \in S : x <= Cardinality(Past)
  BY <1>1 DEF TInv, TypeOK, VersionsCounted, Row, Versions
<1>3. Max(S) \in S /\ \A x \in S : x <= Max(S)
  BY <1>1, <1>2, MaxBounded
<1>4. Max(S) \in Nat /\ Max(S) <= Cardinality(Past)
  BY <1>2, <1>3
<1>5. \A row \in rows : row.version \in Nat /\ row.version <= Max(S)
  BY <1>2, <1>3
<1> HIDE DEF S
<1>6. 1 + Max(S) \in Versions /\ 1 + Max(S) <= Cardinality(Past) + 1
      /\ \A row \in rows : row.version < 1 + Max(S)
  BY <1>1, <1>4, <1>5, Constants DEF Versions
<1> QED BY <1>6 DEF S

(* Each field a step sets, and what it leaves alone.                       *)
LEMMA SetLocals ==
  ASSUME NEW l \in Locals
  PROVE  /\ \A v \in Versions \cup {0} :
              /\ [l EXCEPT !.version = v] \in Locals
              /\ [l EXCEPT !.version = v].release = l.release
              /\ [l EXCEPT !.version = v].version = v
         /\ \A ids \in SUBSET Requests :
              /\ [l EXCEPT !.seen = ids] \in Locals
              /\ [l EXCEPT !.seen = ids].release = l.release
              /\ [l EXCEPT !.seen = ids].version = l.version
         /\ \A kinds \in SUBSET Kinds :
              /\ [l EXCEPT !.uploads = kinds] \in Locals
              /\ [l EXCEPT !.uploads = kinds].release = l.release
              /\ [l EXCEPT !.uploads = kinds].version = l.version
         /\ \A vs \in SUBSET Versions :
              /\ [l EXCEPT !.listed = vs] \in Locals
              /\ [l EXCEPT !.listed = vs].release = l.release
              /\ [l EXCEPT !.listed = vs].version = l.version
BY DEF Locals

LEMMA FindTypes ==
  ASSUME TInv, [Next]_vars, NEW q \in Requests, NEW from \in {"check", "conflict"},
         FindReady(q, from),
         UNCHANGED <<slow, current, key, rows, object, metadata, answer>>
  PROVE  TInv'
<1>1. PICK row \in ReadyRowsOf(local[q].release) :
        Goto(q, from, "key") /\ local' = [local EXCEPT ![q].version = row.version]
  BY DEF FindReady
<1>2. row.version \in Versions /\ local[q] \in Locals
  BY DEF ReadyRowsOf, RowsOf, TInv, TypeOK, Row
<1>3. \E l \in Locals : local' = [local EXCEPT ![q] = l] /\ Follows("key", local[q], l)
  BY <1>1, <1>2, SetLocals DEF Follows
<1>4. "key" \in Places /\ from \in Places /\ from \notin {"idle", "done"}
  BY DEF Places
<1>5. \A x \in rows' : x \in Row /\ x.version <= Cardinality(Past')
  BY RowsStay
<1>6. /\ metadata' \subseteq Versions /\ object' \in [Versions -> [Kinds -> Content]]
      /\ key' \in SomeRelease /\ answer' = answer /\ slow' = slow /\ current' = current
  BY DEF TInv, TypeOK
<1> QED BY <1>1, <1>3, <1>4, <1>5, <1>6, GoOnTypes

(* The same locals, on the way to a place that needs no version.           *)
LEMMA SameLocals ==
  ASSUME TInv, NEW q \in Requests, local' = local, NEW place,
         place \notin Building \cup {"insert", "list", "publish", "key"} \/ local[q].version \in Versions,
         place # "insert"
  PROVE  \E l \in Locals : local' = [local EXCEPT ![q] = l] /\ Follows(place, local[q], l)
<1>1. local = [local EXCEPT ![q] = local[q]] /\ local[q] \in Locals
  BY DEF TInv, TypeOK
<1> QED BY <1>1 DEF Follows

LEMMA ClaimTypes ==
  ASSUME TInv, NEW q \in Requests, Claim(q)
  PROVE  TInv'
<1>0. [Next]_vars
  BY DEF Next
<1>1. local[q] \in Locals /\ metadata \subseteq Versions
      /\ object \in [Versions -> [Kinds -> Content]] /\ key \in SomeRelease
  BY DEF TInv, TypeOK
<1> USE DEF Places, Building
<1>2. CASE Check(q)
  <2>1. CASE FindReady(q, "check")
    BY <1>0, <1>2, <2>1, FindTypes DEF Check
  <2>2. ASSUME NEW row \in rows, Goto(q, "check", "stale"),
               local' = [local EXCEPT ![q].seen = {row.id}]
        PROVE  TInv'
    <3>1. {row.id} \in SUBSET Requests
      BY DEF TInv, TypeOK, Row
    <3>2. \E l \in Locals : local' = [local EXCEPT ![q] = l] /\ Follows("stale", local[q], l)
      BY <1>1, <2>2, <3>1, SetLocals DEF Follows
    <3>3. \A x \in rows' : x \in Row /\ x.version <= Cardinality(Past')
      BY <1>0, <1>2, RowsStay DEF Check
    <3> QED BY <1>0, <1>1, <1>2, <2>2, <3>2, <3>3, GoOnTypes DEF Check
  <2>3. CASE Goto(q, "check", "latest") /\ UNCHANGED local
    <3>1. \E l \in Locals : local' = [local EXCEPT ![q] = l] /\ Follows("latest", local[q], l)
      BY <2>3, SameLocals
    <3> QED BY <1>0, <1>1, <1>2, <2>3, <3>1, RowsStay, GoOnTypes DEF Check
  <2> QED BY <1>2, <2>1, <2>2, <2>3 DEF Check, RowsOf
<1>3. CASE DeleteStale(q)
  <2>1. \E l \in Locals : local' = [local EXCEPT ![q] = l] /\ Follows("latest", local[q], l)
    BY <1>1, <1>3, SetLocals DEF DeleteStale, Follows
  <2>2. rows' \subseteq rows
    BY <1>3 DEF DeleteStale
  <2>3. \A x \in rows' : x \in Row /\ x.version <= Cardinality(Past')
    BY <1>0, <2>2, RowsStay
  <2> QED BY <1>0, <1>1, <1>3, <2>1, <2>3, GoOnTypes DEF DeleteStale
<1>4. CASE Latest(q)
  <2> DEFINE v == 1 + Max({row.version : row \in rows} \cup {0})
  <2>1. v \in Versions /\ v <= Cardinality(Past) + 1
    BY <1>4, NextVersion DEF Latest, Goto
  <2>2. local' = [local EXCEPT ![q].version = v]
    BY <1>4 DEF Latest
  <2> HIDE DEF v
  <2>3. \E l \in Locals : local' = [local EXCEPT ![q] = l] /\ Follows("insert", local[q], l)
    BY <1>1, <2>1, <2>2, SetLocals DEF Follows
  <2> QED BY <1>0, <1>1, <1>4, <2>3, RowsStay, GoOnTypes DEF Latest
<1>5. CASE Insert(q)
  <2>1. CASE /\ Goto(q, "insert", "conflict") /\ local' = [local EXCEPT ![q].version = 0]
             /\ UNCHANGED rows
    <3>1. \E l \in Locals : local' = [local EXCEPT ![q] = l] /\ Follows("conflict", local[q], l)
      BY <1>1, <2>1, SetLocals DEF Follows
    <3> QED BY <1>0, <1>1, <1>5, <2>1, <3>1, RowsStay, GoOnTypes DEF Insert
  <2>2. CASE Conflicts(q) = {}
    <3> DEFINE row == [id |-> q, release |-> local[q].release, version |-> local[q].version,
                       status |-> "BUILDING", old |-> FALSE]
    <3>1. rows' = rows \cup {row} /\ local' = [local EXCEPT ![q].uploads = Uploads(q)]
      BY <1>5, <2>2 DEF Insert
    <3>0. PICK place \in {"upload", "ready"} : Goto(q, "insert", place)
      BY <1>5, <2>2 DEF Insert
    <3>a. Uploads(q) \in SUBSET Kinds
      BY DEF Uploads
    <3>2. local[q].release \in Releases /\ local[q].version \in Versions
          /\ local[q].version <= Cardinality(Past) + 1
      BY <3>0 DEF Goto, TInv, LocalsFit, Fits, VersionsCounted
    <3>3. row \in Row /\ row.version = local[q].version
      BY <3>2 DEF Row
    <3>4. \E l \in Locals : local' = [local EXCEPT ![q] = l] /\ Follows(place, local[q], l)
      BY <1>1, <3>1, <3>2, <3>a, SetLocals DEF Follows
    <3>5. Cardinality(Past) + 1 <= Cardinality(Past')
      <4>1. q \notin Past /\ q \in Past'
        BY <3>0 DEF Goto, Past, TInv, TypeOK
      <4>2. IsFiniteSet(Past) /\ Past \cup {q} \subseteq Past' /\ IsFiniteSet(Past')
        BY <1>0, <4>1, PastGrows, PastCount DEF TInv
      <4>3. Cardinality(Past \cup {q}) = Cardinality(Past) + 1
        BY <4>1, <4>2, FS_AddElement
      <4> QED BY <4>2, <4>3, FS_Subset
    <3>6. \A x \in rows' : x \in Row /\ x.version <= Cardinality(Past')
      <4>1. Cardinality(Past) \in Nat /\ Cardinality(Past') \in Nat
        BY <1>0, PastGrows DEF TInv
      <4>2. \A x \in rows : x \in Row /\ x.version \in Nat /\ x.version <= Cardinality(Past)
        BY DEF TInv, TypeOK, VersionsCounted, Row, Versions
      <4>3. local[q].version \in Nat
        BY <3>2 DEF Versions
      <4> HIDE DEF row
      <4> QED BY <3>1, <3>2, <3>3, <3>5, <4>1, <4>2, <4>3
    <3> HIDE DEF row
    <3> QED BY <1>0, <1>1, <1>5, <3>0, <3>4, <3>6, GoOnTypes DEF Insert
  <2> QED BY <1>5, <2>1, <2>2 DEF Insert
<1>6. CASE Recheck(q)
  <2>1. CASE FindReady(q, "conflict")
    BY <1>0, <1>6, <2>1, FindTypes DEF Recheck
  <2>2. CASE Goto(q, "conflict", "latest") /\ UNCHANGED local
    <3>1. \E l \in Locals : local' = [local EXCEPT ![q] = l] /\ Follows("latest", local[q], l)
      BY <2>2, SameLocals
    <3> QED BY <1>0, <1>1, <1>6, <2>2, <3>1, RowsStay, GoOnTypes DEF Recheck
  <2> QED BY <1>6, <2>1, <2>2 DEF Recheck
<1>7. CASE GiveUp(q)
  <2>1. Failure \in Answers
    BY DEF Failure, Answers, SomeRelease
  <2> QED BY <1>0, <1>1, <1>7, <2>1, EndTypes DEF GiveUp
<1> QED BY <1>2, <1>3, <1>4, <1>5, <1>6, <1>7 DEF Claim

LEMMA ProduceTypes ==
  ASSUME TInv, NEW q \in Requests, Produce(q)
  PROVE  TInv'
<1>0. [Next]_vars
  BY DEF Next
<1>1. local[q] \in Locals /\ metadata \subseteq Versions
      /\ object \in [Versions -> [Kinds -> Content]] /\ key \in SomeRelease
      /\ Failure \in Answers
  BY DEF TInv, TypeOK, Failure, Answers, SomeRelease
<1> USE DEF Places, Building
<1>2. CASE Upload(q)
  <2> DEFINE kind == NextKind(local[q].uploads)
             left == local[q].uploads \ {kind}
  <2>1. PICK c \in Served(q) :
          /\ object' = [object EXCEPT ![local[q].version][kind] =
                [files |-> local[q].release, config |-> c]]
          /\ local' = [local EXCEPT ![q].uploads = left, ![q].config = IF left = {} THEN 0 ELSE c]
    BY <1>2 DEF Upload
  <2>2. local[q].version \in Versions /\ local[q].release \in Releases
    BY <1>2 DEF Upload, Goto, TInv, LocalsFit, Fits
  <2>3. c \in SomeRelease /\ left \in SUBSET Kinds
    BY <1>1, Constants DEF Served, Locals, SomeRelease
  <2>4. object' \in [Versions -> [Kinds -> Content]]
    <3> DEFINE packed == [files |-> local[q].release, config |-> c]
    <3>1. packed \in Content
      BY <2>2, <2>3 DEF Content, SomeRelease
    <3> HIDE DEF packed
    <3> QED BY <1>1, <2>1, <3>1 DEF packed
  <2>5. PICK place \in {"ready", "upload"} : Goto(q, "upload", place)
    BY <1>2 DEF Upload, AfterUpload
  <2> DEFINE config == IF left = {} THEN 0 ELSE c
  <2>6. config \in SomeRelease /\ local' = [local EXCEPT ![q].uploads = left, ![q].config = config]
    BY <2>1, <2>3 DEF SomeRelease
  <2> HIDE DEF left, kind, config
  <2>7. \E l \in Locals : local' = [local EXCEPT ![q] = l] /\ Follows(place, local[q], l)
    <3>1. PICK l : l = [local[q] EXCEPT !.uploads = left, !.config = config]
      OBVIOUS
    <3>2. l \in Locals /\ l.release = local[q].release /\ l.version = local[q].version
      BY <1>1, <2>3, <2>6, <3>1 DEF Locals
    <3>3. local' = [local EXCEPT ![q] = l]
      BY <2>6, <3>1
    <3> QED BY <2>2, <3>2, <3>3 DEF Follows
  <2> QED BY <1>0, <1>1, <1>2, <2>4, <2>5, <2>7, RowsStay, GoOnTypes DEF Upload
<1>3. CASE UploadFails(q)
  <2>1. local[q].version \in Versions
    BY <1>3 DEF UploadFails, Goto, TInv, LocalsFit, Fits
  <2>2. \E l \in Locals : local' = [local EXCEPT ![q] = l] /\ Follows("cleanup", local[q], l)
    <3>1. PICK l : l = [local[q] EXCEPT !.uploads = {}, !.config = 0]
      OBVIOUS
    <3>2. l \in Locals /\ l.release = local[q].release /\ l.version = local[q].version
      <4>1. {} \in SUBSET Kinds /\ 0 \in SomeRelease
        BY DEF SomeRelease
      <4> QED BY <1>1, <3>1, <4>1 DEF Locals
    <3>3. local' = [local EXCEPT ![q] = l]
      BY <1>3, <3>1 DEF UploadFails
    <3> QED BY <2>1, <3>2, <3>3 DEF Follows
  <2> QED BY <1>0, <1>1, <1>3, <2>2, RowsStay, GoOnTypes DEF UploadFails
<1>4. CASE CleanUp(q)
  <2>1. rows' \subseteq rows
    BY <1>4 DEF CleanUp
  <2> QED BY <1>0, <1>1, <1>4, <2>1, EndTypes DEF CleanUp
<1>5. CASE MarkReady(q)
  <2>1. CASE End(q, "ready", Failure) /\ UNCHANGED rows
    BY <1>0, <1>1, <1>5, <2>1, EndTypes DEF MarkReady
  <2>2. CASE /\ Goto(q, "ready", "list") /\ UNCHANGED <<local, answer>>
             /\ rows' = (rows \ Claimed(q)) \cup {[row EXCEPT !.status = "READY"] : row \in Claimed(q)}
    <3>1. local[q].version \in Versions
      BY <2>2 DEF Goto, TInv, LocalsFit, Fits
    <3>2. \E l \in Locals : local' = [local EXCEPT ![q] = l] /\ Follows("list", local[q], l)
      BY <2>2, <3>1, SameLocals
    <3>3. ASSUME NEW row \in Row
          PROVE  [row EXCEPT !.status = "READY"] \in Row
                 /\ [row EXCEPT !.status = "READY"].version = row.version
      BY DEF Row
    <3>4. Claimed(q) \subseteq rows /\ rows \subseteq Row
      BY DEF Claimed, RowsOf, TInv, TypeOK
    <3>5. \A x \in rows : x.version <= Cardinality(Past')
      <4>1. Cardinality(Past) \in Nat /\ Cardinality(Past') \in Nat
            /\ Cardinality(Past) <= Cardinality(Past')
        BY <1>0, PastGrows DEF TInv
      <4> QED BY <4>1 DEF TInv, TypeOK, VersionsCounted, Row, Versions
    <3>6. \A x \in rows' : x \in Row /\ x.version <= Cardinality(Past')
      BY <2>2, <3>3, <3>4, <3>5
    <3> QED BY <1>0, <1>1, <1>5, <2>2, <3>2, <3>6, GoOnTypes DEF MarkReady
  <2> QED BY <1>5, <2>1, <2>2 DEF MarkReady
<1> QED BY <1>2, <1>3, <1>4, <1>5 DEF Produce

LEMMA PublishTypes ==
  ASSUME TInv, NEW q \in Requests, Publish(q)
  PROVE  TInv'
<1>0. [Next]_vars
  BY DEF Next
<1>1. local[q] \in Locals /\ metadata \subseteq Versions
      /\ object \in [Versions -> [Kinds -> Content]] /\ key \in SomeRelease
      /\ Failure \in Answers
  BY DEF TInv, TypeOK, Failure, Answers, SomeRelease
<1>2. pc[q] \in {"list", "publish", "key"} =>
        local[q].version \in Versions /\ local[q].release \in Releases
  BY DEF TInv, LocalsFit, Fits
<1> USE DEF Places, Building
<1>3. CASE ReadMetadata(q)
  <2>1. CASE End(q, "list", Failure)
    BY <1>0, <1>1, <1>3, <2>1, EndTypes DEF ReadMetadata
  <2>2. ASSUME Goto(q, "list", "publish"), answer' = answer, NEW found \in Existing,
               local' = [local EXCEPT ![q].listed = found]
        PROVE  TInv'
    <3>1. found \in SUBSET Versions
      BY <1>1 DEF Existing
    <3>2. \E l \in Locals : local' = [local EXCEPT ![q] = l] /\ Follows("publish", local[q], l)
      BY <1>1, <1>2, <2>2, <3>1, SetLocals DEF Follows, Goto
    <3> QED BY <1>0, <1>1, <1>3, <2>2, <3>2, RowsStay, GoOnTypes DEF ReadMetadata
  <2> QED BY <1>3, <2>1, <2>2 DEF ReadMetadata
<1>4. CASE WriteMetadata(q)
  <2>1. CASE End(q, "publish", Failure) /\ UNCHANGED metadata
    BY <1>0, <1>1, <1>4, <2>1, EndTypes DEF WriteMetadata
  <2>2. CASE /\ Goto(q, "publish", "key") /\ UNCHANGED answer
             /\ metadata' = local[q].listed \cup {local[q].version}
             /\ local' = [local EXCEPT ![q].listed = {}]
    <3>1. metadata' \subseteq Versions
      BY <1>1, <1>2, <2>2 DEF Goto, Locals
    <3>2. \E l \in Locals : local' = [local EXCEPT ![q] = l] /\ Follows("key", local[q], l)
      BY <1>1, <1>2, <2>2, SetLocals DEF Follows, Goto
    <3> QED BY <1>0, <1>1, <1>4, <2>2, <3>1, <3>2, RowsStay, GoOnTypes DEF WriteMetadata
  <2> QED BY <1>4, <2>1, <2>2 DEF WriteMetadata
<1>5. CASE UpdateKey(q)
  <2>1. Answer(local[q].version, local[q].release) \in Answers /\ key' \in SomeRelease
    BY <1>1, <1>5 DEF UpdateKey, Answer, Answers, Locals
  <2> QED BY <1>0, <1>5, <2>1, EndTypes DEF UpdateKey
<1> QED BY <1>3, <1>4, <1>5 DEF Publish

LEMMA NextTypes == TInv /\ [Next]_vars => TInv'
<1> SUFFICES ASSUME TInv, [Next]_vars PROVE TInv'
  OBVIOUS
<1>1. ASSUME NEW q \in Requests, Crash(q) PROVE TInv'
  <2>1. Failure \in Answers /\ key \in SomeRelease
    BY DEF Failure, Answers, TInv, TypeOK, SomeRelease
  <2> QED BY <1>1, <2>1, EndTypes DEF Crash
<1> QED BY <1>1, OthersKeepTypes, GenerateTypes, ClaimTypes, ProduceTypes, PublishTypes DEF Next

(* Every variable keeps its type: in particular, the versions that are     *)
(* claimed, one more than the latest, never pass the number of requests.   *)
THEOREM BuildTypeOK == Spec => []TypeOK
<1>1. Spec => []TInv
  BY InitTypes, NextTypes, PTL DEF Spec
<1>2. TInv => TypeOK
  BY DEF TInv
<1> QED BY <1>1, <1>2, PTL

----------------------------------------------------------------------------
(* The table is safe while no live build is slow.                          *)

(* A request moves: every other one stays where it is.                     *)
Moves(q, place) ==
    /\ pc' = [pc EXCEPT ![q] = place] /\ pc[q] # "done"
    /\ \A x \in Requests \ {q} : local'[x] = local[x] /\ answer'[x] = answer[x]

(* A request with a row goes on to where the row allows it to be.          *)
Along(from, place) ==
    /\ from \in Building => place \in Building \cup {"done"}
    /\ from \in {"list", "publish", "key"} => place \in {"list", "publish", "key", "done"}

(* A move that reads the table at most.                                    *)
LEMMA TableStays ==
  ASSUME TInv, Table, NEW q \in Requests, NEW place, Moves(q, place), Along(pc[q], place),
         rows' = rows, object' = object,
         place \in Building => pc[q] \in Building /\ place = "cleanup"
            /\ local'[q].release = local[q].release /\ local'[q].version = local[q].version,
         \A id \in local'[q].seen :
            pc[id] = "done" /\ \A row \in rows : row.id = id => row.status = "BUILDING"
  PROVE  Table'
<1> USE DEF Moves, Along, Building
<1>0. pc \in [Requests -> Places] /\ rows \subseteq Row
  BY DEF TInv, TypeOK
<1>1. RowsApart'
  BY DEF Table, RowsApart
<1>2. RowPlaces'
  BY <1>0 DEF Table, RowPlaces, Row
<1>3. OwnRow'
  BY <1>0 DEF Table, OwnRow, Own
<1>4. Uploaded'
  BY <1>0 DEF Table, Uploaded, Holds
<1>5. SeenDead'
  BY <1>0 DEF Table, SeenDead
<1> QED BY <1>1, <1>2, <1>3, <1>4, <1>5 DEF Table, Holds

(* The rows that a build deletes or marks, by release, are its own.        *)
LEMMA ClaimedIsOwn ==
  ASSUME Table, NEW q \in Requests, pc[q] \in Building
  PROVE  \E row \in rows : Own(q, row) /\ Claimed(q) = {row}
BY DEF Table, OwnRow, Own, RowsApart, Claimed, RowsOf

(* Time passes: no row of a live build grows old while slow stays 0.       *)
LEMMA AgeTable ==
  ASSUME TInv, Table, Age, slow' = 0
  PROVE  Table'
<1>1. PICK row \in rows : /\ row.status = "BUILDING" /\ ~row.old
                          /\ slow' = IF pc[row.id] \in Building THEN slow + 1 ELSE slow
                          /\ rows' = (rows \ {row}) \cup {[row EXCEPT !.old = TRUE]}
  BY DEF Age
<1> DEFINE aged == [row EXCEPT !.old = TRUE]
<1>2. /\ aged.id = row.id /\ aged.release = row.release /\ aged.version = row.version
      /\ aged.status = "BUILDING" /\ aged.old
  BY <1>1 DEF TInv, TypeOK, Row
<1>3. pc[row.id] = "done"
  BY <1>1 DEF TInv, TypeOK, Table, RowPlaces
<1>4. rows' = (rows \ {row}) \cup {aged} /\ UNCHANGED <<object, pc, local>>
  BY <1>1 DEF Age
<1> HIDE DEF aged
<1>5. RowsApart'
  BY <1>2, <1>4 DEF Table, RowsApart
<1>6. RowPlaces'
  BY <1>2, <1>3, <1>4 DEF Table, RowPlaces
<1>7. OwnRow'
  BY <1>2, <1>3, <1>4 DEF Table, OwnRow, Own, Building
<1>8. Uploaded'
  BY <1>4 DEF Table, Uploaded, Holds
<1>9. SeenDead'
  BY <1>1, <1>2, <1>4 DEF Table, SeenDead
<1> QED BY <1>2, <1>4, <1>5, <1>6, <1>7, <1>8, <1>9 DEF Table, Holds

(* A take-over deletes the stale row: of a dead build, and not READY.      *)
LEMMA DeleteTable ==
  ASSUME TInv, Table, NEW q \in Requests, DeleteStale(q), rows' = rows \ Stale(q)
  PROVE  Table'
<1> USE DEF Building
<1>1. /\ pc[q] = "stale" /\ pc' = [pc EXCEPT ![q] = "latest"] /\ pc \in [Requests -> Places]
      /\ object' = object /\ rows \subseteq Row
  BY DEF DeleteStale, Goto, TInv, TypeOK
<1>2. local[q] \in Locals /\ local \in [Requests -> Locals]
  BY DEF TInv, TypeOK
<1>3. local'[q].seen = {} /\ \A x \in Requests \ {q} : local'[x] = local[x]
  BY <1>2 DEF DeleteStale, Locals
<1>4. \A row \in rows \ rows' : row.status = "BUILDING" /\ pc[row.id] = "done"
  BY DEF Stale, Table, SeenDead
<1>5. RowsApart'
  BY DEF Table, RowsApart
<1>6. RowPlaces'
  BY <1>1 DEF Table, RowPlaces, Row
<1>7. OwnRow'
  BY <1>1, <1>3, <1>4 DEF Table, OwnRow, Own
<1>8. Uploaded'
  BY <1>1, <1>3 DEF Table, Uploaded, Holds
<1>9. SeenDead'
  BY <1>1, <1>3 DEF Table, SeenDead
<1> QED BY <1>1, <1>5, <1>6, <1>7, <1>8, <1>9 DEF Table, Holds

(* A claim: the row is new in its request, its release and its version.    *)
LEMMA InsertTable ==
  ASSUME TInv, Table, NEW q \in Requests, Insert(q), Conflicts(q) = {}
  PROVE  Table'
<1> USE DEF Building
<1> DEFINE row == [id |-> q, release |-> local[q].release, version |-> local[q].version,
                   status |-> "BUILDING", old |-> FALSE]
<1>1. /\ pc[q] = "insert" /\ pc \in [Requests -> Places]
      /\ object' = object /\ rows' = rows \cup {row} /\ rows \subseteq Row
      /\ local' = [local EXCEPT ![q].uploads = Uploads(q)]
  BY DEF Insert, Goto, TInv, TypeOK
<1>p. PICK place \in {"upload", "ready"} :
        /\ pc' = [pc EXCEPT ![q] = place]
        /\ place = "upload" => Uploads(q) = Kinds
        /\ place = "ready" => local[q].release = Default
  BY DEF Insert, Goto, Uploads, Kinds
<1>2. local[q] \in Locals /\ local \in [Requests -> Locals]
  BY DEF TInv, TypeOK
<1>3. /\ local'[q].release = local[q].release /\ local'[q].version = local[q].version
      /\ local'[q].seen = local[q].seen /\ local'[q].uploads = Uploads(q)
      /\ \A x \in Requests \ {q} : local'[x] = local[x]
  BY <1>1, <1>2 DEF Locals
<1>4. \A x \in rows : x.release # local[q].release /\ x.version # local[q].version
  BY DEF Conflicts
<1>5. \A x \in rows : x.id # q
  BY <1>1 DEF Table, RowPlaces, Row
<1>6. /\ row.id = q /\ row.release = local[q].release /\ row.version = local[q].version
      /\ row.status = "BUILDING" /\ ~row.old
  OBVIOUS
<1> HIDE DEF row
<1>7. RowsApart'
  BY <1>1, <1>p, <1>4, <1>5, <1>6 DEF Table, RowsApart
<1>8. RowPlaces'
  BY <1>1, <1>p, <1>6 DEF Table, RowPlaces, Row
<1>9. OwnRow'
  BY <1>1, <1>p, <1>3, <1>6 DEF Table, OwnRow, Own
<1>10. Uploaded'
  <2>1. place = "upload" => HalfDone(object'[local'[q].version], local'[q])
    BY <1>p, <1>3 DEF HalfDone
  <2>2. place = "ready" => local'[q].release = Default
    BY <1>p, <1>3
  <2>3. ASSUME NEW p \in Requests, p # q
        PROVE  pc'[p] = pc[p] /\ local'[p] = local[p]
    BY <1>1, <1>p, <1>3, <2>3
  <2>4. pc'[q] = place
    BY <1>1, <1>p
  <2> QED BY <1>1, <1>p, <2>1, <2>2, <2>3, <2>4 DEF Table, Uploaded, Holds
<1>11. SeenDead'
  BY <1>1, <1>p, <1>3, <1>6 DEF Table, SeenDead
<1> QED BY <1>1, <1>6, <1>7, <1>8, <1>9, <1>10, <1>11 DEF Table, Holds

(* An upload writes to the version of the build's own row.                 *)
LEMMA UploadTable ==
  ASSUME TInv, Table, NEW q \in Requests, Upload(q)
  PROVE  Table'
<1> USE DEF Building
<1> DEFINE kind == NextKind(local[q].uploads)
           left == local[q].uploads \ {kind}
           v    == local[q].version
<1>1. PICK place \in {"ready", "upload"} :
        /\ pc[q] = "upload" /\ pc' = [pc EXCEPT ![q] = place]
        /\ place = "ready" => left = {}
        /\ place = "upload" => left # {}
  BY DEF Upload, AfterUpload, Goto
<1>2. PICK c \in Served(q) :
        /\ object' = [object EXCEPT ![v][kind] = [files |-> local[q].release, config |-> c]]
        /\ local' = [local EXCEPT ![q].uploads = left, ![q].config = IF left = {} THEN 0 ELSE c]
  BY DEF Upload
<1> DEFINE packed == [files |-> local[q].release, config |-> c]
<1>3. /\ local \in [Requests -> Locals] /\ pc \in [Requests -> Places] /\ rows \subseteq Row
      /\ object \in [Versions -> [Kinds -> Content]] /\ v \in Versions
      /\ kind \in Kinds /\ left \subseteq Kinds /\ rows' = rows
  BY <1>1 DEF Upload, TInv, TypeOK, LocalsFit, Fits, NextKind, Kinds, Locals
<1>u. HalfDone(object[v], local[q])
  BY <1>1 DEF Table, Uploaded
<1>4. /\ local'[q].release = local[q].release /\ local'[q].version = v
      /\ local'[q].seen = local[q].seen /\ local'[q].uploads = left
      /\ local'[q].config = IF left = {} THEN 0 ELSE c
      /\ \A x \in Requests \ {q} : local'[x] = local[x]
  BY <1>2, <1>3 DEF Locals
<1>5. PICK own \in rows : Own(q, own)
  BY <1>1 DEF Table, OwnRow
<1>6. /\ \A k \in Kinds \ {kind} : object'[v][k] = object[v][k]
      /\ object'[v][kind] = packed
      /\ \A u \in Versions \ {v} : object'[u] = object[u]
  BY <1>2, <1>3
(* The zip is first, then the aar with the same configuration.             *)
<1>b. \/ left = {"aar"} /\ c \in Configs /\ object'[v]["zip"] = packed
      \/ left = {} /\ c \in Configs /\ \A k \in Kinds : object'[v][k] = packed
  <2>1. CASE local[q].uploads = Kinds
    <3>1. kind = "zip" /\ left = {"aar"} /\ c \in Configs
      BY <2>1 DEF NextKind, Kinds, Served
    <3> QED BY <1>6, <3>1
  <2>2. CASE /\ local[q].uploads = {"aar"} /\ local[q].config \in Configs
             /\ object[v]["zip"] = [files |-> local[q].release, config |-> local[q].config]
    <3>1. kind = "aar" /\ left = {} /\ c = local[q].config
      BY <2>2 DEF NextKind, Kinds, Served
    <3>2. object'[v]["zip"] = packed
      BY <1>6, <2>2, <3>1 DEF Kinds
    <3> QED BY <1>6, <2>2, <3>1, <3>2 DEF Kinds
  <2> QED BY <1>u, <2>1, <2>2 DEF HalfDone
<1>h. /\ place = "upload" => HalfDone(object'[v], local'[q])
      /\ place = "ready" => Complete(object'[v], local[q].release)
  BY <1>1, <1>4, <1>b DEF HalfDone, Complete
<1> HIDE DEF kind, left, v, packed
<1>7. RowsApart'
  BY <1>3 DEF Table, RowsApart
<1>8. RowPlaces'
  BY <1>1, <1>3, <1>5 DEF Table, RowPlaces, Own, Row
<1>9. OwnRow'
  BY <1>1, <1>3, <1>4 DEF Table, OwnRow, Own, v
<1>10. \A row \in rows : row # own => row.version # v
  BY <1>5 DEF Table, RowsApart, Own, v
<1>11. Uploaded'
  <2>1. ASSUME NEW p \in Requests, p # q, pc[p] \in {"upload", "ready"}
        PROVE  local[p].version # v /\ local[p].version \in Versions
    <3>1. PICK row \in rows : Own(p, row)
      BY <2>1 DEF Table, OwnRow
    <3>2. row # own
      BY <2>1, <1>5, <3>1 DEF Own
    <3> QED BY <2>1, <1>10, <3>1, <3>2 DEF Own, TInv, LocalsFit, Fits
  <2>2. ASSUME NEW p \in Requests, p # q, pc[p] \in {"upload", "ready"}
        PROVE  object'[local'[p].version] = object[local[p].version] /\ local'[p] = local[p]
    BY <1>4, <1>6, <2>1, <2>2
  <2> QED BY <1>1, <1>3, <1>4, <1>h, <2>2 DEF Table, Uploaded, Holds
<1>12. SeenDead'
  BY <1>1, <1>3, <1>4 DEF Table, SeenDead
<1>13. \A row \in rows' : row.status = "READY" => Holds(row.version, row.release)'
  BY <1>3, <1>5, <1>6, <1>10 DEF Table, Holds, Own, Row
<1> QED BY <1>7, <1>8, <1>9, <1>11, <1>12, <1>13 DEF Table

(* A failed build deletes its own row and ends.                            *)
LEMMA CleanUpTable ==
  ASSUME TInv, Table, NEW q \in Requests, CleanUp(q), rows' = rows \ Claimed(q)
  PROVE  Table'
<1> USE DEF Building
<1>1. /\ pc[q] = "cleanup" /\ pc' = [pc EXCEPT ![q] = "done"] /\ pc \in [Requests -> Places]
      /\ object' = object /\ rows \subseteq Row
  BY DEF CleanUp, End, Goto, TInv, TypeOK
<1>2. local'[q] = Blank /\ \A x \in Requests \ {q} : local'[x] = local[x]
  BY DEF CleanUp, End, TInv, TypeOK
<1>3. PICK own \in rows : Own(q, own) /\ Claimed(q) = {own}
  BY <1>1, ClaimedIsOwn
<1>4. RowsApart'
  BY DEF Table, RowsApart
<1>5. RowPlaces'
  BY <1>1 DEF Table, RowPlaces, Row
<1>6. OwnRow'
  BY <1>1, <1>2, <1>3 DEF Table, OwnRow, Own
<1>7. Uploaded'
  BY <1>1, <1>2 DEF Table, Uploaded, Holds
<1>8. SeenDead'
  BY <1>1, <1>2, BlankTypes DEF Table, SeenDead
<1> QED BY <1>1, <1>4, <1>5, <1>6, <1>7, <1>8 DEF Table, Holds

(* A build marks its own row, with every object of its version uploaded.   *)
LEMMA MarkTable ==
  ASSUME TInv, Table, NEW q \in Requests, MarkReady(q), rows' # rows
  PROVE  Table'
<1> USE DEF Building
<1>1. /\ pc[q] = "ready" /\ pc' = [pc EXCEPT ![q] = "list"] /\ pc \in [Requests -> Places]
      /\ object' = object /\ rows \subseteq Row /\ local' = local
      /\ rows' = (rows \ Claimed(q)) \cup {[row EXCEPT !.status = "READY"] : row \in Claimed(q)}
  BY DEF MarkReady, Goto, TInv, TypeOK
<1>2. PICK own \in rows : Own(q, own) /\ Claimed(q) = {own}
  BY <1>1, ClaimedIsOwn
<1> DEFINE ready == [own EXCEPT !.status = "READY"]
<1>3. rows' = (rows \ {own}) \cup {ready}
  BY <1>1, <1>2
<1>4. /\ ready.id = q /\ ready.release = own.release /\ ready.version = own.version
      /\ ready.status = "READY"
  BY <1>1, <1>2 DEF Row, Own
<1> HIDE DEF ready
<1>5. RowsApart'
  BY <1>2, <1>3, <1>4 DEF Table, RowsApart, Own
<1>6. RowPlaces'
  BY <1>1, <1>2, <1>3, <1>4 DEF Table, RowsApart, RowPlaces, Own, Row
<1>7. OwnRow'
  BY <1>1, <1>2, <1>3 DEF Table, OwnRow, Own
<1>8. Uploaded'
  BY <1>1 DEF Table, Uploaded, Holds
<1>9. SeenDead'
  BY <1>1, <1>3, <1>4 DEF Table, SeenDead
<1>10. Holds(own.version, own.release)
  BY <1>1, <1>2 DEF Table, Uploaded, Own
<1> QED BY <1>1, <1>3, <1>4, <1>5, <1>6, <1>7, <1>8, <1>9, <1>10 DEF Table, Holds

LEMMA EndTable ==
  ASSUME TInv, Table, NEW q \in Requests, NEW from, from # "done", NEW a, End(q, from, a),
         rows' = rows, object' = object
  PROVE  Table'
<1>1. Moves(q, "done") /\ Along(pc[q], "done") /\ local'[q] = Blank
  BY DEF End, Goto, Return, Moves, Along, TInv, TypeOK
<1> QED BY <1>1, BlankTypes, TableStays DEF Building

LEMMA GenerateTable ==
  ASSUME TInv, Safe, NEW q \in Requests, Generate(q)
  PROVE  Table'
<1> USE DEF Safe
<1>0. local \in [Requests -> Locals] /\ pc \in [Requests -> Places]
  BY DEF TInv, TypeOK
<1>1. CASE Resolve(q)
  <2>1. PICK place \in {"current", "previous", "check"} : Goto(q, "idle", place)
    BY <1>1 DEF Resolve
  <2>2. local'[q].seen = {} /\ \A x \in Requests \ {q} : local'[x] = local[x]
    BY <1>0, <1>1 DEF Resolve, Blank
  <2>3. Moves(q, place) /\ Along(pc[q], place)
    BY <1>1, <2>1, <2>2 DEF Resolve, Goto, Moves, Along, Building
  <2> QED BY <1>1, <2>2, <2>3, TableStays DEF Resolve, Building
<1>2. CASE ResolveFails(q)
  BY <1>2, EndTable DEF ResolveFails
<1>3. CASE FindCurrent(q)
  <2>1. ASSUME NEW place \in {"check", "previous"}, Goto(q, "current", place),
               UNCHANGED <<local, answer>>
        PROVE  Table'
    <3>1. Moves(q, place) /\ Along(pc[q], place)
      BY <2>1 DEF Goto, Moves, Along, Building
    <3> QED BY <1>3, <2>1, <3>1, TableStays DEF FindCurrent, Table, SeenDead, Building
  <2> QED BY <1>3, <2>1, EndTable DEF FindCurrent
<1>4. CASE FindPrevious(q)
  <2>1. Moves(q, "check") /\ Along(pc[q], "check")
    BY <1>4 DEF FindPrevious, Return, Goto, Moves, Along, Building, TInv, TypeOK
  <2> QED BY <1>4, <2>1, TableStays DEF FindPrevious, Table, SeenDead, Building
<1> QED BY <1>1, <1>2, <1>3, <1>4 DEF Generate

(* A row that is found READY leads to the key, and is left alone.          *)
LEMMA FindTable ==
  ASSUME TInv, Table, NEW q \in Requests, NEW from \in {"check", "conflict"}, FindReady(q, from),
         UNCHANGED <<slow, current, key, rows, object, metadata, answer>>
  PROVE  Table'
<1>1. /\ local \in [Requests -> Locals] /\ Goto(q, from, "key")
      /\ \E v : local' = [local EXCEPT ![q].version = v]
  BY DEF FindReady, TInv, TypeOK
<1>2. local'[q].seen = local[q].seen /\ \A x \in Requests \ {q} : local'[x] = local[x]
  BY <1>1 DEF Locals
<1>3. Moves(q, "key") /\ Along(pc[q], "key")
  BY <1>1, <1>2 DEF Goto, Moves, Along, Building
<1> QED BY <1>2, <1>3, TableStays DEF Table, SeenDead, Building

LEMMA ClaimTable ==
  ASSUME TInv, Safe, NEW q \in Requests, Claim(q)
  PROVE  Table'
<1> USE DEF Safe
<1>0. local \in [Requests -> Locals] /\ pc \in [Requests -> Places] /\ rows \subseteq Row
  BY DEF TInv, TypeOK
<1>1. CASE Check(q)
  <2>1. CASE FindReady(q, "check")
    BY <1>1, <2>1, FindTable DEF Check
  <2>2. ASSUME NEW row \in RowsOf(local[q].release), row.status = "BUILDING", row.old,
               Goto(q, "check", "stale"), local' = [local EXCEPT ![q].seen = {row.id}]
        PROVE  Table'
    <3>1. local'[q].seen = {row.id} /\ \A x \in Requests \ {q} : local'[x] = local[x]
      BY <1>0, <2>2 DEF Locals
    <3>2. Moves(q, "stale") /\ Along(pc[q], "stale")
      BY <1>1, <2>2, <3>1 DEF Check, Goto, Moves, Along, Building
    <3>3. pc[row.id] = "done" /\ \A x \in rows : x.id = row.id => x.status = "BUILDING"
      BY <2>2 DEF RowsOf, Table, RowPlaces, RowsApart
    <3> QED BY <1>1, <2>2, <3>1, <3>2, <3>3, TableStays DEF Check, Building
  <2>3. CASE Goto(q, "check", "latest") /\ UNCHANGED local
    <3>1. Moves(q, "latest") /\ Along(pc[q], "latest")
      BY <1>1, <2>3 DEF Check, Goto, Moves, Along, Building
    <3> QED BY <1>1, <2>3, <3>1, TableStays DEF Check, Table, SeenDead, Building
  <2> QED BY <1>1, <2>1, <2>2, <2>3 DEF Check
<1>2. CASE DeleteStale(q)
  <2>1. CASE rows' = rows
    <3>1. local'[q].seen = {} /\ \A x \in Requests \ {q} : local'[x] = local[x]
      BY <1>0, <1>2 DEF DeleteStale, Locals
    <3>2. Moves(q, "latest") /\ Along(pc[q], "latest")
      BY <1>2, <3>1 DEF DeleteStale, Goto, Moves, Along, Building
    <3> QED BY <1>2, <2>1, <3>1, <3>2, TableStays DEF DeleteStale, Building
  <2> QED BY <1>2, <2>1, DeleteTable DEF DeleteStale
<1>3. CASE Latest(q)
  <2>1. PICK v : local' = [local EXCEPT ![q].version = v]
    BY <1>3 DEF Latest
  <2>2. local'[q].seen = local[q].seen /\ \A x \in Requests \ {q} : local'[x] = local[x]
    BY <1>0, <2>1 DEF Locals
  <2>3. Moves(q, "insert") /\ Along(pc[q], "insert")
    BY <1>3, <2>2 DEF Latest, Goto, Moves, Along, Building
  <2> QED BY <1>3, <2>2, <2>3, TableStays DEF Latest, Table, SeenDead, Building
<1>4. CASE Insert(q)
  <2>1. CASE /\ Goto(q, "insert", "conflict") /\ local' = [local EXCEPT ![q].version = 0]
             /\ UNCHANGED rows
    <3>1. local'[q].seen = local[q].seen /\ \A x \in Requests \ {q} : local'[x] = local[x]
      BY <1>0, <2>1 DEF Locals
    <3>2. Moves(q, "conflict") /\ Along(pc[q], "conflict")
      BY <1>4, <2>1, <3>1 DEF Insert, Goto, Moves, Along, Building
    <3> QED BY <1>4, <2>1, <3>1, <3>2, TableStays DEF Insert, Table, SeenDead, Building
  <2> QED BY <1>4, <2>1, InsertTable DEF Insert
<1>5. CASE Recheck(q)
  <2>1. CASE Goto(q, "conflict", "latest") /\ UNCHANGED local
    <3>1. Moves(q, "latest") /\ Along(pc[q], "latest")
      BY <1>5, <2>1 DEF Recheck, Goto, Moves, Along, Building
    <3> QED BY <1>5, <2>1, <3>1, TableStays DEF Recheck, Table, SeenDead, Building
  <2> QED BY <1>5, <2>1, FindTable DEF Recheck
<1>6. CASE GiveUp(q)
  BY <1>6, EndTable DEF GiveUp
<1> QED BY <1>1, <1>2, <1>3, <1>4, <1>5, <1>6 DEF Claim

LEMMA ProduceTable ==
  ASSUME TInv, Safe, NEW q \in Requests, Produce(q)
  PROVE  Table'
<1> USE DEF Safe
<1>1. CASE UploadFails(q)
  <2>0. /\ local'[q].seen = local[q].seen /\ local'[q].release = local[q].release
        /\ local'[q].version = local[q].version
        /\ \A x \in Requests \ {q} : local'[x] = local[x]
    BY <1>1 DEF UploadFails, TInv, TypeOK, Locals
  <2>1. Moves(q, "cleanup") /\ Along(pc[q], "cleanup") /\ pc[q] \in Building
    BY <1>1, <2>0 DEF UploadFails, Goto, Moves, Along, Building
  <2> QED BY <1>1, <2>0, <2>1, TableStays DEF UploadFails, Table, SeenDead
<1>2. CASE CleanUp(q)
  <2>1. CASE rows' = rows
    BY <1>2, <2>1, EndTable DEF CleanUp
  <2> QED BY <1>2, <2>1, CleanUpTable DEF CleanUp
<1>3. CASE MarkReady(q)
  <2>1. CASE End(q, "ready", Failure) /\ UNCHANGED rows
    BY <1>3, <2>1, EndTable DEF MarkReady
  <2>2. CASE Goto(q, "ready", "list") /\ UNCHANGED <<local, answer>> /\ rows' = rows
    <3>1. Moves(q, "list") /\ pc[q] = "ready"
      BY <2>2 DEF Goto, Moves
    <3>2. PICK own \in rows : Own(q, own) /\ Claimed(q) = {own}
      BY <3>1, ClaimedIsOwn DEF Building
    <3>3. [own EXCEPT !.status = "READY"] \in rows
      BY <1>3, <2>2, <3>2 DEF MarkReady, End, Goto, TInv, TypeOK
    <3>4. [own EXCEPT !.status = "READY"].id = own.id /\ [own EXCEPT !.status = "READY"] # own
      BY <3>2 DEF Own, TInv, TypeOK, Row
    <3> QED BY <3>3, <3>4 DEF Table, RowsApart
  <2> QED BY <1>3, <2>1, <2>2, MarkTable DEF MarkReady
<1> QED BY <1>1, <1>2, <1>3, UploadTable DEF Produce

LEMMA PublishTable ==
  ASSUME TInv, Safe, NEW q \in Requests, Publish(q)
  PROVE  Table'
<1> USE DEF Safe
<1>0. local \in [Requests -> Locals] /\ pc \in [Requests -> Places]
  BY DEF TInv, TypeOK
<1>1. CASE ReadMetadata(q)
  <2>1. ASSUME NEW found, local' = [local EXCEPT ![q].listed = found],
               Goto(q, "list", "publish"), UNCHANGED answer
        PROVE  Table'
    <3>1. local'[q].seen = local[q].seen /\ \A x \in Requests \ {q} : local'[x] = local[x]
      BY <1>0, <2>1 DEF Locals
    <3>2. Moves(q, "publish") /\ Along(pc[q], "publish")
      BY <2>1, <3>1 DEF Goto, Moves, Along, Building
    <3> QED BY <1>1, <3>1, <3>2, TableStays DEF ReadMetadata, Table, SeenDead, Building
  <2> QED BY <1>1, <2>1, EndTable DEF ReadMetadata
<1>2. CASE WriteMetadata(q)
  <2>1. CASE /\ local' = [local EXCEPT ![q].listed = {}]
             /\ Goto(q, "publish", "key") /\ UNCHANGED answer
    <3>1. local'[q].seen = local[q].seen /\ \A x \in Requests \ {q} : local'[x] = local[x]
      BY <1>0, <2>1 DEF Locals
    <3>2. Moves(q, "key") /\ Along(pc[q], "key")
      BY <2>1, <3>1 DEF Goto, Moves, Along, Building
    <3> QED BY <1>2, <3>1, <3>2, TableStays DEF WriteMetadata, Table, SeenDead, Building
  <2> QED BY <1>2, <2>1, EndTable DEF WriteMetadata
<1>3. CASE UpdateKey(q)
  BY <1>3, EndTable DEF UpdateKey
<1> QED BY <1>1, <1>2, <1>3 DEF Publish

(* slow only grows.                                                        *)
LEMMA SlowGrows == TypeOK /\ [Next]_vars /\ slow' = 0 => slow = 0
<1> SUFFICES ASSUME TypeOK, [Next]_vars, slow' = 0 PROVE slow = 0
  OBVIOUS
<1>1. CASE Conclude \/ Age \/ UNCHANGED vars
  BY <1>1, Constants DEF TypeOK, Conclude, Age, vars
<1>2. ASSUME NEW q \in Requests, Generate(q) \/ Claim(q) PROVE slow' = slow
  BY <1>2 DEF Generate, Resolve, ResolveFails, FindCurrent, FindPrevious,
              Claim, Check, DeleteStale, Latest, Insert, Recheck, GiveUp
<1>3. ASSUME NEW q \in Requests, Produce(q) \/ Publish(q) \/ Crash(q) PROVE slow' = slow
  BY <1>3 DEF Produce, Upload, UploadFails, CleanUp, MarkReady,
              Publish, ReadMetadata, WriteMetadata, UpdateKey, Crash
<1> QED BY <1>1, <1>2, <1>3 DEF Next

LEMMA NextTable ==
  ASSUME TInv, Safe, [Next]_vars, slow' = 0
  PROVE  Table'
<1>1. CASE Conclude \/ UNCHANGED vars
  BY <1>1 DEF Conclude, vars, Safe, Table, RowsApart, RowPlaces, OwnRow, Own, Uploaded,
              SeenDead, Holds
<1>2. ASSUME NEW q \in Requests, Crash(q) PROVE Table'
  BY <1>2, EndTable DEF Crash, Safe
<1> QED BY <1>1, <1>2, AgeTable, GenerateTable, ClaimTable, ProduceTable, PublishTable DEF Next, Safe

----------------------------------------------------------------------------
(* What names a READY row keeps naming one.                                *)

(* No step loses a READY row: what a take-over deletes is not READY, and   *)
(* what a build deletes or marks is its own, BUILDING.                     *)
LEMMA ReadyKept ==
  ASSUME TInv, Table, [Next]_vars
  PROVE  \A row \in rows : row.status = "READY" => row \in rows'
<1>1. CASE Conclude \/ Age \/ UNCHANGED vars
  BY <1>1 DEF Conclude, Age, vars
<1>2. ASSUME NEW q \in Requests, Generate(q) \/ Publish(q) \/ Crash(q) PROVE rows' = rows
  BY <1>2 DEF Generate, Resolve, ResolveFails, FindCurrent, FindPrevious,
              Publish, ReadMetadata, WriteMetadata, UpdateKey, Crash
<1>3. ASSUME NEW q \in Requests, Claim(q)
      PROVE  \A row \in rows : row.status = "READY" => row \in rows'
  <2>1. CASE DeleteStale(q)
    BY <2>1 DEF DeleteStale, Stale, Table, SeenDead
  <2> QED BY <1>3, <2>1 DEF Claim, Check, Latest, Insert, Recheck, GiveUp
<1>4. ASSUME NEW q \in Requests, Produce(q)
      PROVE  \A row \in rows : row.status = "READY" => row \in rows'
  <2>1. CASE CleanUp(q) \/ MarkReady(q)
    <3>1. pc[q] \in Building
      BY <2>1 DEF CleanUp, MarkReady, End, Goto, Building
    <3>2. \A row \in Claimed(q) : row.status = "BUILDING"
      BY <3>1, ClaimedIsOwn DEF Own
    <3> QED BY <2>1, <3>2 DEF CleanUp, MarkReady
  <2> QED BY <1>4, <2>1 DEF Produce, Upload, UploadFails
<1> QED BY <1>1, <1>2, <1>3, <1>4 DEF Next

(* The same of the table after the step.                                   *)
ReadyNext(v, r) == \E row \in rows' : row.version = v /\ row.release = r /\ row.status = "READY"

LEMMA NamesKept ==
  ASSUME TInv, Table, [Next]_vars, NEW v, NEW r, IsReady(v, r)
  PROVE  ReadyNext(v, r)
BY ReadyKept DEF IsReady, ReadyNext

(* What a move has to show of the names it takes and gives.                *)
LEMMA NamesMove ==
  ASSUME TInv, Table, Names, [Next]_vars, NEW q \in Requests, NEW place, Moves(q, place),
         place \in {"list", "publish", "key"} => ReadyNext(local'[q].version, local'[q].release),
         answer'[q].how = "ok" =>
            \/ answer'[q] = answer[q]
            \/ ReadyNext(answer'[q].version, answer'[q].release),
         key' # key => \E v \in Versions : ReadyNext(v, key'),
         local'[q].lastBuilt # 0 => local'[q].lastBuilt \in {key, local[q].lastBuilt},
         \A v \in metadata' \cup local'[q].listed :
            \/ v \in metadata \cup local[q].listed
            \/ \E r \in Releases : ReadyNext(v, r)
  PROVE  Names'
<1> USE DEF Names, Moves
<1>0. pc \in [Requests -> Places]
  BY DEF TInv, TypeOK
<1>1. \A v, r : IsReady(v, r) => ReadyNext(v, r)
  BY NamesKept
<1>2. BuiltReady'
  <2>1. ASSUME NEW x \in Requests, pc'[x] \in {"list", "publish", "key"}
        PROVE  ReadyNext(local'[x].version, local'[x].release)
    BY <1>0, <1>1, <2>1 DEF BuiltReady
  <2> QED BY <2>1 DEF BuiltReady, IsReady, ReadyNext
<1>3. AnswersReady'
  <2>1. ASSUME NEW x \in Requests, answer'[x].how = "ok"
        PROVE  ReadyNext(answer'[x].version, answer'[x].release)
    BY <1>1, <2>1 DEF AnswersReady
  <2> QED BY <2>1 DEF AnswersReady, IsReady, ReadyNext
<1>4. KeysReady'
  <2>1. key' # 0 => \E v \in Versions : ReadyNext(v, key')
    BY <1>1 DEF KeysReady
  <2>2. ASSUME NEW x \in Requests, local'[x].lastBuilt # 0
        PROVE  \E v \in Versions : ReadyNext(v, local'[x].lastBuilt)
    BY <1>1, <2>2 DEF KeysReady
  <2> QED BY <2>1, <2>2 DEF KeysReady, IsReady, ReadyNext
<1>5. ListsReady'
  <2>1. ASSUME NEW v \in metadata' PROVE \E r \in Releases : ReadyNext(v, r)
    BY <1>1 DEF ListsReady
  <2>2. ASSUME NEW x \in Requests, NEW v \in local'[x].listed
        PROVE  \E r \in Releases : ReadyNext(v, r)
    BY <1>1, <2>2 DEF ListsReady
  <2> QED BY <2>1, <2>2 DEF ListsReady, IsReady, ReadyNext
<1> QED BY <1>2, <1>3, <1>4, <1>5

(* An end that answers with a READY row, with its own version or with an   *)
(* error.                                                                  *)
LEMMA NamesEnd ==
  ASSUME TInv, Table, Names, [Next]_vars, NEW q \in Requests, NEW from, from # "done",
         NEW a, End(q, from, a), a.how = "ok" => IsReady(a.version, a.release),
         key' # key => \E v \in Versions : IsReady(v, key'), metadata' = metadata
  PROVE  Names'
<1>1. Moves(q, "done") /\ local'[q] = Blank /\ answer'[q] \in {a, answer[q]}
  BY DEF End, Goto, Return, Moves, TInv, TypeOK
<1>2. \A v, r : IsReady(v, r) => ReadyNext(v, r)
  BY NamesKept
<1> QED BY <1>1, <1>2, BlankTypes, NamesMove

LEMMA GenerateNames ==
  ASSUME TInv, Safe, NEW q \in Requests, Generate(q)
  PROVE  Names'
<1> USE DEF Safe
<1>0. /\ local \in [Requests -> Locals] /\ pc \in [Requests -> Places] /\ [Next]_vars
      /\ \A v, r : IsReady(v, r) => ReadyNext(v, r)
  BY NamesKept DEF TInv, TypeOK, Next
<1>1. CASE Resolve(q)
  <2>1. PICK place \in {"current", "previous", "check"} : Goto(q, "idle", place)
    BY <1>1 DEF Resolve
  <2>2. /\ local'[q].lastBuilt = key /\ local'[q].listed = {}
        /\ \A x \in Requests \ {q} : local'[x] = local[x]
    BY <1>0, <1>1 DEF Resolve, Blank
  <2>3. Moves(q, place) /\ answer' = answer /\ key' = key /\ metadata' = metadata
    BY <1>1, <2>1, <2>2 DEF Resolve, Goto, Moves
  <2> QED BY <1>0, <2>2, <2>3, NamesMove
<1>2. CASE ResolveFails(q)
  BY <1>0, <1>2, NamesEnd DEF ResolveFails, Failure
<1>3. CASE FindCurrent(q)
  <2>1. ASSUME NEW row \in ReadyRowsOf(local[q].release),
               End(q, "current", Answer(row.version, local[q].release))
        PROVE  Names'
    <3>1. IsReady(row.version, local[q].release)
      BY DEF ReadyRowsOf, RowsOf, IsReady
    <3> QED BY <1>0, <1>3, <2>1, <3>1, NamesEnd DEF FindCurrent, Answer
  <2>2. ASSUME NEW place \in {"check", "previous"}, Goto(q, "current", place),
               UNCHANGED <<local, answer>>
        PROVE  Names'
    <3>1. Moves(q, place)
      BY <2>2 DEF Goto, Moves
    <3> QED BY <1>0, <1>3, <2>2, <3>1, NamesMove DEF FindCurrent
  <2> QED BY <1>3, <2>1, <2>2 DEF FindCurrent
<1>4. CASE FindPrevious(q)
  <2>1. Moves(q, "check")
    BY <1>4 DEF FindPrevious, Return, Goto, Moves, TInv, TypeOK
  <2>2. answer'[q] = answer[q] \/ ReadyNext(answer'[q].version, answer'[q].release)
    <3>1. ASSUME NEW row \in ReadyRowsOf(local[q].lastBuilt),
                 Return(q, Answer(row.version, local[q].lastBuilt))
          PROVE  answer'[q] = answer[q] \/ ReadyNext(answer'[q].version, answer'[q].release)
      <4>1. IsReady(row.version, local[q].lastBuilt)
        BY DEF ReadyRowsOf, RowsOf, IsReady
      <4> QED BY <1>0, <3>1, <4>1 DEF Return, Answer, TInv, TypeOK
    <3> QED BY <1>4, <3>1 DEF FindPrevious
  <2> QED BY <1>0, <1>4, <2>1, <2>2, NamesMove DEF FindPrevious
<1> QED BY <1>1, <1>2, <1>3, <1>4 DEF Generate

LEMMA FindNames ==
  ASSUME TInv, Safe, [Next]_vars, NEW q \in Requests, NEW from \in {"check", "conflict"},
         FindReady(q, from), UNCHANGED <<slow, current, key, rows, object, metadata, answer>>
  PROVE  Names'
<1>1. PICK row \in ReadyRowsOf(local[q].release) :
        Goto(q, from, "key") /\ local' = [local EXCEPT ![q].version = row.version]
  BY DEF FindReady
<1>2. local \in [Requests -> Locals]
  BY DEF TInv, TypeOK
<1>3. /\ local'[q].lastBuilt = local[q].lastBuilt /\ local'[q].listed = local[q].listed
      /\ local'[q].version = row.version /\ local'[q].release = local[q].release
      /\ \A x \in Requests \ {q} : local'[x] = local[x]
  BY <1>1, <1>2 DEF Locals
<1>4. Moves(q, "key")
  BY <1>1, <1>3 DEF Goto, Moves
<1>5. ReadyNext(row.version, local[q].release)
  BY DEF ReadyRowsOf, RowsOf, ReadyNext
<1> QED BY <1>3, <1>4, <1>5, NamesMove DEF Safe

LEMMA ClaimNames ==
  ASSUME TInv, Safe, NEW q \in Requests, Claim(q)
  PROVE  Names'
<1> USE DEF Safe
<1>0. local \in [Requests -> Locals] /\ pc \in [Requests -> Places] /\ [Next]_vars
  BY DEF TInv, TypeOK, Next
<1>1. CASE (Check(q) /\ FindReady(q, "check")) \/ (Recheck(q) /\ FindReady(q, "conflict"))
  BY <1>0, <1>1, FindNames DEF Check, Recheck
<1>2. CASE GiveUp(q)
  BY <1>0, <1>2, NamesEnd DEF GiveUp, Failure
(* Every other step of a claim changes the id seen, the version tried or   *)
(* what is to be uploaded.                                                 *)
<1>3. ASSUME NEW place \in {"stale", "latest", "insert", "upload", "ready", "conflict"}, NEW from,
             Goto(q, from, place), from # "done",
             UNCHANGED <<key, metadata, answer>>,
             \/ UNCHANGED local
             \/ \E ids : local' = [local EXCEPT ![q].seen = ids]
             \/ \E v : local' = [local EXCEPT ![q].version = v]
             \/ \E kinds : local' = [local EXCEPT ![q].uploads = kinds]
      PROVE  Names'
  <2>1. /\ local'[q].lastBuilt = local[q].lastBuilt /\ local'[q].listed = local[q].listed
        /\ \A x \in Requests \ {q} : local'[x] = local[x]
    BY <1>0, <1>3 DEF Locals
  <2>2. Moves(q, place)
    BY <1>3, <2>1 DEF Goto, Moves
  <2> QED BY <1>0, <1>3, <2>1, <2>2, NamesMove
<1>4. CASE Check(q)
  <2>1. ASSUME NEW row, Goto(q, "check", "stale"), local' = [local EXCEPT ![q].seen = {row.id}]
        PROVE  Names'
    <3>1. \E ids : local' = [local EXCEPT ![q].seen = ids]
      BY <2>1
    <3> QED BY <1>3, <1>4, <2>1, <3>1 DEF Check
  <2>2. CASE Goto(q, "check", "latest") /\ UNCHANGED local
    BY <1>3, <1>4, <2>2 DEF Check
  <2>3. CASE FindReady(q, "check")
    BY <1>1, <1>4, <2>3
  <2> QED BY <1>4, <2>1, <2>2, <2>3 DEF Check
<1>5. CASE DeleteStale(q)
  BY <1>3, <1>5 DEF DeleteStale
<1>6. CASE Latest(q)
  BY <1>3, <1>6 DEF Latest
<1>7. CASE Insert(q)
  BY <1>3, <1>7 DEF Insert
<1>8. CASE Recheck(q)
  BY <1>1, <1>3, <1>8 DEF Recheck
<1> QED BY <1>2, <1>4, <1>5, <1>6, <1>7, <1>8 DEF Claim

LEMMA ProduceNames ==
  ASSUME TInv, Safe, NEW q \in Requests, Produce(q)
  PROVE  Names'
<1> USE DEF Safe
<1>0. local \in [Requests -> Locals] /\ pc \in [Requests -> Places] /\ [Next]_vars
  BY DEF TInv, TypeOK, Next
<1>1. CASE Upload(q)
  <2>1. PICK place \in {"ready", "upload"} : Goto(q, "upload", place)
    BY <1>1 DEF Upload, AfterUpload
  <2>2. /\ local'[q].lastBuilt = local[q].lastBuilt /\ local'[q].listed = local[q].listed
        /\ \A x \in Requests \ {q} : local'[x] = local[x]
    BY <1>0, <1>1 DEF Upload, Locals
  <2>3. Moves(q, place) /\ UNCHANGED <<key, metadata, answer>>
    BY <1>1, <2>1, <2>2 DEF Upload, Goto, Moves
  <2> QED BY <1>0, <2>2, <2>3, NamesMove
<1>2. CASE UploadFails(q)
  <2>1. /\ local'[q].lastBuilt = local[q].lastBuilt /\ local'[q].listed = local[q].listed
        /\ \A x \in Requests \ {q} : local'[x] = local[x]
    BY <1>0, <1>2 DEF UploadFails, Locals
  <2>2. Moves(q, "cleanup") /\ UNCHANGED <<key, metadata, answer>>
    BY <1>2, <2>1 DEF UploadFails, Goto, Moves
  <2> QED BY <1>0, <2>1, <2>2, NamesMove
<1>3. CASE CleanUp(q)
  BY <1>0, <1>3, NamesEnd DEF CleanUp, Failure
<1>4. CASE MarkReady(q)
  <2>1. CASE End(q, "ready", Failure) /\ UNCHANGED rows
    BY <1>0, <1>4, <2>1, NamesEnd DEF MarkReady, Failure
  <2>2. CASE /\ Goto(q, "ready", "list") /\ UNCHANGED <<local, answer>>
             /\ rows' = (rows \ Claimed(q)) \cup {[row EXCEPT !.status = "READY"] : row \in Claimed(q)}
    <3>1. Moves(q, "list") /\ pc[q] \in Building
      BY <2>2 DEF Goto, Moves, Building
    <3>2. PICK own \in rows : Own(q, own) /\ Claimed(q) = {own}
      BY <3>1, ClaimedIsOwn
    <3>3. [own EXCEPT !.status = "READY"] \in rows'
      BY <2>2, <3>2
    <3>4. ReadyNext(local[q].version, local[q].release)
      <4> DEFINE ready == [own EXCEPT !.status = "READY"]
      <4>1. /\ ready.version = local[q].version /\ ready.release = local[q].release
            /\ ready.status = "READY"
        BY <3>2 DEF Own, TInv, TypeOK, Row
      <4> QED BY <3>3, <4>1 DEF ReadyNext
    <3> QED BY <1>0, <1>4, <2>2, <3>1, <3>4, NamesMove DEF MarkReady
  <2> QED BY <1>4, <2>1, <2>2 DEF MarkReady
<1> QED BY <1>1, <1>2, <1>3, <1>4 DEF Produce

LEMMA PublishNames ==
  ASSUME TInv, Safe, NEW q \in Requests, Publish(q)
  PROVE  Names'
<1> USE DEF Safe
<1>0. /\ local \in [Requests -> Locals] /\ pc \in [Requests -> Places] /\ [Next]_vars
      /\ \A v, r : IsReady(v, r) => ReadyNext(v, r)
  BY NamesKept DEF TInv, TypeOK, Next
<1>1. pc[q] \in {"list", "publish", "key"} =>
        /\ IsReady(local[q].version, local[q].release)
        /\ local[q].version \in Versions /\ local[q].release \in Releases
  BY DEF Names, BuiltReady, TInv, LocalsFit, Fits
<1>2. CASE ReadMetadata(q)
  <2>1. ASSUME NEW found \in Existing, local' = [local EXCEPT ![q].listed = found],
               Goto(q, "list", "publish"), UNCHANGED answer
        PROVE  Names'
    <3>1. /\ local'[q].lastBuilt = local[q].lastBuilt /\ local'[q].listed = found
          /\ local'[q].version = local[q].version /\ local'[q].release = local[q].release
          /\ \A x \in Requests \ {q} : local'[x] = local[x]
      BY <1>0, <2>1 DEF Locals
    <3>2. Moves(q, "publish") /\ found \subseteq metadata
      BY <2>1, <3>1 DEF Goto, Moves, Existing
    <3> QED BY <1>0, <1>1, <1>2, <2>1, <3>1, <3>2, NamesMove DEF ReadMetadata, Goto
  <2> QED BY <1>0, <1>2, <2>1, NamesEnd DEF ReadMetadata, Failure
<1>3. CASE WriteMetadata(q)
  <2>1. CASE /\ local' = [local EXCEPT ![q].listed = {}]
             /\ metadata' = local[q].listed \cup {local[q].version}
             /\ Goto(q, "publish", "key") /\ UNCHANGED answer
    <3>1. /\ local'[q].lastBuilt = local[q].lastBuilt /\ local'[q].listed = {}
          /\ local'[q].version = local[q].version /\ local'[q].release = local[q].release
          /\ \A x \in Requests \ {q} : local'[x] = local[x]
      BY <1>0, <2>1 DEF Locals
    <3>2. Moves(q, "key") /\ pc[q] = "publish"
      BY <2>1, <3>1 DEF Goto, Moves
    <3>3. \A v \in metadata' : v \in local[q].listed \/ \E r \in Releases : ReadyNext(v, r)
      BY <1>0, <1>1, <2>1, <3>2
    <3> QED BY <1>0, <1>1, <1>3, <2>1, <3>1, <3>2, <3>3, NamesMove DEF WriteMetadata
  <2> QED BY <1>0, <1>3, <2>1, NamesEnd DEF WriteMetadata, Failure
<1>4. CASE UpdateKey(q)
  <2>1. pc[q] = "key" /\ key' \in {key, local[q].release}
    BY <1>4 DEF UpdateKey, End, Goto
  <2> QED BY <1>0, <1>1, <1>4, <2>1, NamesEnd DEF UpdateKey, Answer
<1> QED BY <1>2, <1>3, <1>4 DEF Publish

LEMMA NextNames ==
  ASSUME TInv, Safe, [Next]_vars
  PROVE  Names'
<1>1. CASE Conclude \/ UNCHANGED vars
  BY <1>1 DEF Conclude, vars, Safe, Names, BuiltReady, AnswersReady, KeysReady, ListsReady, IsReady
<1>2. CASE Age
  <2>1. \A v, r : IsReady(v, r) => ReadyNext(v, r)
    BY NamesKept DEF Safe
  <2> QED BY <1>2, <2>1 DEF Age, Safe, Names, BuiltReady, AnswersReady, KeysReady, ListsReady,
                            IsReady, ReadyNext
<1>3. ASSUME NEW q \in Requests, Crash(q) PROVE Names'
  BY <1>3, NamesEnd DEF Crash, Safe, Failure
<1> QED BY <1>1, <1>2, <1>3, GenerateNames, ClaimNames, ProduceNames, PublishNames DEF Next

----------------------------------------------------------------------------
(* The answers come in their order.                                        *)

(* A step that starts nothing: the flag and the last build stay, and a     *)
(* request leaves the first places only with its answer, or without a      *)
(* claim to it.                                                            *)
LEMMA FirstMove ==
  ASSUME TInv, AnswersFirst, NEW q \in Requests, NEW place, Moves(q, place),
         place \notin {"idle", "current"},
         answer'[q] = answer[q] \/ place # "previous",
         place = "previous" => pc[q] \in {"idle", "current", "previous"},
         answer[q] # Pending => answer'[q] = answer[q],
         \/ local'[q].lastBuilt = 0
         \/ local'[q].force
         \/ place = "previous"
         \/ answer'[q].how = "ok"
         \/ /\ local'[q].force = local[q].force /\ local'[q].lastBuilt = local[q].lastBuilt
            /\ pc[q] \notin {"current", "previous"} /\ answer'[q] = answer[q]
  PROVE  AnswersFirst'
<1>1. pc \in [Requests -> Places]
  BY DEF TInv, TypeOK
<1>2. ASSUME NEW x \in Requests
      PROVE  /\ pc'[x] \in {"idle", "current", "previous"} => answer'[x] = Pending
             /\ pc'[x] = "idle" => local'[x] = Blank
             /\ ~local'[x].force /\ local'[x].lastBuilt # 0 /\ pc'[x] \notin {"current", "previous"}
                  => answer'[x].how = "ok"
  BY <1>1 DEF Moves, AnswersFirst
<1> QED BY <1>2 DEF AnswersFirst

LEMMA FirstEnd ==
  ASSUME TInv, AnswersFirst, NEW q \in Requests, NEW from, from # "done", NEW a, End(q, from, a)
  PROVE  AnswersFirst'
<1>1. /\ Moves(q, "done") /\ local'[q] = Blank
      /\ answer[q] # Pending => answer'[q] = answer[q]
  BY DEF End, Goto, Return, Moves, TInv, TypeOK
<1> QED BY <1>1, BlankTypes, FirstMove

LEMMA GenerateFirst ==
  ASSUME TInv, Safe, NEW q \in Requests, Generate(q)
  PROVE  AnswersFirst'
<1> USE DEF Safe
<1>0. local \in [Requests -> Locals] /\ pc \in [Requests -> Places] /\ answer \in [Requests -> Answers]
  BY DEF TInv, TypeOK, Answers
<1>1. CASE Resolve(q)
  <2>1. PICK f \in BOOLEAN :
          /\ local' = [local EXCEPT ![q] =
                [Blank EXCEPT !.force = f, !.release = current, !.lastBuilt = key]]
          /\ Goto(q, "idle", IF key = current THEN "current"
                             ELSE IF ~f /\ key # 0 THEN "previous" ELSE "check")
    BY <1>1 DEF Resolve
  <2>2. /\ local'[q].force = f /\ local'[q].lastBuilt = key
        /\ \A x \in Requests \ {q} : local'[x] = local[x]
    BY <1>0, <2>1 DEF Blank
  <2>3. pc[q] = "idle" /\ answer' = answer /\ answer[q] = Pending
    BY <1>1, <2>1 DEF Resolve, Goto, AnswersFirst
  <2>4. CASE pc' = [pc EXCEPT ![q] = "current"]
    BY <1>0, <2>2, <2>3, <2>4 DEF AnswersFirst
  <2>5. CASE pc' = [pc EXCEPT ![q] = "previous"]
    BY <1>0, <2>2, <2>3, <2>5 DEF AnswersFirst
  <2>6. CASE pc' = [pc EXCEPT ![q] = "check"] /\ (f \/ key = 0)
    BY <1>0, <2>2, <2>3, <2>6 DEF AnswersFirst
  <2> QED BY <2>1, <2>4, <2>5, <2>6 DEF Goto
<1>2. CASE ResolveFails(q)
  BY <1>2, FirstEnd DEF ResolveFails
<1>3. CASE FindCurrent(q)
  <2>1. ASSUME NEW place \in {"check", "previous"}, Goto(q, "current", place),
               UNCHANGED <<local, answer>>, place = "check" => local[q].force
        PROVE  AnswersFirst'
    <3>1. Moves(q, place) /\ pc[q] = "current"
      BY <2>1 DEF Goto, Moves
    <3> QED BY <2>1, <3>1, FirstMove
  <2> QED BY <1>3, <2>1, FirstEnd DEF FindCurrent
(* The key it resolved names a READY row, so there is an answer.           *)
<1>4. CASE FindPrevious(q)
  <2>1. Moves(q, "check") /\ pc[q] = "previous" /\ local' = local
    BY <1>4 DEF FindPrevious, Return, Goto, Moves, TInv, TypeOK
  <2>2. answer[q] = Pending
    BY <2>1 DEF AnswersFirst
  <2>3. CASE local[q].lastBuilt = 0
    BY <2>1, <2>2, <2>3, FirstMove
  <2>4. CASE local[q].lastBuilt # 0
    <3>1. ReadyRowsOf(local[q].lastBuilt) # {}
      BY <2>4 DEF Names, KeysReady, IsReady, ReadyRowsOf, RowsOf
    <3>2. answer'[q].how = "ok"
      BY <1>0, <1>4, <2>2, <3>1 DEF FindPrevious, Return, Answer
    <3> QED BY <2>1, <2>2, <3>2, FirstMove
  <2> QED BY <2>3, <2>4
<1> QED BY <1>1, <1>2, <1>3, <1>4 DEF Generate

(* A step after these places that keeps the flag and the last build.       *)
LEMMA FirstGoOn ==
  ASSUME TInv, AnswersFirst, NEW q \in Requests,
         NEW from \in Places \ {"idle", "current", "previous", "done"},
         NEW place \in Places \ {"idle", "current", "previous"},
         Goto(q, from, place), answer' = answer,
         \/ UNCHANGED local
         \/ \E x : local' = [local EXCEPT ![q].seen = x]
         \/ \E x : local' = [local EXCEPT ![q].version = x]
         \/ \E x : local' = [local EXCEPT ![q].uploads = x]
         \/ \E x, c : local' = [local EXCEPT ![q].uploads = x, ![q].config = c]
         \/ \E x : local' = [local EXCEPT ![q].listed = x]
  PROVE  AnswersFirst'
<1>1. local \in [Requests -> Locals]
  BY DEF TInv, TypeOK
<1>2. /\ local'[q].force = local[q].force /\ local'[q].lastBuilt = local[q].lastBuilt
      /\ \A y \in Requests \ {q} : local'[y] = local[y]
  <2>1. CASE UNCHANGED local
    BY <2>1
  <2>2. CASE \E x : local' = [local EXCEPT ![q].seen = x]
    BY <1>1, <2>2 DEF Locals
  <2>3. CASE \E x : local' = [local EXCEPT ![q].version = x]
    BY <1>1, <2>3 DEF Locals
  <2>4. CASE \E x : local' = [local EXCEPT ![q].uploads = x]
    BY <1>1, <2>4 DEF Locals
  <2>5. ASSUME NEW x, NEW c, local' = [local EXCEPT ![q].uploads = x, ![q].config = c]
        PROVE  <1>2
    <3>1. PICK m : m = [local[q] EXCEPT !.uploads = x, !.config = c]
      OBVIOUS
    <3>2. local' = [local EXCEPT ![q] = m]
      BY <2>5, <3>1
    <3>3. m.force = local[q].force /\ m.lastBuilt = local[q].lastBuilt
      BY <1>1, <3>1 DEF Locals
    <3> QED BY <1>1, <3>2, <3>3
  <2>6. CASE \E x : local' = [local EXCEPT ![q].listed = x]
    BY <1>1, <2>6 DEF Locals
  <2> QED BY <2>1, <2>2, <2>3, <2>4, <2>5, <2>6
<1>3. Moves(q, place) /\ pc[q] = from
  BY <1>2 DEF Goto, Moves
<1> QED BY <1>2, <1>3, FirstMove

LEMMA ClaimFirst ==
  ASSUME TInv, Safe, NEW q \in Requests, Claim(q)
  PROVE  AnswersFirst'
<1> USE DEF Safe, Places, Building
<1>1. CASE Check(q)
  <2>1. ASSUME NEW row, Goto(q, "check", "stale"), local' = [local EXCEPT ![q].seen = {row.id}]
        PROVE  AnswersFirst'
    <3>1. \E x : local' = [local EXCEPT ![q].seen = x]
      BY <2>1
    <3> QED BY <1>1, <2>1, <3>1, FirstGoOn DEF Check
  <2>2. CASE Goto(q, "check", "latest") /\ UNCHANGED local
    BY <1>1, <2>2, FirstGoOn DEF Check
  <2>3. CASE FindReady(q, "check")
    <3>1. (\E x : local' = [local EXCEPT ![q].version = x]) /\ Goto(q, "check", "key")
      BY <2>3 DEF FindReady
    <3> QED BY <1>1, <3>1, FirstGoOn DEF Check
  <2> QED BY <1>1, <2>1, <2>2, <2>3 DEF Check
<1>2. CASE DeleteStale(q)
  BY <1>2, FirstGoOn DEF DeleteStale
<1>3. CASE Latest(q)
  BY <1>3, FirstGoOn DEF Latest
<1>4. CASE Insert(q)
  BY <1>4, FirstGoOn DEF Insert
<1>5. CASE Recheck(q)
  <2>1. CASE FindReady(q, "conflict")
    <3>1. (\E x : local' = [local EXCEPT ![q].version = x]) /\ Goto(q, "conflict", "key")
      BY <2>1 DEF FindReady
    <3> QED BY <1>5, <3>1, FirstGoOn DEF Recheck
  <2>2. CASE Goto(q, "conflict", "latest") /\ UNCHANGED local
    BY <1>5, <2>2, FirstGoOn DEF Recheck
  <2> QED BY <1>5, <2>1, <2>2 DEF Recheck
<1>6. CASE GiveUp(q)
  BY <1>6, FirstEnd DEF GiveUp
<1> QED BY <1>1, <1>2, <1>3, <1>4, <1>5, <1>6 DEF Claim

LEMMA BuildFirst ==
  ASSUME TInv, Safe, NEW q \in Requests, Produce(q) \/ Publish(q)
  PROVE  AnswersFirst'
<1> USE DEF Safe, Places, Building
<1>1. CASE Upload(q)
  <2>1. PICK place \in {"ready", "upload"} : Goto(q, "upload", place)
    BY <1>1 DEF Upload, AfterUpload
  <2>2. /\ \E x, c : local' = [local EXCEPT ![q].uploads = x, ![q].config = c]
        /\ answer' = answer
    BY <1>1 DEF Upload
  <2> QED BY <2>1, <2>2, FirstGoOn
<1>2. CASE UploadFails(q)
  BY <1>2, FirstGoOn DEF UploadFails
<1>3. CASE CleanUp(q)
  BY <1>3, FirstEnd DEF CleanUp
<1>4. CASE MarkReady(q)
  BY <1>4, FirstEnd, FirstGoOn DEF MarkReady
<1>5. CASE ReadMetadata(q)
  <2>1. CASE End(q, "list", Failure)
    BY <2>1, FirstEnd
  <2>2. CASE ~End(q, "list", Failure)
    <3>1. /\ \E x : local' = [local EXCEPT ![q].listed = x]
          /\ Goto(q, "list", "publish") /\ answer' = answer
      BY <1>5, <2>2 DEF ReadMetadata
    <3> QED BY <3>1, FirstGoOn
  <2> QED BY <2>1, <2>2
<1>6. CASE WriteMetadata(q)
  BY <1>6, FirstEnd, FirstGoOn DEF WriteMetadata
<1>7. CASE UpdateKey(q)
  BY <1>7, FirstEnd DEF UpdateKey
<1> QED BY <1>1, <1>2, <1>3, <1>4, <1>5, <1>6, <1>7 DEF Produce, Publish

LEMMA NextFirst ==
  ASSUME TInv, Safe, [Next]_vars
  PROVE  AnswersFirst'
<1>1. CASE Conclude \/ Age \/ UNCHANGED vars
  BY <1>1 DEF Conclude, Age, vars, Safe, AnswersFirst
<1>2. ASSUME NEW q \in Requests, Crash(q) PROVE AnswersFirst'
  BY <1>2, FirstEnd DEF Crash, Safe
<1> QED BY <1>1, <1>2, GenerateFirst, ClaimFirst, BuildFirst DEF Next

----------------------------------------------------------------------------
(* The theorems.                                                           *)

LEMMA InitSafe == Init => IInv
<1> SUFFICES ASSUME Init PROVE IInv
  OBVIOUS
<1>1. Table
  BY DEF Init, Table, RowsApart, RowPlaces, OwnRow, Uploaded, SeenDead, Blank, Building
<1>2. Names /\ AnswersFirst
  BY DEF Init, Names, BuiltReady, AnswersReady, KeysReady, ListsReady, AnswersFirst, Blank, Pending
<1> QED BY <1>1, <1>2, InitTypes DEF IInv, Safe

(* IInv is inductive: the table of builds tells what the archives hold and *)
(* what every other store names, while no live build is slow.              *)
THEOREM BuildInvariant == Spec => []IInv
<1>1. IInv /\ [Next]_vars => IInv'
  <2> SUFFICES ASSUME IInv, [Next]_vars PROVE IInv'
    OBVIOUS
  <2>1. TInv'
    BY NextTypes DEF IInv
  <2>2. ASSUME slow' = 0 PROVE Safe'
    BY <2>2, SlowGrows, NextTable, NextNames, NextFirst DEF IInv, TInv, Safe
  <2> QED BY <2>1, <2>2 DEF IInv
<1> QED BY <1>1, InitSafe, PTL DEF Spec

(* A READY row has both archives of its version, with the files of its     *)
(* release and one configuration, unless the release is 0.0.0.             *)
THEOREM BuildComplete == Spec => []ReadyIsComplete
<1>1. IInv => ReadyIsComplete
  BY DEF IInv, Safe, Table, ReadyIsComplete
<1> QED BY <1>1, BuildInvariant, PTL

(* A version that a request returned has the files of the release it was   *)
(* returned for, in both archives, and one configuration; 0.0.0 has none.  *)
THEOREM BuildAnswers == Spec => []AnswerBacked
<1>1. IInv => AnswerBacked
  BY DEF IInv, Safe, Table, Names, AnswersReady, IsReady, AnswerBacked
<1> QED BY <1>1, BuildInvariant, PTL

(* Two live builds share neither a release nor a version.                  *)
THEOREM BuildExclusive == Spec => []OneBuilder
<1>1. IInv => OneBuilder
  BY DEF IInv, Safe, Table, OwnRow, Own, RowsApart, OneBuilder
<1> QED BY <1>1, BuildInvariant, PTL

(* The key, once it is set, names a release that has a READY row.          *)
THEOREM BuildKey == Spec => []KeyNamesReady
<1>1. IInv => KeyNamesReady
  BY DEF IInv, Safe, Names, KeysReady, IsReady, KeyNamesReady, ReadyRowsOf, RowsOf
<1> QED BY <1>1, BuildInvariant, PTL

(* The metadata lists versions with a READY row only.                      *)
THEOREM BuildMetadata == Spec => []MetadataListsReady
<1>1. IInv => MetadataListsReady
  BY DEF IInv, Safe, Names, ListsReady, IsReady, MetadataListsReady
<1> QED BY <1>1, BuildInvariant, PTL

(* A request with "x-force: false" that finds a last build is answered with it *)
(* before it builds.                                                       *)
THEOREM BuildPrevious == Spec => []PreviousBuildAnswers
<1>1. IInv => PreviousBuildAnswers
  BY DEF IInv, Safe, AnswersFirst, PreviousBuildAnswers
<1> QED BY <1>1, BuildInvariant, PTL

(* No step takes a READY row away, or changes it.                          *)
THEOREM BuildReadyStays == Spec => ReadyStaysReady
<1>1. IInv /\ [Next]_vars => (slow' = 0 => \A row \in rows : row.status = "READY" => row \in rows')
  BY SlowGrows, ReadyKept DEF IInv, TInv, Safe
<1>2. IInv /\ [Next]_vars =>
        [slow' = 0 => \A row \in rows : row.status = "READY" => row \in rows']_vars
  BY <1>1
<1> QED BY <1>2, BuildInvariant, PTL DEF Spec, ReadyStaysReady
============================================================================
