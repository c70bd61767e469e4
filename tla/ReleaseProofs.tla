---------------------------- MODULE ReleaseProofs ----------------------------
(***************************************************************************)
(* What users are served, for any files, packages, requests and bounds: a  *)
(* package with lists of its own files, complete when the wizard made them.*)
(* And what the choices of the release page do: a Revert and a conclusion  *)
(* of a release built since the last conclusion.                           *)
(***************************************************************************)
EXTENDS Release, FiniteSetTheorems, TLAPS

(* The constants, as the proofs use them.                                  *)
LEMMA Constants ==
    /\ Targets = {Broad, Narrow} /\ MaxReleases \in Nat /\ MaxSpent \in Nat /\ FormCost \in Nat
    /\ MayFail \in BOOLEAN /\ Percents \subseteq {"none", "some", "half"}
    /\ Extras \subseteq Files /\ Bodies \subseteq Body
    /\ NoPackage \notin Packages
    /\ \A p \in Packages : FilesOf[p] \in SUBSET Files
<1>1. \A p \in Packages : p \in Nat \ {0} /\ FilesOf[p] \in SUBSET Files
  BY FileAssumption DEF Packages
<1> QED BY <1>1, TargetAssumption, BoundAssumption, PercentAssumption, FileAssumption, BodyAssumption
        DEF NoPackage

(* Counts of experiments stay within the bound.                            *)
LEMMA CountTypes == Created \in 0 .. MaxReleases /\ Concluded \in 0 .. MaxReleases
<1>1. \A S : S \subseteq Ids => Cardinality(S) \in 0 .. MaxReleases
  <2> SUFFICES ASSUME NEW S, S \subseteq Ids PROVE Cardinality(S) \in 0 .. MaxReleases
    OBVIOUS
  <2>1. IsFiniteSet(Ids) /\ Cardinality(Ids) = MaxReleases
    BY FS_Interval, Constants DEF Ids
  <2>2. IsFiniteSet(S) /\ Cardinality(S) <= Cardinality(Ids)
    BY <2>1, FS_Subset
  <2>3. Cardinality(S) \in Nat
    BY <2>2, FS_CardinalityType
  <2> QED BY <2>1, <2>2, <2>3, Constants
<1> QED BY <1>1 DEF Created, Concluded

LEMMA BlankTypes ==
    /\ Default \in Config /\ NoBody \in Body /\ NoExperiment \in Experiment
    /\ Free \in Request /\ Closed \in Form
<1>1. Default \in Config
  BY DEF Default, Config
<1>2. NoBody \in Body
  BY DEF NoBody, Body, MayBe
<1>3. 0 \in 0 .. MaxReleases /\ Broad \in Targets
  BY Constants
<1>4. NoExperiment \in Experiment
  BY <1>1, <1>3 DEF NoExperiment, Experiment
<1>5. Free \in Request
  BY <1>1, <1>2, <1>3 DEF Free, Request
<1>6. Closed \in Form
  BY <1>2, <1>3 DEF Closed, Form
<1> QED BY <1>1, <1>2, <1>4, <1>5, <1>6

-----------------------------------------------------------------------------
(* The inductive invariant: what each variable can really be. A body of    *)
(* the wizard splits its package; a request of a release names one; the    *)
(* wizard's fields fit together from its fifth step on; and it waits while *)
(* its one request is handled.                                             *)
SafeConfig == {c \in Config : WellSplit(c)}
SafeExperiment == {e \in Experiment : e.control \in SafeConfig /\ e.new \in SafeConfig}

Whole(b) ==
    /\ b.pkg \in Packages /\ b.block
    /\ b.imp \in SUBSET Files /\ b.lazy \in SUBSET Files /\ b.res \in SUBSET Files
    /\ b.imp \cup b.lazy = FilesOf[b.pkg] /\ b.imp \cap b.lazy = {}
    /\ PathsIn(b.res) \cap PathsIn(FilesOf[b.pkg]) = {}
SafeBody == {b \in Body : /\ b.made = "form" => Whole(b)
                          /\ b.made = "patch" => b.pkg = NoPackage}

OfRelease == {"ramp", "conclude", "put", "status", "discard"}
Known(q) ==
    /\ q.op \notin {"none", "create"} \/ q.st \in OfRelease => q.id \in Ids
    /\ q.op = "none" => q.st = "free"
    /\ q.st \in {"done", "failed"} => q.client = "form"
SafeRequest == {q \in Request : /\ q.body \in SafeBody /\ Known(q)
                                /\ q.control \in SafeConfig /\ q.new \in SafeConfig}

Fits(f) ==
    /\ f.mode = "edit" => f.id \in Ids
    /\ f.step \in {"files", "resources", "confirm", "sent"} =>
         f.pkg \in Packages /\ (~f.late => f.files = FilesOf[f.pkg] /\ f.lazy \subseteq f.files)
    /\ f.step \in {"resources", "confirm", "sent"} =>
         PathsIn(f.res) \cap PathsIn(f.files \cup PackageFiles(f.pkg)) = {}
SafeForm == {f \in Form : f.body \in SafeBody /\ Fits(f)}

Waits ==
    /\ \A s \in Slots : server[s].client = "form" => form.step = "sent"
    /\ \A s, x \in Slots : server[s].client = "form" /\ server[x].client = "form" => s = x

IInv ==
    /\ exps \in [Ids -> SafeExperiment]
    /\ contexts \in [Targets -> [set : BOOLEAN, cfg : SafeConfig]]
    /\ server \in [Slots -> SafeRequest]
    /\ form \in SafeForm
    /\ spent \in 0 .. MaxSpent
    /\ Waits

LEMMA BlankSafe ==
    /\ Default \in SafeConfig /\ NoBody \in SafeBody /\ NoExperiment \in SafeExperiment
    /\ Free \in SafeRequest /\ Closed \in SafeForm
<1>1. Default \in SafeConfig
  BY BlankTypes DEF SafeConfig, WellSplit, Default
<1>2. NoBody \in SafeBody
  BY BlankTypes DEF SafeBody, NoBody
<1>3. NoExperiment \in SafeExperiment
  BY <1>1, BlankTypes DEF SafeExperiment, NoExperiment
<1>4. Free.body = NoBody /\ Free.control = Default /\ Free.new = Default /\ Known(Free)
  BY DEF Free, Known, OfRelease
<1>5. Free \in SafeRequest
  BY <1>1, <1>2, <1>4, BlankTypes DEF SafeRequest
<1>6. Closed.body = NoBody /\ Fits(Closed)
  BY DEF Closed, Fits
<1> QED BY <1>1, <1>2, <1>3, <1>5, <1>6, BlankTypes DEF SafeForm

LEMMA InitSafe == Init => IInv
<1> SUFFICES ASSUME Init PROVE IInv
  OBVIOUS
<1>1. PICK past \in Pasts : /\ contexts = past.contexts
                            /\ exps = [i \in Ids |-> IF i = 1 THEN past.ongoing ELSE NoExperiment]
  BY DEF Init
<1>2. past.contexts \in [Targets -> [set : BOOLEAN, cfg : Config]] /\ past.ongoing \in Experiment
  BY PastAssumption
<1>3. /\ \A t \in Targets : WellSplit(past.contexts[t].cfg)
      /\ WellSplit(past.ongoing.control) /\ WellSplit(past.ongoing.new)
  BY PastSplitAssumption
<1>4. past.contexts \in [Targets -> [set : BOOLEAN, cfg : SafeConfig]]
  BY <1>2, <1>3 DEF SafeConfig
<1>5. past.ongoing.control \in Config /\ past.ongoing.new \in Config
  BY <1>2 DEF Experiment
<1>6. past.ongoing \in SafeExperiment
  BY <1>2, <1>3, <1>5 DEF SafeExperiment, SafeConfig
<1>7. Waits
  BY DEF Init, Waits, Free
<1> QED BY <1>1, <1>4, <1>6, <1>7, Constants, BlankSafe DEF Init, IInv

-----------------------------------------------------------------------------
(* The requests                                                            *)

(* What a step of a request leaves in its slot.                            *)
Replies(s) == {r \in SafeRequest : r.client \in {server[s].client, "other"}}

LEMMA GotoSafe ==
  ASSUME IInv, NEW s \in Slots, NEW r \in Replies(s), Goto(s, r), UNCHANGED form
  PROVE  server' \in [Slots -> SafeRequest] /\ Waits'
<1>1. server' = [server EXCEPT ![s] = r] /\ r \in SafeRequest
  BY DEF Goto, Replies
<1>2. server' \in [Slots -> SafeRequest]
  BY <1>1 DEF IInv
<1>3. \A x \in Slots : server'[x].client = "form" => server[x].client = "form"
  BY <1>1 DEF IInv, Replies
<1> QED BY <1>2, <1>3 DEF IInv, Waits

LEMMA AnswerSafe ==
  ASSUME IInv, NEW s \in Slots, NEW ok \in BOOLEAN, server[s].st # "free"
  PROVE  Answer(s, ok) \in Replies(s)
<1> DEFINE q == server[s]
           r == [q EXCEPT !.st = IF ok THEN "done" ELSE "failed"]
<1>1. q \in SafeRequest
  BY DEF IInv
<1>2. CASE q.client = "form" /\ form.step = "sent"
  <2>1. r \in Request /\ r.client = q.client
    BY <1>1 DEF SafeRequest, Request
  <2>2. Known(q) /\ q \in Request
    BY <1>1 DEF SafeRequest
  <2>3. Known(r)
    BY <1>2, <2>1, <2>2 DEF Known, OfRelease, Request
  <2>4. r.body = q.body /\ r.control = q.control /\ r.new = q.new
    BY <2>2 DEF Request
  <2>5. r \in SafeRequest
    BY <1>1, <2>1, <2>3, <2>4 DEF SafeRequest
  <2> QED BY <1>2, <2>1, <2>5 DEF Answer, Replies
<1>3. CASE ~(q.client = "form" /\ form.step = "sent")
  <2>1. Free \in Replies(s)
    BY BlankSafe DEF Replies, Free
  <2> QED BY <1>3, <2>1 DEF Answer
<1> QED BY <1>2, <1>3

(* A request that goes on keeps all but what it must not.                  *)
LEMMA GoesOn ==
  ASSUME IInv, NEW s \in Slots, NEW r \in Request,
         r.body = server[s].body, r.client = server[s].client, r.op = server[s].op,
         server[s].op # "none", r.st \notin {"done", "failed"},
         r.control \in SafeConfig, r.new \in SafeConfig,
         r.op \notin {"none", "create"} \/ r.st \in OfRelease => r.id \in Ids
  PROVE  r \in Replies(s)
<1>1. server[s] \in SafeRequest
  BY DEF IInv
<1>2. Known(r)
  BY DEF Known
<1> QED BY <1>1, <1>2 DEF SafeRequest, Replies

LEMMA IInvTypes == IInv => TypeOK
<1>1. SafeConfig \subseteq Config /\ SafeExperiment \subseteq Experiment
      /\ SafeRequest \subseteq Request /\ SafeForm \subseteq Form
  BY DEF SafeConfig, SafeExperiment, SafeRequest, SafeForm
<1> SUFFICES ASSUME IInv PROVE TypeOK
  OBVIOUS
<1>2. exps \in [Ids -> Experiment] /\ server \in [Slots -> Request] /\ form \in Form
  BY <1>1 DEF IInv
<1>3. contexts \in [Targets -> [set : BOOLEAN, cfg : Config]]
  BY <1>1 DEF IInv
<1> QED BY <1>2, <1>3 DEF IInv, TypeOK

(* What the fields of a request are.                                       *)
LEMMA RequestFields ==
  ASSUME IInv, NEW s \in Slots
  PROVE  LET q == server[s] IN
         /\ q \in Request /\ q.body \in SafeBody /\ Known(q) /\ q.target \in Targets
         /\ q.control \in SafeConfig /\ q.new \in SafeConfig
         /\ q.traffic \in {"none", "some", "half"} /\ q.chosen \in {"none", "control", "new"}
         /\ q.seen \in 0 .. MaxReleases /\ q.checked \in 0 .. MaxReleases
<1>1. server[s] \in SafeRequest
  BY DEF IInv
<1> QED BY <1>1 DEF SafeRequest, Request

LEMMA ExperimentFields ==
  ASSUME IInv, NEW i \in Ids
  PROVE  /\ exps[i] \in SafeExperiment /\ exps[i] \in Experiment /\ exps[i].target \in Targets
         /\ exps[i].control \in SafeConfig /\ exps[i].new \in SafeConfig
<1>1. exps[i] \in SafeExperiment
  BY DEF IInv
<1> QED BY <1>1 DEF SafeExperiment, Experiment

(* A change of one experiment.                                             *)
LEMMA RampSafe ==
  ASSUME IInv, NEW i \in Ids, NEW p \in {"none", "some", "half"}, Ramp(i, p)
  PROVE  exps' \in [Ids -> SafeExperiment]
<1> DEFINE e == [exps[i] EXCEPT !.st = "inprogress", !.traffic = p]
<1>1. e \in Experiment /\ e.control = exps[i].control /\ e.new = exps[i].new
  BY ExperimentFields DEF Experiment
<1>2. e \in SafeExperiment
  BY <1>1, ExperimentFields DEF SafeExperiment
<1>3. exps' = [exps EXCEPT ![i] = e]
  BY DEF Ramp
<1> QED BY <1>2, <1>3 DEF IInv

LEMMA StatusSafe ==
  ASSUME IInv, NEW i \in Ids, NEW e,
         \/ e = [exps[i] EXCEPT !.st = "discarded"]
         \/ e = [exps[i] EXCEPT !.settled = TRUE]
         \/ e = [exps[i] EXCEPT !.st = "concluded", !.chosen = "new", !.settled = TRUE]
         \/ \E c \in {"none", "control", "new"} :
              e = [exps[i] EXCEPT !.st = "concluded", !.chosen = c],
         exps' = [exps EXCEPT ![i] = e]
  PROVE  exps' \in [Ids -> SafeExperiment]
<1>1. e \in Experiment /\ e.control = exps[i].control /\ e.new = exps[i].new
  BY ExperimentFields DEF Experiment
<1>2. e \in SafeExperiment
  BY <1>1, ExperimentFields DEF SafeExperiment
<1> QED BY <1>2 DEF IInv

LEMMA ContextSafe ==
  ASSUME IInv, NEW i \in Ids, NEW c \in SafeConfig,
         contexts' = [contexts EXCEPT ![exps[i].target] = [set |-> TRUE, cfg |-> c]]
  PROVE  contexts' \in [Targets -> [set : BOOLEAN, cfg : SafeConfig]]
BY ExperimentFields DEF IInv

(* What a request asks for is a configuration.                             *)
LEMMA ConfigTypes ==
  ASSUME NEW b \in Body, NEW old \in Config, Accepts(b, old)
  PROVE  ConfigFor(b, old) \in Config
<1>1. PackageFor(b, old) \in Packages \cup {NoPackage}
  BY DEF PackageFor, Body, Config
<1>2. \A given \in MayBe, S \in SUBSET Files : ListOr(given, S) \in SUBSET Files
  BY DEF ListOr, MayBe
<1>3. Missing(b, old) \in Config
  BY BlankTypes DEF Missing
<1>4. b.imp \in MayBe /\ b.lazy \in MayBe /\ b.res \in MayBe
  BY DEF Body
<1>5. \A c \in Config : c.imp \in SUBSET Files /\ c.lazy \in SUBSET Files /\ c.res \in SUBSET Files
  BY DEF Config
<1>6. /\ ListOr(b.imp, Missing(b, old).imp) \in SUBSET Files
      /\ ListOr(b.lazy, Missing(b, old).lazy) \in SUBSET Files
      /\ ResourcesFor(b, old) \in SUBSET Files
  BY <1>2, <1>3, <1>4, <1>5 DEF ResourcesFor
<1>7. b.made \in {"form", "late", "api", "patch"}
  BY DEF Body
<1> QED BY <1>1, <1>5, <1>6, <1>7 DEF ConfigFor, Config

(* And it splits its package, if the one in use did: a list left out is of *)
(* the package it is of.                                                   *)
LEMMA ConfigSafe ==
  ASSUME NEW b \in SafeBody, NEW old \in SafeConfig, Accepts(b, old)
  PROVE  ConfigFor(b, old) \in SafeConfig
<1> DEFINE c == ConfigFor(b, old)
           pkg == PackageFor(b, old)
<1>1. b \in Body /\ old \in Config /\ WellSplit(old)
  BY DEF SafeBody, SafeConfig
<1>2. c \in Config
  BY <1>1, ConfigTypes
<1>3. /\ c.pkg = pkg /\ c.res = ResourcesFor(b, old) /\ c.made = b.made
      /\ c.imp = IF b.block THEN ListOr(b.imp, Missing(b, old).imp) ELSE old.imp
      /\ c.lazy = IF b.block THEN ListOr(b.lazy, Missing(b, old).lazy) ELSE old.lazy
  BY DEF ConfigFor
<1>4. CASE b.pkg = NoPackage
  <2>1. pkg = old.pkg /\ old.pkg # NoPackage /\ Missing(b, old) = old
    BY <1>4 DEF Accepts, PackageFor, Missing
  <2>2. /\ old.imp \cup old.lazy \subseteq FilesOf[pkg] /\ old.res \cap FilesOf[pkg] = {}
    BY <1>1, <2>1 DEF WellSplit, Splits
  <2>3. c.imp \cup c.lazy \subseteq FilesOf[pkg]
    BY <1>3, <2>1, <2>2 DEF Accepts, ListOr
  <2>4. c.res \cap FilesOf[pkg] = {}
    BY <1>3, <2>2 DEF Accepts, ResourcesFor
  <2>5. b.made # "form"
    BY <1>4, Constants DEF SafeBody, Whole
  <2> QED BY <1>2, <1>3, <2>3, <2>4, <2>5 DEF SafeConfig, WellSplit, Splits
<1>5. CASE b.pkg # NoPackage
  <2>1. pkg = b.pkg /\ b.block /\ Missing(b, old).imp = {} /\ Missing(b, old).lazy = {}
    BY <1>5 DEF Accepts, PackageFor, Missing, Default
  <2>2. c.imp = ListOr(b.imp, {}) /\ c.lazy = ListOr(b.lazy, {})
    BY <1>3, <2>1
  <2>3. c.imp \cup c.lazy \subseteq FilesOf[pkg] /\ c.res \cap FilesOf[pkg] = {}
    BY <1>3, <2>1, <2>2 DEF Accepts
  <2>4. ASSUME b.made = "form"
        PROVE  PathsIn(c.res) \cap PathsIn(FilesOf[pkg]) = {} /\ Complete(c)
    <3>1. Whole(b)
      BY <2>4 DEF SafeBody
    <3>2. c.imp = b.imp /\ c.lazy = b.lazy /\ c.res = b.res
      BY <1>3, <2>1, <2>2, <3>1, NoneAssumption DEF Whole, ListOr, ResourcesFor
    <3> QED BY <1>3, <2>1, <3>1, <3>2 DEF Whole, Complete
  <2>5. c \in SafeConfig
    <3> HIDE DEF c, pkg
    <3> QED BY <1>2, <1>3, <2>3, <2>4 DEF SafeConfig, WellSplit, Splits
  <2> QED BY <2>5
<1> QED BY <1>4, <1>5

LEMMA ResolvedSafe ==
  ASSUME IInv, NEW t \in Targets
  PROVE  Resolved(t) \in SafeConfig
<1>1. \A x \in Targets : contexts[x].cfg \in SafeConfig
  BY DEF IInv
<1> QED BY <1>1, Constants, BlankSafe DEF Resolved, ResolvedIn

LEMMA CreateSafe ==
  ASSUME IInv, NEW s \in Slots,
         CheckOngoing(s) \/ Build(s) \/ CreateExperiment(s) \/ RampFirst(s) \/ ConcludeFirst(s)
  PROVE  IInv'
<1> DEFINE q == server[s]
<1>1. /\ q \in Request /\ q.body \in SafeBody /\ Known(q) /\ q.target \in Targets
      /\ q.control \in SafeConfig /\ q.new \in SafeConfig
  BY RequestFields
<1>2. q.st # "free" => \A ok \in BOOLEAN : Answer(s, ok) \in Replies(s)
  BY AnswerSafe
<1>3. UNCHANGED <<form, spent>>
  BY DEF CheckOngoing, Build, CreateExperiment, RampFirst, ConcludeFirst
<1>4. CASE CheckOngoing(s)
  <2> DEFINE r == [q EXCEPT !.st = "build", !.checked = Created]
  <2>1. q.op = "create" /\ q.st = "check"
    BY <1>4 DEF CheckOngoing, Step
  <2>2. r \in Request /\ r.op = q.op /\ r.st = "build" /\ r.body = q.body /\ r.client = q.client
        /\ r.control = q.control /\ r.new = q.new
    BY <1>1, CountTypes DEF Request
  <2>3. r \in Replies(s)
    BY <1>1, <2>1, <2>2, GoesOn DEF OfRelease
  <2>4. (\E x \in Replies(s) : Goto(s, x)) /\ UNCHANGED superposition
    BY <1>2, <1>4, <2>1, <2>3 DEF CheckOngoing, Refuse
  <2> QED BY <1>3, <2>4, GotoSafe DEF IInv, superposition
<1>5. CASE Build(s)
  <2> DEFINE old == Base(q.target)
             r == [q EXCEPT !.st = IF q.op = "create" THEN "create" ELSE "put",
                            !.control = old, !.new = ConfigFor(q.body, old),
                            !.seen = Concluded]
  <2>1. q.st = "build" /\ q.op # "none"
    BY <1>1, <1>5 DEF Build, Known
  <2>2. old \in SafeConfig
    BY <1>1, ResolvedSafe DEF Base
  <2>3. ASSUME Accepts(q.body, old) PROVE r \in Replies(s)
    <3>1. ConfigFor(q.body, old) \in SafeConfig
      BY <1>1, <2>2, <2>3, ConfigSafe
    <3>2. /\ r \in Request /\ r.op = q.op /\ r.st \in {"create", "put"} /\ r.body = q.body
          /\ r.client = q.client /\ r.id = q.id /\ r.control \in SafeConfig /\ r.new \in SafeConfig
          /\ q.op = "create" => r.st = "create"
      <4> HIDE DEF old
      <4> QED BY <1>1, <2>2, <3>1, CountTypes DEF Request, SafeConfig
    <3>3. q.op # "create" => q.id \in Ids
      BY <1>1, <2>1 DEF Known
    <3> HIDE DEF r
    <3> QED BY <2>1, <3>2, <3>3, GoesOn DEF OfRelease
  <2>4. (\E x \in Replies(s) : Goto(s, x)) /\ UNCHANGED superposition
    BY <1>2, <1>5, <2>1, <2>3 DEF Build, Refuse
  <2> QED BY <1>3, <2>4, GotoSafe DEF IInv, superposition
<1>6. CASE CreateExperiment(s)
  <2> DEFINE id == Created + 1
             first == q.control.pkg = NoPackage
             e == [NoExperiment EXCEPT !.st = "created", !.target = q.target, !.control = q.control,
                                    !.new = q.new, !.variant = q.new.pkg, !.of = q.target,
                                    !.seen = q.seen, !.checked = q.checked,
                                    !.first = first, !.settled = ~first]
             r == [q EXCEPT !.st = "ramp", !.id = id]
  <2>1. q.op = "create" /\ q.st = "create"
    BY <1>6 DEF CreateExperiment, Step
  <2>2. q.control \in Config /\ q.new \in Config /\ q.new.pkg \in Packages \cup {NoPackage}
    BY <1>1 DEF SafeConfig, Config
  <2>3. e \in SafeExperiment
    <3>1. first \in BOOLEAN
      OBVIOUS
    <3> HIDE DEF first
    <3>2. NoExperiment \in Experiment
      BY BlankTypes
    <3>3. e \in Experiment /\ e.control = q.control /\ e.new = q.new
      BY <1>1, <2>2, <3>1, <3>2 DEF Request, Experiment
    <3> QED BY <1>1, <3>3 DEF SafeExperiment
  <2>4. id \in Ids /\ exps' = [exps EXCEPT ![id] = e]
    BY <1>6 DEF CreateExperiment
  <2>5. exps' \in [Ids -> SafeExperiment]
    <3> HIDE DEF e, id
    <3> QED BY <2>3, <2>4 DEF IInv
  <2>6. r \in Replies(s)
    <3>1. /\ r \in Request /\ r.op = q.op /\ r.st = "ramp" /\ r.body = q.body /\ r.client = q.client
          /\ r.id \in Ids /\ r.control = q.control /\ r.new = q.new
      <4> HIDE DEF id
      <4> QED BY <1>1, <2>4 DEF Request
    <3> HIDE DEF r
    <3> QED BY <1>1, <2>1, <3>1, GoesOn
  <2>7. Goto(s, r) \/ Goto(s, Answer(s, TRUE))
    BY <1>6 DEF CreateExperiment
  <2>8. \E x \in Replies(s) : Goto(s, x)
    BY <1>2, <2>1, <2>6, <2>7
  <2> QED BY <1>3, <1>6, <2>5, <2>8, GotoSafe DEF IInv, CreateExperiment
<1>7. CASE RampFirst(s)
  <2> DEFINE r == [q EXCEPT !.st = "conclude"]
  <2>1. q.op = "create" /\ q.st = "ramp" /\ q.id \in Ids
    BY <1>1, <1>7 DEF RampFirst, Step, Known, OfRelease
  <2>2. r \in Request /\ r.op = q.op /\ r.st = "conclude" /\ r.body = q.body /\ r.client = q.client
        /\ r.id = q.id /\ r.control = q.control /\ r.new = q.new
    BY <1>1 DEF Request
  <2>3. r \in Replies(s)
    BY <1>1, <2>1, <2>2, GoesOn
  <2>4. \E x \in Replies(s) : Goto(s, x)
    BY <1>2, <1>7, <2>1, <2>3 DEF RampFirst, Refuse
  <2>5. exps' \in [Ids -> SafeExperiment] /\ UNCHANGED contexts
    BY <1>7, <2>1, RampSafe DEF RampFirst, Refuse, superposition, IInv
  <2> QED BY <1>3, <2>4, <2>5, GotoSafe DEF IInv
<1>8. CASE ConcludeFirst(s)
  <2>1. q.op = "create" /\ q.st = "conclude" /\ q.id \in Ids
    BY <1>1, <1>8 DEF ConcludeFirst, Step, Known, OfRelease
  <2>2. \E x \in Replies(s) : Goto(s, x)
    BY <1>2, <1>8, <2>1 DEF ConcludeFirst
  <2>3. CASE Ongoing(q.id) /\ exps[q.id].variant = 1
    <3>1. /\ exps' = [exps EXCEPT ![q.id] = [exps[q.id] EXCEPT !.st = "concluded", !.chosen = "new",
                                                               !.settled = TRUE]]
          /\ contexts' = [contexts EXCEPT ![exps[q.id].target] = [set |-> TRUE, cfg |-> exps[q.id].new]]
      BY <1>8, <2>3 DEF ConcludeFirst
    <3>2. exps' \in [Ids -> SafeExperiment]
      BY <2>1, <3>1, StatusSafe
    <3>3. contexts' \in [Targets -> [set : BOOLEAN, cfg : SafeConfig]]
      BY <2>1, <3>1, ExperimentFields, ContextSafe
    <3> QED BY <1>3, <2>2, <3>2, <3>3, GotoSafe DEF IInv
  <2>4. CASE ~(Ongoing(q.id) /\ exps[q.id].variant = 1)
    <3>1. exps' = [exps EXCEPT ![q.id] = [exps[q.id] EXCEPT !.settled = TRUE]] /\ UNCHANGED contexts
      BY <1>8, <2>4 DEF ConcludeFirst
    <3>2. exps' \in [Ids -> SafeExperiment]
      BY <2>1, <3>1, StatusSafe
    <3> QED BY <1>3, <2>2, <3>1, <3>2, GotoSafe DEF IInv
  <2> QED BY <2>3, <2>4
<1> QED BY <1>4, <1>5, <1>6, <1>7, <1>8

LEMMA ChangeSafe ==
  ASSUME IInv, NEW s \in Slots,
         PutOverrides(s) \/ RampRelease(s) \/ ConcludeRelease(s) \/ ReadStatus(s)
         \/ DiscardRelease(s) \/ Fault(s)
  PROVE  IInv'
<1> DEFINE q == server[s]
<1>1. /\ q \in Request /\ q.body \in SafeBody /\ Known(q) /\ q.target \in Targets
      /\ q.control \in SafeConfig /\ q.new \in SafeConfig
      /\ q.traffic \in {"none", "some", "half"} /\ q.chosen \in {"none", "control", "new"}
      /\ q.seen \in 0 .. MaxReleases
  BY RequestFields
<1>2. q.st # "free" => \A ok \in BOOLEAN : Answer(s, ok) \in Replies(s)
  BY AnswerSafe
<1>3. UNCHANGED <<form, spent>>
  BY DEF PutOverrides, RampRelease, ConcludeRelease, ReadStatus, DiscardRelease, Fault
<1>4. CASE PutOverrides(s)
  <2> DEFINE e == [exps[q.id] EXCEPT !.control = q.control, !.new = q.new,
                                     !.of = q.target, !.seen = q.seen]
  <2>1. q.op = "update" /\ q.st = "put" /\ q.id \in Ids
    BY <1>1, <1>4 DEF PutOverrides, Step, Known, OfRelease
  <2>2. \E x \in Replies(s) : Goto(s, x)
    BY <1>2, <1>4, <2>1 DEF PutOverrides, Refuse
  <2>3. e \in SafeExperiment
    <3>1. q.control \in Config /\ q.new \in Config
      BY <1>1 DEF SafeConfig
    <3>2. e \in Experiment /\ e.control = q.control /\ e.new = q.new
      BY <1>1, <2>1, <3>1, ExperimentFields DEF Experiment
    <3> QED BY <1>1, <3>2 DEF SafeExperiment
  <2>4. exps' = [exps EXCEPT ![q.id] = e] \/ UNCHANGED exps
    BY <1>4 DEF PutOverrides, Refuse, superposition
  <2>5. exps' \in [Ids -> SafeExperiment]
    <3> HIDE DEF e
    <3> QED BY <2>3, <2>4 DEF IInv
  <2>6. UNCHANGED contexts
    BY <1>4 DEF PutOverrides, Refuse, superposition
  <2> QED BY <1>3, <2>2, <2>5, <2>6, GotoSafe DEF IInv
<1>5. CASE RampRelease(s)
  <2>1. q.op = "ramp" /\ q.st = "ramp" /\ q.id \in Ids
    BY <1>1, <1>5 DEF RampRelease, Step, Known, OfRelease
  <2>2. \E x \in Replies(s) : Goto(s, x)
    BY <1>2, <1>5, <2>1 DEF RampRelease, Refuse
  <2>3. exps' \in [Ids -> SafeExperiment] /\ UNCHANGED contexts
    BY <1>1, <1>5, <2>1, RampSafe DEF RampRelease, Refuse, superposition, IInv
  <2> QED BY <1>3, <2>2, <2>3, GotoSafe DEF IInv
<1>6. CASE ConcludeRelease(s)
  <2>1. q.op = "conclude" /\ q.st = "conclude" /\ q.id \in Ids
    BY <1>1, <1>6 DEF ConcludeRelease, Step, Known, OfRelease
  <2>2. \E x \in Replies(s) : Goto(s, x)
    BY <1>2, <1>6, <2>1 DEF ConcludeRelease, Refuse
  <2>3. CASE Ongoing(q.id)
    <3> DEFINE c == IF q.chosen = "new" THEN exps[q.id].new ELSE exps[q.id].control
    <3>1. /\ exps' = [exps EXCEPT ![q.id] = [exps[q.id] EXCEPT !.st = "concluded", !.chosen = q.chosen]]
          /\ contexts' = [contexts EXCEPT ![exps[q.id].target] = [set |-> TRUE, cfg |-> c]]
      BY <1>6, <2>3 DEF ConcludeRelease, Conclude
    <3>2. exps' \in [Ids -> SafeExperiment]
      BY <1>1, <2>1, <3>1, StatusSafe
    <3>3. c \in SafeConfig
      BY <2>1, ExperimentFields
    <3>4. contexts' \in [Targets -> [set : BOOLEAN, cfg : SafeConfig]]
      <4> HIDE DEF c
      <4> QED BY <2>1, <3>1, <3>3, ContextSafe
    <3> QED BY <1>3, <2>2, <3>2, <3>4, GotoSafe DEF IInv
  <2>4. CASE ~Ongoing(q.id)
    <3>1. UNCHANGED superposition
      BY <1>6, <2>4 DEF ConcludeRelease, Refuse
    <3> QED BY <1>3, <2>2, <3>1, GotoSafe DEF IInv, superposition
  <2> QED BY <2>3, <2>4
<1>7. CASE ReadStatus(s)
  <2> DEFINE r == [q EXCEPT !.st = "discard"]
  <2>1. q.op = "discard" /\ q.st = "status" /\ q.id \in Ids
    BY <1>1, <1>7 DEF ReadStatus, Step, Known, OfRelease
  <2>2. r \in Request /\ r.op = q.op /\ r.st = "discard" /\ r.body = q.body /\ r.client = q.client
        /\ r.id = q.id /\ r.control = q.control /\ r.new = q.new
    BY <1>1 DEF Request
  <2>3. r \in Replies(s)
    BY <1>1, <2>1, <2>2, GoesOn
  <2>4. (\E x \in Replies(s) : Goto(s, x)) /\ UNCHANGED superposition
    BY <1>2, <1>7, <2>1, <2>3 DEF ReadStatus, Refuse
  <2> QED BY <1>3, <2>4, GotoSafe DEF IInv, superposition
<1>8. CASE DiscardRelease(s)
  <2>1. q.op = "discard" /\ q.st = "discard" /\ q.id \in Ids
    BY <1>1, <1>8 DEF DiscardRelease, Step, Known, OfRelease
  <2>2. \E x \in Replies(s) : Goto(s, x)
    BY <1>2, <1>8, <2>1 DEF DiscardRelease, Refuse
  <2>3. UNCHANGED contexts
    BY <1>8 DEF DiscardRelease, Refuse, superposition
  <2>4. exps' = [exps EXCEPT ![q.id] = [exps[q.id] EXCEPT !.st = "discarded"]] \/ UNCHANGED exps
    BY <1>8 DEF DiscardRelease, Refuse, superposition
  <2>5. exps' \in [Ids -> SafeExperiment]
    BY <2>1, <2>4, StatusSafe DEF IInv
  <2> QED BY <1>3, <2>2, <2>3, <2>5, GotoSafe DEF IInv
<1>9. CASE Fault(s)
  <2>1. q.st # "free"
    BY <1>9 DEF Fault
  <2>2. \E x \in Replies(s) : Goto(s, x)
    BY <1>2, <1>9, <2>1 DEF Fault, Refuse
  <2>3. UNCHANGED contexts
    BY <1>9 DEF Fault, Refuse, superposition
  <2>4. \/ UNCHANGED exps
        \/ q.st = "conclude" /\ exps' = [exps EXCEPT ![q.id] = [exps[q.id] EXCEPT !.settled = TRUE]]
    BY <1>9 DEF Fault, Refuse, superposition
  <2>5. q.st = "conclude" => q.id \in Ids
    BY <1>1 DEF Known, OfRelease
  <2>6. exps' \in [Ids -> SafeExperiment]
    BY <2>4, <2>5, StatusSafe DEF IInv
  <2> QED BY <1>3, <2>2, <2>3, <2>6, GotoSafe DEF IInv
<1> QED BY <1>4, <1>5, <1>6, <1>7, <1>8, <1>9

(* A request of another client than the wizard.                            *)
LEMMA OthersSafe == ASSUME IInv, ClientSends PROVE IInv'
<1> DEFINE Starts == {r \in SafeRequest : r.client = "other"}
<1>1. Free \in Request /\ Free.st = "free" /\ Free.op = "none" /\ Free.client = "other"
      /\ Free.body \in SafeBody /\ Free.control \in SafeConfig /\ Free.new \in SafeConfig
  BY BlankSafe DEF SafeRequest, Free
<1>2. 1 .. Created \subseteq Ids
  BY CountTypes, Constants DEF Ids
<1>3. \A b \in Bodies : b \in Body /\ b \in SafeBody
  BY BodyAssumption DEF SafeBody
<1>4. ASSUME NEW t \in Targets, NEW b \in Bodies
      PROVE  [Free EXCEPT !.op = "create", !.st = "check", !.target = t, !.body = b] \in Starts
  <2> DEFINE r == [Free EXCEPT !.op = "create", !.st = "check", !.target = t, !.body = b]
  <2>1. r \in Request /\ r.op = "create" /\ r.st = "check" /\ r.client = "other" /\ r.body = b
        /\ r.control = Free.control /\ r.new = Free.new
    BY <1>1, <1>3 DEF Request
  <2> HIDE DEF r
  <2>2. r \in Starts
    BY <1>1, <1>3, <2>1 DEF SafeRequest, Known, OfRelease
  <2> QED BY <2>2 DEF r
<1>5. ASSUME NEW t \in Targets, NEW b \in Bodies, NEW i \in 1 .. Created
      PROVE  [Free EXCEPT !.op = "update", !.st = "build", !.id = i, !.target = t, !.body = b]
               \in Starts
  <2> DEFINE r == [Free EXCEPT !.op = "update", !.st = "build", !.id = i, !.target = t, !.body = b]
  <2>1. r \in Request /\ r.op = "update" /\ r.st = "build" /\ r.client = "other" /\ r.body = b
        /\ r.id \in Ids /\ r.control = Free.control /\ r.new = Free.new
    BY <1>1, <1>2, <1>3 DEF Request
  <2> HIDE DEF r
  <2>2. r \in Starts
    BY <1>1, <1>3, <2>1 DEF SafeRequest, Known
  <2> QED BY <2>2 DEF r
<1>6. ASSUME NEW i \in 1 .. Created, NEW r,
             \/ \E p \in Percents :
                  r = [Free EXCEPT !.op = "ramp", !.st = "ramp", !.id = i, !.traffic = p]
             \/ \E c \in {"control", "new"} :
                  r = [Free EXCEPT !.op = "conclude", !.st = "conclude", !.id = i, !.chosen = c]
             \/ r = [Free EXCEPT !.op = "discard", !.st = "status", !.id = i]
      PROVE  r \in Starts
  <2>1. r \in Request /\ r.op # "none" /\ r.st \notin {"done", "failed"} /\ r.client = "other"
        /\ r.body = Free.body /\ r.id \in Ids /\ r.control = Free.control /\ r.new = Free.new
    <3>1. i \in Ids
      BY <1>2
    <3>2. CASE \E p \in Percents :
                 r = [Free EXCEPT !.op = "ramp", !.st = "ramp", !.id = i, !.traffic = p]
      <4>1. PICK p \in {"none", "some", "half"} :
              r = [Free EXCEPT !.op = "ramp", !.st = "ramp", !.id = i, !.traffic = p]
        BY <3>2, Constants
      <4> QED BY <1>1, <3>1, <4>1 DEF Request
    <3>3. CASE \E c \in {"control", "new"} :
                 r = [Free EXCEPT !.op = "conclude", !.st = "conclude", !.id = i, !.chosen = c]
      BY <1>1, <3>1, <3>3 DEF Request
    <3>4. CASE r = [Free EXCEPT !.op = "discard", !.st = "status", !.id = i]
      BY <1>1, <3>1, <3>4 DEF Request
    <3> QED BY <1>6, <3>2, <3>3, <3>4
  <2> QED BY <1>1, <2>1 DEF SafeRequest, Known
<1>7. \E r \in Starts : Send(r)
  BY <1>4, <1>5, <1>6 DEF ClientSends
<1>8. PICK r \in Starts, s \in Slots : Goto(s, r)
  BY <1>7 DEF Send
<1>9. r \in Replies(s)
  BY <1>8 DEF Replies
<1>10. spent < MaxSpent /\ spent' = spent + 1 /\ UNCHANGED <<superposition, form>>
  BY DEF ClientSends
<1>11. spent' \in 0 .. MaxSpent
  BY <1>10, Constants DEF IInv
<1> HIDE DEF Starts
<1> QED BY <1>8, <1>9, <1>10, <1>11, GotoSafe DEF IInv, superposition

-----------------------------------------------------------------------------
(* The wizard                                                              *)

LEMMA FormFields ==
  ASSUME IInv
  PROVE  /\ form \in Form /\ form.body \in SafeBody /\ Fits(form)
         /\ form.pkg \in Packages \cup {NoPackage} /\ form.initial \in Packages \cup {NoPackage}
         /\ form.files \in SUBSET Files /\ form.lazy \in SUBSET Files /\ form.res \in SUBSET Files
         /\ form.late \in BOOLEAN /\ form.target \in Targets
<1>1. form \in SafeForm
  BY DEF IInv
<1> QED BY <1>1 DEF SafeForm, Form

(* A step of the wizard alone.                                             *)
LEMMA FormSafe ==
  ASSUME IInv, FormStays, form' \in SafeForm, form.step = "sent" => form'.step = "sent"
  PROVE  IInv'
BY DEF IInv, FormStays, superposition, Waits

LEMMA PackageFilesType ==
  ASSUME NEW p \in Packages \cup {NoPackage} PROVE PackageFiles(p) \in SUBSET Files
BY Constants DEF PackageFiles

(* What the effects of the fifth and the sixth step leave.                 *)
LEMMA PrioritisedSafe ==
  ASSUME NEW f \in Form, f.step = "files", f.pkg \in Packages, f.body \in SafeBody,
         f.mode = "edit" => f.id \in Ids
  PROVE  Prioritised(f) \in SafeForm /\ Prioritised(f).step = "files"
<1> DEFINE L == {x \in Shown(f) : \/ x \in f.lazy
                                  \/ f.files = {} /\ PathOf[x] \in PathsIn(f.lazy)}
           g == [f EXCEPT !.files = Shown(f), !.late = FALSE, !.lazy = L]
<1>1. Shown(f) = FilesOf[f.pkg] /\ Shown(f) \in SUBSET Files
  BY Constants DEF Shown, PackageFiles
<1>2. L \in SUBSET Files /\ L \subseteq Shown(f)
  BY <1>1
<1> HIDE DEF L
<1>3. /\ g \in Form /\ g.step = "files" /\ g.pkg = f.pkg /\ g.body = f.body /\ g.mode = f.mode
      /\ g.id = f.id /\ g.files = Shown(f) /\ g.lazy = L
  BY <1>1, <1>2 DEF Form
<1>4. Prioritised(f) = g
  BY DEF Prioritised, L
<1> HIDE DEF g
<1>5. Fits(g)
  BY <1>1, <1>2, <1>3 DEF Fits
<1> QED BY <1>3, <1>4, <1>5 DEF SafeForm

LEMMA StrippedSafe ==
  ASSUME NEW f \in Form, f.body \in SafeBody, f.mode = "edit" => f.id \in Ids,
         f.step \in {"files", "resources", "confirm", "sent"} =>
           f.pkg \in Packages /\ (~f.late => f.files = FilesOf[f.pkg] /\ f.lazy \subseteq f.files)
  PROVE  Stripped(f) \in SafeForm /\ Stripped(f).step = f.step
<1> DEFINE R == WithoutPaths(f)
           g == [f EXCEPT !.res = R]
<1>1. R \subseteq f.res /\ f.res \in SUBSET Files
  BY DEF WithoutPaths, Form
<1>2. PathsIn(R) \cap PathsIn(f.files \cup PackageFiles(f.pkg)) = {}
  BY DEF WithoutPaths, PathsIn
<1> HIDE DEF R
<1>3. /\ g \in Form /\ g.step = f.step /\ g.pkg = f.pkg /\ g.body = f.body /\ g.mode = f.mode
      /\ g.id = f.id /\ g.files = f.files /\ g.lazy = f.lazy /\ g.late = f.late /\ g.res = R
  BY <1>1 DEF Form
<1>4. Stripped(f) = g
  BY DEF Stripped, R
<1> HIDE DEF g
<1>5. Fits(g)
  BY <1>2, <1>3 DEF Fits
<1> QED BY <1>3, <1>4, <1>5 DEF SafeForm

LEMMA OpenSafe == ASSUME IInv, OpenForm PROVE IInv'
<1>1. form' \in SafeForm
  <2>1. CASE form' = [Closed EXCEPT !.step = "package"]
    <3>1. form' \in Form /\ form'.step = "package" /\ form'.mode = "create" /\ form'.body = NoBody
      BY <2>1, BlankTypes DEF Form, Closed
    <3> QED BY <3>1, BlankSafe DEF SafeForm, Fits
  <2>2. ASSUME NEW i \in 1 .. Created, NEW mode \in {"edit", "clone"},
               form' = [Closed EXCEPT !.step = "package", !.mode = mode,
                                      !.id = IF mode = "edit" THEN i ELSE 0,
                                      !.initial = exps[i].new.pkg, !.lazy = exps[i].new.lazy,
                                      !.res = exps[i].new.res]
        PROVE  form' \in SafeForm
    <3>1. i \in Ids
      BY CountTypes, Constants DEF Ids
    <3>2. exps[i].new \in Config
      BY <3>1, ExperimentFields DEF SafeConfig
    <3>3. /\ exps[i].new.pkg \in Packages \cup {NoPackage} /\ exps[i].new.lazy \in SUBSET Files
          /\ exps[i].new.res \in SUBSET Files
      BY <3>2 DEF Config
    <3>4. Closed \in Form /\ Closed.body = NoBody
      BY BlankTypes DEF Closed
    <3>5. /\ form' \in Form /\ form'.step = "package" /\ form'.body = NoBody
          /\ form'.mode = "edit" => form'.id \in Ids
      BY <2>2, <3>1, <3>3, <3>4 DEF Form
    <3> QED BY <3>5, BlankSafe DEF SafeForm, Fits
  <2> QED BY <2>1, <2>2 DEF OpenForm
<1>2. spent + FormCost <= MaxSpent /\ spent' = spent + FormCost /\ form.step = "closed"
      /\ UNCHANGED <<superposition, server>>
  BY DEF OpenForm
<1>3. spent' \in 0 .. MaxSpent
  BY <1>2, Constants DEF IInv
<1>4. Waits'
  BY <1>2 DEF IInv, Waits
<1> QED BY <1>1, <1>2, <1>3, <1>4 DEF IInv, superposition

LEMMA EffectSafe ==
  ASSUME IInv, CloseForm \/ PickPackage \/ NextStep \/ PreviousStep \/ InitialPackage
               \/ SetPriority \/ ChooseResources
  PROVE  IInv'
<1>1. /\ form \in Form /\ form.body \in SafeBody /\ Fits(form)
      /\ form.pkg \in Packages \cup {NoPackage} /\ form.initial \in Packages \cup {NoPackage}
      /\ form.files \in SUBSET Files /\ form.lazy \in SUBSET Files /\ form.res \in SUBSET Files
      /\ form.late \in BOOLEAN
  BY FormFields
<1>2. FormStays
  BY DEF CloseForm, PickPackage, NextStep, PreviousStep, InitialPackage, SetPriority,
         ChooseResources
<1>3. ASSUME form' \in SafeForm, form.step = "sent" => form'.step = "sent" PROVE IInv'
  BY <1>2, <1>3, FormSafe
<1>4. CASE CloseForm
  <2>1. form.step # "sent" /\ form' \in SafeForm
    BY <1>4, BlankSafe DEF CloseForm
  <2> QED BY <1>3, <2>1
<1>5. CASE PickPackage
  <2>1. form.step = "package"
    BY <1>5 DEF PickPackage
  <2>2. PICK p \in Packages \cup {NoPackage} : form' = [form EXCEPT !.pkg = p]
    BY <1>5 DEF PickPackage
  <2>3. /\ form' \in Form /\ form'.step = "package" /\ form'.body = form.body
        /\ form'.mode = form.mode /\ form'.id = form.id
    BY <1>1, <2>1, <2>2 DEF Form
  <2>4. form' \in SafeForm
    BY <1>1, <2>3 DEF SafeForm, Fits
  <2> QED BY <1>3, <2>1, <2>4
<1>6. CASE NextStep
  <2>1. CASE form.step = "package" /\ form.pkg # NoPackage
    <3> DEFINE f == [form EXCEPT !.step = "files"]
    <3>1. form' = Prioritised(f)
      BY <1>6, <2>1 DEF NextStep
    <3>2. /\ f \in Form /\ f.step = "files" /\ f.pkg \in Packages /\ f.body \in SafeBody
          /\ f.mode = "edit" => f.id \in Ids
      BY <1>1, <2>1 DEF Form, Fits
    <3> HIDE DEF f
    <3>3. form' \in SafeForm
      BY <3>1, <3>2, PrioritisedSafe
    <3> QED BY <1>3, <2>1, <3>3
  <2>2. CASE form.step = "files"
    <3> DEFINE f == [form EXCEPT !.step = "resources"]
    <3>1. form' = Stripped(f)
      BY <1>6, <2>2 DEF NextStep
    <3>2. /\ f \in Form /\ f.body \in SafeBody /\ (f.mode = "edit" => f.id \in Ids)
          /\ f.pkg \in Packages /\ (~f.late => f.files = FilesOf[f.pkg] /\ f.lazy \subseteq f.files)
      BY <1>1, <2>2 DEF Form, Fits
    <3> HIDE DEF f
    <3>3. form' \in SafeForm
      BY <3>1, <3>2, StrippedSafe
    <3> QED BY <1>3, <2>2, <3>3
  <2> QED BY <1>6, <2>1, <2>2 DEF NextStep
<1>7. CASE PreviousStep
  <2>1. CASE form.step = "resources"
    <3> DEFINE f == [form EXCEPT !.step = "files"]
    <3>1. form' = Prioritised(f)
      BY <1>7, <2>1 DEF PreviousStep
    <3>2. /\ f \in Form /\ f.step = "files" /\ f.pkg \in Packages /\ f.body \in SafeBody
          /\ f.mode = "edit" => f.id \in Ids
      BY <1>1, <2>1 DEF Form, Fits
    <3> HIDE DEF f
    <3>3. form' \in SafeForm
      BY <3>1, <3>2, PrioritisedSafe
    <3> QED BY <1>3, <2>1, <3>3
  <2>2. CASE form.step = "files"
    <3>1. form' = [form EXCEPT !.step = "package"]
      BY <1>7, <2>2 DEF PreviousStep
    <3>2. /\ form' \in Form /\ form'.step = "package" /\ form'.body = form.body
          /\ form'.mode = form.mode /\ form'.id = form.id
      BY <1>1, <3>1 DEF Form
    <3>3. form' \in SafeForm
      BY <1>1, <3>2 DEF SafeForm, Fits
    <3> QED BY <1>3, <2>2, <3>3
  <2> QED BY <1>7, <2>1, <2>2 DEF PreviousStep
<1>8. CASE InitialPackage
  <2> DEFINE got == [form EXCEPT !.pkg = form.initial, !.initial = NoPackage]
             h == [got EXCEPT !.late = got.late \/ form.pkg # form.initial]
  <2>1. form.initial \in Packages
    BY <1>1, <1>8 DEF InitialPackage
  <2>2. /\ got \in Form /\ got.body = form.body /\ got.mode = form.mode /\ got.id = form.id
        /\ got.step = form.step /\ got.pkg = form.initial /\ got.late = form.late
        /\ got.files = form.files /\ got.lazy = form.lazy
    BY <1>1, <2>1 DEF Form
  <2>3. form' = CASE form.step = "files" -> Prioritised(got)
                  [] form.step = "package" -> got
                  [] OTHER -> Stripped(h)
    BY <1>8 DEF InitialPackage
  <2> HIDE DEF got
  <2>4. CASE form.step = "files"
    <3>1. form' = Prioritised(got)
      BY <2>3, <2>4
    <3>2. form' \in SafeForm
      BY <1>1, <2>1, <2>2, <2>4, <3>1, PrioritisedSafe DEF Fits
    <3> QED BY <1>3, <2>4, <3>2
  <2>5. CASE form.step = "package"
    <3>1. form' = got
      BY <2>3, <2>5
    <3>2. form' \in SafeForm
      BY <1>1, <2>2, <2>5, <3>1 DEF SafeForm, Fits
    <3> QED BY <1>3, <2>5, <3>2
  <2>6. CASE form.step \notin {"files", "package"}
    <3>1. form' = Stripped(h)
      BY <2>3, <2>6
    <3>2. (form.pkg # form.initial) \in BOOLEAN
      OBVIOUS
    <3>3. /\ h \in Form /\ h.body = form.body /\ h.mode = form.mode /\ h.id = form.id
          /\ h.step = form.step /\ h.pkg = form.initial /\ h.files = form.files /\ h.lazy = form.lazy
      BY <1>1, <2>2 DEF Form
    <3>4. h.late = (form.late \/ form.pkg # form.initial)
      BY <2>2 DEF Form
    <3> HIDE DEF h
    <3>5. h.step \in {"files", "resources", "confirm", "sent"} =>
            h.pkg \in Packages /\ (~h.late => h.files = FilesOf[h.pkg] /\ h.lazy \subseteq h.files)
      BY <1>1, <2>1, <3>3, <3>4 DEF Fits
    <3>6. h.body \in SafeBody /\ (h.mode = "edit" => h.id \in Ids)
      BY <1>1, <3>3 DEF Fits
    <3>7. form' \in SafeForm /\ form'.step = form.step
      BY <3>1, <3>3, <3>5, <3>6, StrippedSafe
    <3> QED BY <1>3, <3>7
  <2> QED BY <2>4, <2>5, <2>6
<1>9. CASE SetPriority
  <2>1. form.step = "files"
    BY <1>9 DEF SetPriority
  <2>2. PICK x \in form.files :
          form' = [form EXCEPT !.lazy = IF x \in form.lazy THEN form.lazy \ {x} ELSE form.lazy \cup {x}]
    BY <1>9 DEF SetPriority
  <2> DEFINE L == IF x \in form.lazy THEN form.lazy \ {x} ELSE form.lazy \cup {x}
  <2>3. L \in SUBSET Files /\ (form.lazy \subseteq form.files => L \subseteq form.files)
    BY <1>1
  <2> HIDE DEF L
  <2>4. form' = [form EXCEPT !.lazy = L]
    BY <2>2 DEF L
  <2>5. /\ form' \in Form /\ form'.step = "files" /\ form'.pkg = form.pkg /\ form'.body = form.body
        /\ form'.mode = form.mode /\ form'.id = form.id /\ form'.files = form.files
        /\ form'.lazy = L /\ form'.late = form.late
    BY <1>1, <2>1, <2>3, <2>4 DEF Form
  <2>6. form' \in SafeForm
    BY <1>1, <2>1, <2>3, <2>5 DEF SafeForm, Fits
  <2> QED BY <1>3, <2>1, <2>6
<1>10. CASE ChooseResources
  <2>1. form.step = "resources"
    BY <1>10 DEF ChooseResources
  <2>2. PICK r \in Extras \ form.res : form' = Stripped([form EXCEPT !.res = form.res \cup {r}])
    BY <1>10 DEF ChooseResources
  <2> DEFINE f == [form EXCEPT !.res = form.res \cup {r}]
  <2>3. r \in Files
    BY <2>2, Constants
  <2>4. /\ f \in Form /\ f.body = form.body /\ f.mode = form.mode /\ f.id = form.id
        /\ f.step = "resources" /\ f.pkg = form.pkg /\ f.late = form.late /\ f.files = form.files
        /\ f.lazy = form.lazy
    BY <1>1, <2>1, <2>3 DEF Form
  <2>5. form' = Stripped(f)
    BY <2>2
  <2> HIDE DEF f
  <2>6. f.body \in SafeBody /\ (f.mode = "edit" => f.id \in Ids) /\ f.pkg \in Packages
        /\ (~f.late => f.files = FilesOf[f.pkg] /\ f.lazy \subseteq f.files)
    BY <1>1, <2>1, <2>4 DEF Fits
  <2>7. form' \in SafeForm
    BY <2>4, <2>5, <2>6, StrippedSafe
  <2> QED BY <1>3, <2>1, <2>7
<1> QED BY <1>4, <1>5, <1>6, <1>7, <1>8, <1>9, <1>10

(* The dialog, the request and its answer.                                 *)
LEMMA DialogSafe == ASSUME IInv, OpenDialog \/ CloseDialog PROVE IInv'
<1>1. /\ form \in Form /\ form.body \in SafeBody /\ Fits(form)
      /\ form.pkg \in Packages \cup {NoPackage}
      /\ form.files \in SUBSET Files /\ form.lazy \in SUBSET Files /\ form.res \in SUBSET Files
  BY FormFields
<1>2. FormStays
  BY DEF OpenDialog, CloseDialog
<1>3. CASE OpenDialog
  <2> DEFINE b == [pkg |-> form.pkg, block |-> TRUE,
                   imp |-> form.files \ form.lazy, lazy |-> form.lazy, res |-> form.res,
                   made |-> IF form.late THEN "late" ELSE "form"]
  <2>1. form.step = "resources"
    BY <1>3 DEF OpenDialog
  <2>2. TargetsOffered \subseteq Targets
    BY <1>1, Constants, ExperimentFields DEF TargetsOffered, Fits
  <2>3. PICK t \in Targets :
          form' = [form EXCEPT !.step = "confirm", !.target = t, !.body = b]
    BY <1>3, <2>2 DEF OpenDialog
  <2>4. b \in Body
    BY <1>1 DEF Body, MayBe
  <2>5. ASSUME b.made = "form" PROVE Whole(b)
    <3>1. /\ form.pkg \in Packages /\ form.files = FilesOf[form.pkg]
          /\ form.lazy \subseteq form.files
      BY <1>1, <2>1, <2>5 DEF Fits
    <3>2. PathsIn(form.res) \cap PathsIn(form.files \cup PackageFiles(form.pkg)) = {}
      BY <1>1, <2>1 DEF Fits
    <3>3. PathsIn(form.res) \cap PathsIn(form.files) = {}
      BY <3>2 DEF PathsIn
    <3> QED BY <1>1, <3>1, <3>3 DEF Whole
  <2>6. b \in SafeBody
    <3>1. b.made # "patch"
      OBVIOUS
    <3> HIDE DEF b
    <3> QED BY <2>4, <2>5, <3>1 DEF SafeBody
  <2> HIDE DEF b
  <2>7. /\ form' \in Form /\ form'.step = "confirm" /\ form'.pkg = form.pkg /\ form'.body = b
        /\ form'.mode = form.mode /\ form'.id = form.id /\ form'.files = form.files
        /\ form'.lazy = form.lazy /\ form'.late = form.late /\ form'.res = form.res
    BY <1>1, <2>3, <2>4 DEF Form
  <2>8. form' \in SafeForm
    BY <1>1, <2>1, <2>6, <2>7 DEF SafeForm, Fits
  <2> QED BY <1>2, <2>1, <2>8, FormSafe
<1>4. CASE CloseDialog
  <2>1. form.step = "confirm" /\ form' = [form EXCEPT !.step = "resources", !.target = Broad, !.body = NoBody]
    BY <1>4 DEF CloseDialog
  <2>2. /\ form' \in Form /\ form'.step = "resources" /\ form'.pkg = form.pkg /\ form'.body = NoBody
        /\ form'.mode = form.mode /\ form'.id = form.id /\ form'.files = form.files
        /\ form'.lazy = form.lazy /\ form'.late = form.late /\ form'.res = form.res
    BY <1>1, <2>1, Constants, BlankTypes DEF Form
  <2>3. form' \in SafeForm
    BY <1>1, <2>1, <2>2, BlankSafe DEF SafeForm, Fits
  <2> QED BY <1>2, <2>1, <2>3, FormSafe
<1> QED BY <1>3, <1>4

LEMMA SubmitSafe == ASSUME IInv, Submit PROVE IInv'
<1>1. /\ form \in Form /\ form.body \in SafeBody /\ Fits(form) /\ form.target \in Targets
  BY FormFields
<1>2. form.step = "confirm" /\ form' = [form EXCEPT !.step = "sent"]
      /\ UNCHANGED <<superposition, spent>>
  BY DEF Submit
<1>3. form' \in SafeForm /\ form'.step = "sent"
  <2>1. /\ form' \in Form /\ form'.step = "sent" /\ form'.pkg = form.pkg /\ form'.body = form.body
        /\ form'.mode = form.mode /\ form'.id = form.id /\ form'.files = form.files
        /\ form'.lazy = form.lazy /\ form'.late = form.late /\ form'.res = form.res
    BY <1>1, <1>2 DEF Form
  <2> QED BY <1>1, <1>2, <2>1 DEF SafeForm, Fits
<1> DEFINE r == [Free EXCEPT !.client = "form", !.target = form.target, !.body = form.body]
           u == [r EXCEPT !.op = "update", !.st = "build", !.id = form.id]
           c == [r EXCEPT !.op = "create", !.st = "check"]
<1>4. /\ Free \in Request /\ Free.control \in SafeConfig /\ Free.new \in SafeConfig
  BY BlankSafe DEF SafeRequest
<1>5. form.body \in Body
  BY <1>1 DEF SafeBody
<1>6. r \in Request /\ r.body = form.body /\ r.control = Free.control /\ r.new = Free.new
  BY <1>1, <1>4, <1>5 DEF Request
<1> HIDE DEF r
<1>7. form.mode = "edit" => u \in SafeRequest
  <2> SUFFICES ASSUME form.mode = "edit" PROVE u \in SafeRequest
    OBVIOUS
  <2>1. form.id \in Ids
    BY <1>1 DEF Fits
  <2>2. /\ u \in Request /\ u.op = "update" /\ u.st = "build" /\ u.id = form.id
        /\ u.body = form.body /\ u.control = Free.control /\ u.new = Free.new
    BY <1>6, <2>1 DEF Request
  <2> HIDE DEF u
  <2> QED BY <1>1, <1>4, <2>1, <2>2 DEF SafeRequest, Known
<1>8. c \in SafeRequest
  <2>1. /\ c \in Request /\ c.op = "create" /\ c.st = "check"
        /\ c.body = form.body /\ c.control = Free.control /\ c.new = Free.new
    BY <1>6 DEF Request
  <2> HIDE DEF c
  <2> QED BY <1>1, <1>4, <2>1 DEF SafeRequest, Known, OfRelease
<1>9. \E x \in SafeRequest : Send(x)
  BY <1>7, <1>8 DEF Submit, r
<1>10. PICK x \in SafeRequest, s \in Slots : server' = [server EXCEPT ![s] = x]
  BY <1>9 DEF Send, Goto
<1>11. server' \in [Slots -> SafeRequest]
  BY <1>10 DEF IInv
<1>12. Waits'
  <2>1. \A y \in Slots : server[y].client # "form"
    BY <1>2 DEF IInv, Waits
  <2>2. \A y \in Slots : server'[y].client = "form" => y = s
    BY <1>10, <2>1 DEF IInv
  <2> QED BY <1>3, <2>2 DEF Waits
<1> QED BY <1>2, <1>3, <1>11, <1>12 DEF IInv, superposition

LEMMA AnsweredSafe == ASSUME IInv, TakeAnswer PROVE IInv'
<1>1. PICK s \in Slots :
        /\ server[s].st \in {"done", "failed"}
        /\ form' = IF server[s].st = "done" THEN Closed ELSE [form EXCEPT !.step = "confirm"]
        /\ server' = [server EXCEPT ![s] = Free]
        /\ UNCHANGED <<superposition, spent>>
  BY DEF TakeAnswer, Goto
<1>2. server[s].client = "form"
  BY <1>1, RequestFields DEF Known
<1>3. form.step = "sent"
  BY <1>2 DEF IInv, Waits
<1>4. /\ form \in Form /\ form.body \in SafeBody /\ Fits(form)
  BY FormFields
<1>5. form' \in SafeForm
  <2>1. CASE form' = Closed
    BY <2>1, BlankSafe
  <2>2. CASE form' = [form EXCEPT !.step = "confirm"]
    <3>1. /\ form' \in Form /\ form'.step = "confirm" /\ form'.pkg = form.pkg /\ form'.body = form.body
          /\ form'.mode = form.mode /\ form'.id = form.id /\ form'.files = form.files
          /\ form'.lazy = form.lazy /\ form'.late = form.late /\ form'.res = form.res
      BY <1>4, <2>2 DEF Form
    <3> QED BY <1>3, <1>4, <3>1 DEF SafeForm, Fits
  <2> QED BY <1>1, <2>1, <2>2
<1>6. server' \in [Slots -> SafeRequest]
  BY <1>1, BlankSafe DEF IInv
<1>7. Waits'
  <2>1. Free.client = "other"
    BY DEF Free
  <2>2. \A y \in Slots : server[y].client = "form" => y = s
    BY <1>2 DEF IInv, Waits
  <2>3. \A y \in Slots : server'[y].client # "form"
    BY <1>1, <2>1, <2>2 DEF IInv
  <2> QED BY <2>3 DEF Waits
<1> QED BY <1>1, <1>5, <1>6, <1>7 DEF IInv, superposition

-----------------------------------------------------------------------------
(* The theorems                                                            *)

LEMMA NextSafe == IInv /\ [Next]_vars => IInv'
<1> SUFFICES ASSUME IInv, [Next]_vars PROVE IInv'
  OBVIOUS
<1>1. ASSUME NEW s \in Slots, Handle(s) PROVE IInv'
  BY <1>1, CreateSafe, ChangeSafe DEF Handle
<1>2. CASE ClientSends
  BY <1>2, OthersSafe
<1>3. CASE FormStep
  BY <1>3, OpenSafe, EffectSafe, DialogSafe, SubmitSafe, AnsweredSafe DEF FormStep
<1>4. CASE UNCHANGED vars
  BY <1>4 DEF vars, IInv, Waits
<1> QED BY <1>1, <1>2, <1>3, <1>4 DEF Next

(* The handlers of release.rs and the steps of the wizard keep IInv: a     *)
(* list can be left out only of a block whose package it was checked with, *)
(* and the wizard sends its lists only as its effects left them.           *)
THEOREM Inductive == Spec => []IInv
BY InitSafe, NextSafe, PTL DEF Spec

(* Whatever requests are handled at once, every call of theirs is of a     *)
(* release that exists: the type invariant, for any number of either.      *)
THEOREM ReleaseTypeOK == Spec => []TypeOK
BY Inductive, IInvTypes, PTL

LEMMA ServedSafe ==
  ASSUME IInv, NEW t \in Targets, NEW c \in Live(t)
  PROVE  c.pkg # NoPackage /\ WellSplit(c)
<1>1. \A x \in Targets : contexts[x].cfg \in SafeConfig
  BY DEF IInv
<1>2. \A x : Variants(x) \subseteq SafeConfig
  BY ExperimentFields DEF Variants, Running
<1>3. \A x \in Targets, below \in SUBSET SafeConfig : Outside(x, below) \subseteq SafeConfig
  BY <1>1 DEF Outside
<1>4. ServedBroad \subseteq SafeConfig
  BY <1>2, <1>3, Constants, BlankSafe DEF ServedBroad
<1>5. Served(t) \subseteq SafeConfig
  BY <1>2, <1>3, <1>4, Constants DEF Served
<1> QED BY <1>5 DEF Live, SafeConfig

(* serve_release never gives a package with the lists of another, nor one  *)
(* of its files as resource: build_overrides checks what it is given, and  *)
(* what it takes over it takes over with its package.                      *)
THEOREM ServedSplits == Spec => []ServedSplitsPackage
<1>1. IInv => ServedSplitsPackage
  BY ServedSafe DEF ServedSplitsPackage, WellSplit
<1> QED BY <1>1, Inductive, PTL

(* A release of the wizard loses no file of its package, and gives none    *)
(* both priorities, through handleSubmit and build_overrides, unless its   *)
(* package came after its files.                                           *)
THEOREM ServedComplete == Spec => []SplitsComplete
<1>1. IInv => SplitsComplete
  BY ServedSafe DEF SplitsComplete, WellSplit
<1> QED BY <1>1, Inductive, PTL

-----------------------------------------------------------------------------
(* Two releases of a target: they are numbered as they are created, and a  *)
(* request that was let through has seen none of those ongoing by then.    *)
Numbered == {i \in Ids : exps[i].st # "none"} = 1 .. Created
Clear(q) ==
    q.op = "create" /\ q.st \in {"build", "create"} =>
        q.checked <= Created /\ \A i \in Ids : i <= q.checked => ~Blocks(i, q.target)
AllClear == \A s \in Slots : Clear(server[s])
DInv == Numbered /\ AllClear /\ OngoingDistinct

(* What a step other than a creation does to the experiments.              *)
Quiet == \A i \in Ids :
    /\ exps'[i].target = exps[i].target /\ exps'[i].checked = exps[i].checked
    /\ exps'[i].st \in {"created", "inprogress"} => Ongoing(i)
    /\ exps'[i].st = "none" <=> exps[i].st = "none"

LEMMA CreatedIs ==
  ASSUME NEW n \in Nat, {i \in Ids : exps[i].st # "none"} = 1 .. n
  PROVE  Created = n /\ Numbered
<1>1. Cardinality(1 .. n) = n
  BY FS_Interval
<1>2. Created = n
  BY <1>1 DEF Created
<1> QED BY <1>2 DEF Numbered

LEMMA QuietKeeps ==
  ASSUME Quiet PROVE Created' = Created /\ (Numbered => Numbered')
                     /\ (OngoingDistinct => OngoingDistinct')
                     /\ \A i \in Ids : \A t : Blocks(i, t)' => Blocks(i, t)
<1>1. {i \in Ids : exps'[i].st # "none"} = {i \in Ids : exps[i].st # "none"}
  BY DEF Quiet
<1>2. Created' = Created
  BY <1>1 DEF Created
<1>3. \A i \in Ids : \A t : Blocks(i, t)' => Blocks(i, t)
  BY DEF Quiet, Blocks, Ongoing
<1>4. OngoingDistinct => OngoingDistinct'
  BY DEF Quiet, OngoingDistinct, Ongoing
<1> QED BY <1>1, <1>2, <1>3, <1>4 DEF Numbered

LEMMA HandleQuiet ==
  ASSUME IInv, NEW s \in Slots, Handle(s), ~CreateExperiment(s)
  PROVE  Quiet
<1> DEFINE i == server[s].id
<1>1. Known(server[s])
  BY RequestFields
<1>2. exps \in [Ids -> SafeExperiment] /\ \A j \in Ids : exps[j] \in Experiment
  BY ExperimentFields DEF IInv
<1>3. UNCHANGED exps => Quiet
  BY DEF Quiet, Ongoing
<1>4. ASSUME i \in Ids, NEW e, exps' = [exps EXCEPT ![i] = e],
             e.target = exps[i].target, e.checked = exps[i].checked,
             e.st \in {"created", "inprogress"} => Ongoing(i), e.st = "none" <=> exps[i].st = "none"
      PROVE  Quiet
  BY <1>2, <1>4 DEF Quiet, Ongoing
<1> HIDE DEF i
<1>5. CASE CheckOngoing(s) \/ Build(s) \/ ReadStatus(s)
  BY <1>3, <1>5 DEF CheckOngoing, Build, ReadStatus, Refuse, superposition
<1>6. CASE RampFirst(s) \/ RampRelease(s)
  <2>1. UNCHANGED exps \/ (Ongoing(i) /\ \E p : Ramp(i, p))
    BY <1>6 DEF RampFirst, RampRelease, Refuse, superposition, i
  <2>2. i \in Ids
    BY <1>1, <1>6 DEF RampFirst, RampRelease, Step, Known, OfRelease, i
  <2>3. ASSUME Ongoing(i), NEW p, Ramp(i, p) PROVE Quiet
    <3> DEFINE e == [exps[i] EXCEPT !.st = "inprogress", !.traffic = p]
    <3>1. /\ e.target = exps[i].target /\ e.checked = exps[i].checked /\ e.st = "inprogress"
          /\ exps[i].st # "none"
      BY <1>2, <2>2, <2>3 DEF Experiment, Ongoing
    <3>2. exps' = [exps EXCEPT ![i] = e]
      BY <2>3 DEF Ramp
    <3> HIDE DEF e
    <3> QED BY <1>4, <2>2, <2>3, <3>1, <3>2
  <2> QED BY <1>3, <2>1, <2>3
<1>7. ASSUME i \in Ids, NEW e, exps' = [exps EXCEPT ![i] = e],
             \/ e = [exps[i] EXCEPT !.settled = TRUE]
             \/ Ongoing(i) /\ e = [exps[i] EXCEPT !.st = "discarded"]
             \/ Ongoing(i) /\ e = [exps[i] EXCEPT !.st = "concluded", !.chosen = "new", !.settled = TRUE]
             \/ Ongoing(i) /\ \E c : e = [exps[i] EXCEPT !.st = "concluded", !.chosen = c]
             \/ \E q \in Request : e = [exps[i] EXCEPT !.control = q.control, !.new = q.new,
                                                       !.of = q.target, !.seen = q.seen]
      PROVE  Quiet
  <2>1. exps[i] \in Experiment
    BY <1>2, <1>7
  <2>2. /\ e.target = exps[i].target /\ e.checked = exps[i].checked
        /\ e.st = exps[i].st \/ (Ongoing(i) /\ e.st \in {"discarded", "concluded"})
    BY <1>7, <2>1 DEF Experiment
  <2> QED BY <1>4, <1>7, <2>2 DEF Ongoing
<1>8. CASE ConcludeFirst(s)
  <2>1. i \in Ids
    BY <1>1, <1>8 DEF ConcludeFirst, Step, Known, OfRelease, i
  <2>2. \/ exps' = [exps EXCEPT ![i] = [exps[i] EXCEPT !.settled = TRUE]]
        \/ Ongoing(i) /\ exps' = [exps EXCEPT ![i] = [exps[i] EXCEPT !.st = "concluded", !.chosen = "new",
                                                                      !.settled = TRUE]]
    BY <1>8 DEF ConcludeFirst, i
  <2> QED BY <1>7, <2>1, <2>2
<1>9. CASE PutOverrides(s)
  <2>1. i \in Ids /\ server[s] \in Request
    BY <1>1, <1>9, RequestFields DEF PutOverrides, Step, Known, OfRelease, i
  <2>2. \/ UNCHANGED exps
        \/ exps' = [exps EXCEPT ![i] = [exps[i] EXCEPT !.control = server[s].control, !.new = server[s].new,
                                                       !.of = server[s].target, !.seen = server[s].seen]]
    BY <1>9 DEF PutOverrides, Refuse, superposition, i
  <2> QED BY <1>3, <1>7, <2>1, <2>2
<1>10. CASE ConcludeRelease(s)
  <2>1. i \in Ids
    BY <1>1, <1>10 DEF ConcludeRelease, Step, Known, OfRelease, i
  <2>2. \/ UNCHANGED exps
        \/ Ongoing(i) /\ exps' = [exps EXCEPT ![i] = [exps[i] EXCEPT !.st = "concluded",
                                                                      !.chosen = server[s].chosen]]
    BY <1>10 DEF ConcludeRelease, Conclude, Refuse, superposition, i
  <2> QED BY <1>3, <1>7, <2>1, <2>2
<1>11. CASE DiscardRelease(s)
  <2>1. i \in Ids
    BY <1>1, <1>11 DEF DiscardRelease, Step, Known, OfRelease, i
  <2>2. \/ UNCHANGED exps
        \/ Ongoing(i) /\ exps' = [exps EXCEPT ![i] = [exps[i] EXCEPT !.st = "discarded"]]
    BY <1>11 DEF DiscardRelease, Refuse, superposition, i
  <2> QED BY <1>3, <1>7, <2>1, <2>2
<1>12. CASE Fault(s)
  <2>1. \/ UNCHANGED exps
        \/ /\ server[s].st = "conclude"
           /\ exps' = [exps EXCEPT ![i] = [exps[i] EXCEPT !.settled = TRUE]]
    BY <1>12 DEF Fault, Refuse, superposition, i
  <2>2. server[s].st = "conclude" => i \in Ids
    BY <1>1 DEF Known, OfRelease, i
  <2> QED BY <1>3, <1>7, <2>1, <2>2
<1> QED BY <1>5, <1>6, <1>8, <1>9, <1>10, <1>11, <1>12 DEF Handle

(* The creation itself: the number is new, and the check covers it.        *)
LEMMA CreateDistinct ==
  ASSUME IInv, DInv, NEW s \in Slots, CreateExperiment(s)
  PROVE  Numbered' /\ OngoingDistinct'
         /\ Created' = Created + 1 /\ \A i \in Ids : \A t : i <= Created /\ Blocks(i, t)' => Blocks(i, t)
<1> DEFINE q == server[s]
           n == Created + 1
           e == [NoExperiment EXCEPT !.st = "created", !.target = q.target, !.control = q.control,
                                    !.new = q.new, !.variant = q.new.pkg, !.of = q.target,
                                    !.seen = q.seen, !.checked = q.checked,
                                    !.first = (q.control.pkg = NoPackage),
                                    !.settled = ~(q.control.pkg = NoPackage)]
<1>1. n \in Ids /\ exps' = [exps EXCEPT ![n] = e] /\ q.op = "create" /\ q.st = "create"
  BY DEF CreateExperiment, Step
<1>2. e.st = "created" /\ e.target = q.target /\ e.checked = q.checked
  BY DEF NoExperiment
<1> HIDE DEF e
<1>3. exps \in [Ids -> SafeExperiment] /\ Created \in Nat /\ n = Created + 1 /\ n \in Nat
  BY CountTypes DEF IInv
<1>4. {i \in Ids : exps[i].st # "none"} = 1 .. Created
  BY DEF DInv, Numbered
<1> HIDE DEF n
<1>5. exps'[n] = e /\ \A i \in Ids : i # n => exps'[i] = exps[i]
  BY <1>1, <1>3
<1>6. \A i \in Ids : i \in Nat /\ (exps[i].st # "none" <=> i <= Created)
  BY <1>3, <1>4 DEF Ids
<1>7. {i \in Ids : exps'[i].st # "none"} = 1 .. n
  <2>1. ASSUME NEW i \in Ids PROVE exps'[i].st # "none" <=> i <= n
    BY <1>2, <1>3, <1>5, <1>6
  <2>2. 1 .. n \subseteq Ids
    BY <1>1, <1>3, Constants DEF Ids
  <2> QED BY <2>1, <2>2, <1>3 DEF Ids
<1>8. Numbered' /\ Created' = n
  <2>1. Cardinality(1 .. n) = n
    BY <1>3, FS_Interval
  <2>2. Created' = n
    BY <1>7, <2>1 DEF Created
  <2> QED BY <1>7, <2>2 DEF Numbered
<1>9. \A i \in Ids : \A t : i <= Created /\ Blocks(i, t)' => Blocks(i, t)
  BY <1>3, <1>5, <1>6 DEF Blocks, Ongoing
<1>10. Clear(q)
  BY DEF DInv, AllClear
<1>11. q.checked \in Nat
  BY RequestFields
<1>12. OngoingDistinct'
  <2> SUFFICES ASSUME NEW i \in Ids, NEW j \in Ids, i < j,
                      exps'[i].st \in {"created", "inprogress"}, exps'[j].st \in {"created", "inprogress"},
                      exps'[i].target = exps'[j].target
               PROVE  exps'[j].checked < i
    BY DEF OngoingDistinct, Ongoing
  <2>1. i <= n /\ j <= n
    BY <1>7 DEF Ids
  <2>2. i # n /\ i <= Created
    BY <1>3, <1>6, <2>1
  <2>3. CASE j = n
    <3>1. exps[i].target = q.target /\ Ongoing(i)
      BY <1>2, <1>5, <2>2, <2>3 DEF Ongoing
    <3>2. ~(i <= q.checked)
      BY <1>1, <1>10, <3>1 DEF Clear, Blocks
    <3> QED BY <1>2, <1>5, <1>6, <1>11, <2>3, <3>2
  <2>4. CASE j # n
    <3>1. Ongoing(i) /\ Ongoing(j) /\ exps[i].target = exps[j].target /\ exps'[j] = exps[j]
      BY <1>5, <2>2, <2>4 DEF Ongoing
    <3> QED BY <3>1 DEF DInv, OngoingDistinct
  <2> QED BY <2>3, <2>4
<1> QED BY <1>3, <1>8, <1>9, <1>12

(* What a step leaves in its slot has seen no release it had not seen.     *)
LEMMA HandleClear ==
  ASSUME IInv, DInv, NEW s \in Slots, Handle(s)
  PROVE  AllClear'
<1> DEFINE q == server[s]
<1>1. /\ Created' >= Created /\ \A i \in Ids : \A t : i <= Created /\ Blocks(i, t)' => Blocks(i, t)
      /\ Created \in Nat /\ Created' \in Nat /\ (CheckOngoing(s) => Created' = Created)
  <2>1. Created \in Nat
    BY CountTypes
  <2>2. CASE CreateExperiment(s)
    <3>1. ~CheckOngoing(s)
      BY <2>2 DEF CreateExperiment, CheckOngoing, Step
    <3> QED BY <2>1, <2>2, <3>1, CreateDistinct
  <2>3. CASE ~CreateExperiment(s)
    <3>1. Quiet
      BY <2>3, HandleQuiet
    <3> QED BY <2>1, <3>1, QuietKeeps
  <2> QED BY <2>2, <2>3
<1>2. q \in Request /\ server \in [Slots -> SafeRequest] /\ Clear(q)
  BY RequestFields DEF IInv, DInv, AllClear
<1>14. ASSUME NEW y \in Request, Clear(y) PROVE Clear(y)'
  <2> SUFFICES ASSUME y.op = "create", y.st \in {"build", "create"}
               PROVE  y.checked <= Created' /\ \A i \in Ids : i <= y.checked => ~Blocks(i, y.target)'
    BY DEF Clear
  <2>1. /\ y.checked <= Created /\ y.checked \in Nat
        /\ \A i \in Ids : i <= y.checked => ~Blocks(i, y.target)
    BY <1>14 DEF Clear, Request
  <2>2. ASSUME NEW i \in Ids, i <= y.checked PROVE ~Blocks(i, y.target)'
    <3>1. i <= Created
      BY <1>1, <2>1, <2>2 DEF Ids
    <3> QED BY <1>1, <2>1, <2>2, <3>1 DEF Blocks, Ongoing
  <2>3. y.checked <= Created'
    BY <1>1, <2>1
  <2> QED BY <2>2, <2>3
<1>3. ASSUME NEW r, Goto(s, r), Clear(r)' PROVE AllClear'
  <2>1. server' = [server EXCEPT ![s] = r]
    BY <1>3 DEF Goto
  <2>2. server'[s] = r
    BY <1>2, <2>1
  <2>3. ASSUME NEW x \in Slots PROVE Clear(server[x])'
    <3>1. CASE x = s
      BY <1>3, <2>2, <3>1 DEF Clear
    <3>2. CASE x # s
      <4>1. PICK y \in Request : y = server[x]
        BY RequestFields
      <4>2. Clear(y) /\ server'[x] = y
        BY <1>2, <2>1, <3>2, <4>1 DEF DInv, AllClear
      <4>3. Clear(y)'
        BY <4>2, <1>14
      <4> QED BY <4>2, <4>3 DEF Clear
    <3> QED BY <3>1, <3>2
  <2> QED BY <2>3 DEF AllClear
<1>4. ASSUME NEW r, Goto(s, r), r.st \notin {"build", "create"} PROVE AllClear'
  BY <1>3, <1>4 DEF Clear
<1>5. ASSUME NEW r, NEW ok \in BOOLEAN, r = Answer(s, ok) PROVE r.st \notin {"build", "create"}
  <2>1. [q EXCEPT !.st = IF ok THEN "done" ELSE "failed"].st \in {"done", "failed"}
    BY <1>2 DEF Request
  <2> QED BY <1>5, <2>1 DEF Answer, Free
<1>6. ASSUME NEW ok \in BOOLEAN, Goto(s, Answer(s, ok)) PROVE AllClear'
  <2>1. PICK r : r = Answer(s, ok)
    OBVIOUS
  <2>2. Goto(s, r) /\ r.st \notin {"build", "create"}
    BY <1>5, <1>6, <2>1
  <2> QED BY <1>4, <2>2
<1>7. Refuse(s) => AllClear'
  BY <1>6 DEF Refuse
<1>8. CASE CheckOngoing(s)
  <2>1. PICK r : r = [q EXCEPT !.st = "build", !.checked = Created]
    OBVIOUS
  <2>2. r.target = q.target /\ r.checked = Created
    BY <1>2, <2>1 DEF Request
  <2>3. \/ Refuse(s)
        \/ Goto(s, r) /\ \A i \in Ids : ~Blocks(i, q.target)
    BY <1>8, <2>1 DEF CheckOngoing
  <2>4. ASSUME Goto(s, r), \A i \in Ids : ~Blocks(i, q.target) PROVE AllClear'
    <3>1. Clear(r)'
      BY <1>1, <2>2, <2>4 DEF Clear
    <3> QED BY <1>3, <2>4, <3>1
  <2> QED BY <1>7, <2>3, <2>4
<1>9. CASE Build(s)
  <2>1. PICK r : r = [q EXCEPT !.st = IF q.op = "create" THEN "create" ELSE "put",
                               !.control = Base(q.target), !.new = ConfigFor(q.body, Base(q.target)),
                               !.seen = Concluded]
    OBVIOUS
  <2>2. Refuse(s) \/ Goto(s, r)
    BY <1>9, <2>1 DEF Build
  <2>3. r.target = q.target /\ r.checked = q.checked /\ r.op = q.op /\ q.st = "build"
    BY <1>2, <1>9, <2>1 DEF Request, Build
  <2>4. PICK y \in Request : y = q
    BY <1>2
  <2>5. Clear(y)'
    BY <1>14, <1>2, <2>4
  <2>6. Clear(r)'
    BY <2>3, <2>4, <2>5 DEF Clear
  <2> QED BY <1>3, <1>7, <2>2, <2>6
<1>10. CASE RampFirst(s)
  <2>1. PICK r : r = [q EXCEPT !.st = "conclude"]
    OBVIOUS
  <2>2. r.st = "conclude"
    BY <1>2, <2>1 DEF Request
  <2>3. Refuse(s) \/ Goto(s, r)
    BY <1>10, <2>1 DEF RampFirst
  <2> QED BY <1>4, <1>7, <2>2, <2>3
<1>11. CASE ReadStatus(s)
  <2>1. PICK r : r = [q EXCEPT !.st = "discard"]
    OBVIOUS
  <2>2. r.st = "discard"
    BY <1>2, <2>1 DEF Request
  <2>3. Refuse(s) \/ Goto(s, r)
    BY <1>11, <2>1 DEF ReadStatus
  <2> QED BY <1>4, <1>7, <2>2, <2>3
<1>12. CASE ConcludeFirst(s) \/ PutOverrides(s) \/ RampRelease(s) \/ ConcludeRelease(s)
            \/ DiscardRelease(s) \/ Fault(s)
  <2>1. Refuse(s) \/ Goto(s, Answer(s, TRUE))
    BY <1>12 DEF ConcludeFirst, PutOverrides, RampRelease, ConcludeRelease, DiscardRelease, Fault
  <2> QED BY <1>6, <1>7, <2>1
<1>13. CASE CreateExperiment(s)
  <2>1. q.st = "create" /\ q.op = "create"
    BY <1>13 DEF CreateExperiment, Step
  <2>2. PICK r : r = [q EXCEPT !.st = "ramp", !.id = Created + 1]
    OBVIOUS
  <2>3. r.st = "ramp"
    BY <1>2, <2>2 DEF Request
  <2>4. Goto(s, r) \/ Goto(s, Answer(s, TRUE))
    BY <1>13, <2>2 DEF CreateExperiment
  <2> QED BY <1>4, <1>6, <2>3, <2>4
<1> QED BY <1>8, <1>9, <1>10, <1>11, <1>12, <1>13 DEF Handle

(* Every other step leaves the experiments, and asks for no creation that  *)
(* has been let through.                                                   *)
LEMMA OthersClear ==
  ASSUME IInv, DInv, ClientSends \/ FormStep
  PROVE  UNCHANGED exps /\ AllClear'
<1>1. UNCHANGED exps
  BY DEF ClientSends, FormStep, FormStays, superposition, OpenForm, CloseForm, PickPackage,
         NextStep, PreviousStep, InitialPackage, SetPriority, ChooseResources, OpenDialog,
         CloseDialog, Submit, TakeAnswer
<1>2. \/ UNCHANGED server
      \/ \E s \in Slots : \E r : Goto(s, r) /\ (r.op = "create" => r.st \notin {"build", "create"})
  <2>1. Free \in Request /\ Free.op = "none"
    BY BlankTypes DEF Free
  <2>2. CASE ClientSends
    <3>1. PICK r : Send(r) /\
            \/ \E t \in Targets, b \in Bodies :
                 \/ r = [Free EXCEPT !.op = "create", !.st = "check", !.target = t, !.body = b]
                 \/ \E i \in 1 .. Created :
                      r = [Free EXCEPT !.op = "update", !.st = "build", !.id = i, !.target = t, !.body = b]
            \/ \E i \in 1 .. Created : \E p :
                 \/ r = [Free EXCEPT !.op = "ramp", !.st = "ramp", !.id = i, !.traffic = p]
                 \/ r = [Free EXCEPT !.op = "conclude", !.st = "conclude", !.id = i, !.chosen = p]
                 \/ r = [Free EXCEPT !.op = "discard", !.st = "status", !.id = i]
      BY <2>2 DEF ClientSends
    <3>2. r.op = "create" => r.st = "check"
      BY <2>1, <3>1 DEF Request
    <3> QED BY <3>1, <3>2 DEF Send
  <2>3. CASE Submit
    <3>1. PICK r : Send(r) /\
            \/ r = [[Free EXCEPT !.client = "form", !.target = form.target, !.body = form.body]
                      EXCEPT !.op = "update", !.st = "build", !.id = form.id]
            \/ r = [[Free EXCEPT !.client = "form", !.target = form.target, !.body = form.body]
                      EXCEPT !.op = "create", !.st = "check"]
      BY <2>3 DEF Submit
    <3>2. r.op = "create" => r.st = "check"
      BY <2>1, <3>1 DEF Request
    <3> QED BY <3>1, <3>2 DEF Send
  <2>4. CASE TakeAnswer
    BY <2>1, <2>4 DEF TakeAnswer
  <2>5. CASE FormStep /\ ~Submit /\ ~TakeAnswer
    BY <2>5 DEF FormStep, FormStays, OpenForm, CloseForm, PickPackage, NextStep, PreviousStep,
         InitialPackage, SetPriority, ChooseResources, OpenDialog, CloseDialog
  <2> QED BY <2>2, <2>3, <2>4, <2>5
<1>3. Created' = Created
  BY <1>1 DEF Created
<1>4. ASSUME NEW y, Clear(y) PROVE Clear(y)'
  BY <1>1, <1>3, <1>4 DEF Clear, Blocks, Ongoing
<1>5. ASSUME UNCHANGED server PROVE AllClear'
  <2> SUFFICES ASSUME NEW x \in Slots PROVE Clear(server[x])'
    BY DEF AllClear
  <2>1. PICK y : y = server[x]
    OBVIOUS
  <2>2. Clear(y) /\ server'[x] = y
    BY <1>5, <2>1 DEF DInv, AllClear
  <2> QED BY <1>4, <2>2 DEF Clear
<1>6. ASSUME NEW s \in Slots, NEW r, Goto(s, r), r.op = "create" => r.st \notin {"build", "create"}
      PROVE  AllClear'
  <2> SUFFICES ASSUME NEW x \in Slots PROVE Clear(server[x])'
    BY DEF AllClear
  <2>1. server' = [server EXCEPT ![s] = r] /\ server \in [Slots -> SafeRequest]
    BY <1>6 DEF Goto, IInv
  <2>2. CASE x = s
    BY <1>6, <2>1, <2>2 DEF Clear
  <2>3. CASE x # s
    <3>1. PICK y : y = server[x]
      OBVIOUS
    <3>2. Clear(y) /\ server'[x] = y
      BY <2>1, <2>3, <3>1 DEF DInv, AllClear
    <3> QED BY <1>4, <3>2 DEF Clear
  <2> QED BY <2>2, <2>3
<1> QED BY <1>1, <1>2, <1>5, <1>6

(* The three are kept by every step.                                       *)
LEMMA DistinctInductive == Spec => []DInv
<1>1. Init => DInv
  <2> SUFFICES ASSUME Init PROVE DInv
    OBVIOUS
  <2>1. PICK past \in Pasts : exps = [i \in Ids |-> IF i = 1 THEN past.ongoing ELSE NoExperiment]
    BY DEF Init
  <2>2. \A i \in Ids : exps[i].st # "none" => i = 1
    BY <2>1 DEF NoExperiment
  <2>3. \E n \in {0, 1} : {i \in Ids : exps[i].st # "none"} = 1 .. n
    <3>1. CASE 1 \in Ids /\ exps[1].st # "none"
      <4>1. {i \in Ids : exps[i].st # "none"} = 1 .. 1
        BY <2>2, <3>1
      <4> QED BY <4>1
    <3>2. CASE ~(1 \in Ids /\ exps[1].st # "none")
      <4>1. {i \in Ids : exps[i].st # "none"} = 1 .. 0
        BY <2>2, <3>2
      <4> QED BY <4>1
    <3> QED BY <3>1, <3>2
  <2>4. Numbered
    BY <2>3, CreatedIs
  <2>5. AllClear
    BY DEF Init, AllClear, Clear, Free
  <2>6. OngoingDistinct
    BY <2>2 DEF OngoingDistinct, Ongoing, Ids
  <2> QED BY <2>4, <2>5, <2>6 DEF DInv
<1>2. IInv /\ DInv /\ [Next]_vars => DInv'
  <2> SUFFICES ASSUME IInv, DInv, [Next]_vars PROVE DInv'
    OBVIOUS
  <2>1. ASSUME NEW s \in Slots, Handle(s) PROVE DInv'
    <3>1. AllClear'
      BY <2>1, HandleClear
    <3>2. CASE CreateExperiment(s)
      BY <3>1, <3>2, CreateDistinct DEF DInv
    <3>3. CASE ~CreateExperiment(s)
      <4>1. Quiet
        BY <2>1, <3>3, HandleQuiet
      <4> QED BY <3>1, <4>1, QuietKeeps DEF DInv
    <3> QED BY <3>2, <3>3
  <2>2. UNCHANGED exps => Quiet
    BY DEF Quiet, Ongoing
  <2>3. CASE ClientSends \/ FormStep
    <3>1. Quiet /\ AllClear'
      BY <2>2, <2>3, OthersClear
    <3> QED BY <3>1, QuietKeeps DEF DInv
  <2>4. CASE UNCHANGED vars
    <3>1. Quiet /\ UNCHANGED <<exps, server>>
      BY <2>2, <2>4 DEF vars
    <3>2. AllClear'
      BY <3>1 DEF DInv, AllClear, Clear, Created, Blocks, Ongoing
    <3> QED BY <3>1, <3>2, QuietKeeps DEF DInv
  <2> QED BY <2>1, <2>3, <2>4 DEF Next
<1> QED BY <1>1, <1>2, Inductive, PTL DEF Spec

(* check_non_concluded_releases leaves one way to two ongoing releases of  *)
(* a target: the check of the later came before the earlier was created.   *)
THEOREM OngoingApart == Spec => []OngoingDistinct
<1>1. DInv => OngoingDistinct
  BY DEF DInv
<1> QED BY <1>1, DistinctInductive, PTL


-----------------------------------------------------------------------------
(* The release page's two choices. A release built since the last          *)
(* conclusion still has for control what its target resolves to, and for a *)
(* patch its package: a conclusion is all that changes the overrides, and  *)
(* it makes every earlier build an old one.                                *)
FromLatest(c, n, t, seen) ==
    /\ seen <= Concluded
    /\ seen = Concluded => c = Resolved(t) /\ (n.made = "patch" => n.pkg = c.pkg)
BuiltLatest == \A s \in Slots :
    server[s].st \in {"create", "put"}
        => FromLatest(server[s].control, server[s].new, server[s].target, server[s].seen)
OngoingLatest == \A i \in Ids :
    Ongoing(i) => FromLatest(exps[i].control, exps[i].new, exps[i].of, exps[i].seen)
RInv == BuiltLatest /\ OngoingLatest

(* What a step does to the release i, which becomes e.                     *)
Stays(i, e) ==
    /\ UNCHANGED contexts
    /\ e.control = exps[i].control /\ e.new = exps[i].new /\ e.of = exps[i].of
    /\ e.seen = exps[i].seen /\ e.chosen = exps[i].chosen
    /\ e.st \in {"created", "inprogress"} => Ongoing(i)
    /\ e.st = "concluded" <=> exps[i].st = "concluded"
Concludes(i, e) ==
    /\ Ongoing(i) /\ e.st = "concluded"
    /\ e.control = exps[i].control /\ e.new = exps[i].new /\ e.of = exps[i].of
    /\ e.seen = exps[i].seen
    /\ LET c == IF e.chosen = "new" THEN exps[i].new ELSE exps[i].control IN
       contexts' = [contexts EXCEPT ![exps[i].target] = [set |-> TRUE, cfg |-> c]]
Rebuilds(s, i, e) ==
    /\ UNCHANGED contexts /\ server[s].st = "put"
    /\ exps[i].st = "created" /\ e.st = "created" /\ e.chosen = exps[i].chosen
    /\ e.control = server[s].control /\ e.new = server[s].new
    /\ e.of = server[s].target /\ e.seen = server[s].seen
Changes(s, i, e) == Stays(i, e) \/ Concludes(i, e) \/ Rebuilds(s, i, e)
Changed(s) == \E i \in Ids : \E e : exps' = [exps EXCEPT ![i] = e] /\ Changes(s, i, e)

(* The fields a change of status leaves.                                   *)
LEMMA StatusKeeps ==
  ASSUME IInv, NEW i \in Ids, NEW e,
         \/ \E p : Ongoing(i) /\ e = [exps[i] EXCEPT !.st = "inprogress", !.traffic = p]
         \/ Ongoing(i) /\ e = [exps[i] EXCEPT !.st = "discarded"]
         \/ e = [exps[i] EXCEPT !.settled = TRUE],
         UNCHANGED contexts
  PROVE  Stays(i, e)
<1>1. exps[i] \in Experiment
  BY ExperimentFields
<1>2. e.control = exps[i].control /\ e.new = exps[i].new /\ e.of = exps[i].of
      /\ e.seen = exps[i].seen /\ e.chosen = exps[i].chosen
  BY <1>1 DEF Experiment
<1>3. \/ Ongoing(i) /\ e.st \in {"inprogress", "discarded"}
      \/ e.st = exps[i].st
  BY <1>1 DEF Experiment
<1> QED BY <1>2, <1>3 DEF Stays, Ongoing

LEMMA ConclusionKeeps ==
  ASSUME IInv, NEW i \in Ids, NEW e, NEW chosen, Ongoing(i),
         \/ e = [exps[i] EXCEPT !.st = "concluded", !.chosen = chosen]
         \/ e = [exps[i] EXCEPT !.st = "concluded", !.chosen = chosen, !.settled = TRUE],
         contexts' = [contexts EXCEPT ![exps[i].target] =
             [set |-> TRUE, cfg |-> IF chosen = "new" THEN exps[i].new ELSE exps[i].control]]
  PROVE  Concludes(i, e)
<1>1. exps[i] \in Experiment
  BY ExperimentFields
<1>2. e.control = exps[i].control /\ e.new = exps[i].new /\ e.of = exps[i].of
      /\ e.seen = exps[i].seen /\ e.chosen = chosen /\ e.st = "concluded"
  BY <1>1 DEF Experiment
<1> QED BY <1>2 DEF Concludes

LEMMA HandleChanges ==
  ASSUME IInv, NEW s \in Slots, Handle(s), ~CreateExperiment(s)
  PROVE  UNCHANGED superposition \/ Changed(s)
<1> DEFINE i == server[s].id
<1>1. Known(server[s])
  BY RequestFields
<1> HIDE DEF i
<1>2. CASE CheckOngoing(s) \/ Build(s) \/ ReadStatus(s)
  BY <1>2 DEF CheckOngoing, Build, ReadStatus, Refuse
<1>3. CASE RampFirst(s) \/ RampRelease(s)
  <2>1. i \in Ids
    BY <1>1, <1>3 DEF RampFirst, RampRelease, Step, Known, OfRelease, i
  <2>2. UNCHANGED superposition \/ (Ongoing(i) /\ UNCHANGED contexts /\ \E p : Ramp(i, p))
    BY <1>3 DEF RampFirst, RampRelease, Refuse, i
  <2>3. ASSUME Ongoing(i), UNCHANGED contexts, NEW p, Ramp(i, p) PROVE Changed(s)
    <3>1. PICK e : e = [exps[i] EXCEPT !.st = "inprogress", !.traffic = p]
      OBVIOUS
    <3>2. Stays(i, e)
      BY <2>1, <2>3, <3>1, StatusKeeps
    <3> QED BY <2>1, <2>3, <3>1, <3>2 DEF Changed, Changes, Ramp
  <2> QED BY <2>2, <2>3
<1>4. CASE ConcludeFirst(s)
  <2>1. i \in Ids
    BY <1>1, <1>4 DEF ConcludeFirst, Step, Known, OfRelease, i
  <2>2. CASE Ongoing(i) /\ exps[i].variant = 1
    <3>1. PICK e : e = [exps[i] EXCEPT !.st = "concluded", !.chosen = "new", !.settled = TRUE]
      OBVIOUS
    <3>2. /\ exps' = [exps EXCEPT ![i] = e]
          /\ contexts' = [contexts EXCEPT ![exps[i].target] = [set |-> TRUE, cfg |-> exps[i].new]]
      BY <1>4, <2>2, <3>1 DEF ConcludeFirst, i
    <3>3. Concludes(i, e)
      BY <2>1, <2>2, <3>1, <3>2, ConclusionKeeps
    <3> QED BY <2>1, <3>2, <3>3 DEF Changed, Changes
  <2>3. CASE ~(Ongoing(i) /\ exps[i].variant = 1)
    <3>1. PICK e : e = [exps[i] EXCEPT !.settled = TRUE]
      OBVIOUS
    <3>2. exps' = [exps EXCEPT ![i] = e] /\ UNCHANGED contexts
      BY <1>4, <2>3, <3>1 DEF ConcludeFirst, i
    <3> QED BY <2>1, <3>1, <3>2, StatusKeeps DEF Changed, Changes
  <2> QED BY <2>2, <2>3
<1>5. CASE PutOverrides(s)
  <2>1. i \in Ids /\ server[s].st = "put"
    BY <1>1, <1>5 DEF PutOverrides, Step, Known, OfRelease, i
  <2>2. CASE exps[i].st = "created"
    <3>1. PICK e : e = [exps[i] EXCEPT !.control = server[s].control, !.new = server[s].new,
                                       !.of = server[s].target, !.seen = server[s].seen]
      OBVIOUS
    <3>2. exps' = [exps EXCEPT ![i] = e] /\ UNCHANGED contexts
      BY <1>5, <2>2, <3>1 DEF PutOverrides, i
    <3>3. exps[i] \in Experiment
      BY <2>1, ExperimentFields
    <3>4. Rebuilds(s, i, e)
      BY <2>1, <2>2, <3>1, <3>2, <3>3 DEF Rebuilds, Experiment
    <3> QED BY <2>1, <3>2, <3>4 DEF Changed, Changes
  <2> QED BY <1>5, <2>2 DEF PutOverrides, Refuse, i
<1>6. CASE ConcludeRelease(s)
  <2>1. i \in Ids
    BY <1>1, <1>6 DEF ConcludeRelease, Step, Known, OfRelease, i
  <2>2. CASE Ongoing(i)
    <3>1. PICK chosen : chosen = server[s].chosen
      OBVIOUS
    <3>2. PICK e : e = [exps[i] EXCEPT !.st = "concluded", !.chosen = chosen]
      OBVIOUS
    <3>3. /\ exps' = [exps EXCEPT ![i] = e]
          /\ contexts' = [contexts EXCEPT ![exps[i].target] =
                [set |-> TRUE, cfg |-> IF chosen = "new" THEN exps[i].new ELSE exps[i].control]]
      BY <1>6, <2>2, <3>1, <3>2 DEF ConcludeRelease, Conclude, i
    <3>4. Concludes(i, e)
      BY <2>1, <2>2, <3>2, <3>3, ConclusionKeeps
    <3> QED BY <2>1, <3>3, <3>4 DEF Changed, Changes
  <2> QED BY <1>6, <2>2 DEF ConcludeRelease, Refuse, i
<1>7. CASE DiscardRelease(s)
  <2>1. i \in Ids
    BY <1>1, <1>7 DEF DiscardRelease, Step, Known, OfRelease, i
  <2>2. CASE Ongoing(i)
    <3>1. PICK e : e = [exps[i] EXCEPT !.st = "discarded"]
      OBVIOUS
    <3>2. exps' = [exps EXCEPT ![i] = e] /\ UNCHANGED contexts
      BY <1>7, <2>2, <3>1 DEF DiscardRelease, i
    <3> QED BY <2>1, <2>2, <3>1, <3>2, StatusKeeps DEF Changed, Changes
  <2> QED BY <1>7, <2>2 DEF DiscardRelease, Refuse, i
<1>8. CASE Fault(s)
  <2>1. CASE server[s].st = "conclude" /\ server[s].op = "create"
    <3>1. i \in Ids
      BY <1>1, <2>1 DEF Known, OfRelease, i
    <3>2. PICK e : e = [exps[i] EXCEPT !.settled = TRUE]
      OBVIOUS
    <3>3. exps' = [exps EXCEPT ![i] = e] /\ UNCHANGED contexts
      BY <1>8, <2>1, <3>2 DEF Fault, i
    <3> QED BY <3>1, <3>2, <3>3, StatusKeeps DEF Changed, Changes
  <2> QED BY <1>8, <2>1 DEF Fault, Refuse
<1> QED BY <1>2, <1>3, <1>4, <1>5, <1>6, <1>7, <1>8 DEF Handle

(* A conclusion is counted, and nothing else is.                           *)
Settles == (UNCHANGED contexts /\ Concluded' = Concluded) \/ Concluded' > Concluded

LEMMA ConcludedCounts ==
  ASSUME IInv, NEW i \in Ids, NEW e, exps' = [exps EXCEPT ![i] = e]
  PROVE  /\ (e.st = "concluded" <=> exps[i].st = "concluded") => Concluded' = Concluded
         /\ e.st = "concluded" /\ exps[i].st # "concluded" => Concluded' = Concluded + 1
<1> DEFINE S == {x \in Ids : exps[x].st = "concluded"}
           T == {x \in Ids : exps'[x].st = "concluded"}
<1>1. \A x \in Ids : exps'[x] = IF x = i THEN e ELSE exps[x]
  BY DEF IInv
<1>2. IsFiniteSet(S)
  <2>1. IsFiniteSet(Ids)
    BY FS_Interval, Constants DEF Ids
  <2>2. S \subseteq Ids
    OBVIOUS
  <2> QED BY <2>1, <2>2, FS_Subset
<1>3. Concluded = Cardinality(S) /\ Concluded' = Cardinality(T)
  BY DEF Concluded
<1>4. (e.st = "concluded" <=> exps[i].st = "concluded") => T = S
  BY <1>1
<1>5. e.st = "concluded" /\ exps[i].st # "concluded" => i \notin S /\ T = S \cup {i}
  BY <1>1
<1> HIDE DEF S, T
<1>6. i \notin S => Cardinality(S \cup {i}) = Cardinality(S) + 1
  BY <1>2, FS_AddElement
<1> QED BY <1>3, <1>4, <1>5, <1>6

LEMMA HandleSettles ==
  ASSUME IInv, DInv, NEW s \in Slots, Handle(s)
  PROVE  Settles
<1>1. Concluded \in Nat
  BY CountTypes
<1>2. CASE CreateExperiment(s)
  <2>1. PICK n, e : /\ n \in Ids /\ n = Created + 1 /\ exps' = [exps EXCEPT ![n] = e]
                     /\ e.st = "created" /\ UNCHANGED contexts
    <3> DEFINE f == [NoExperiment EXCEPT !.st = "created", !.target = server[s].target,
                             !.control = server[s].control, !.new = server[s].new,
                             !.variant = server[s].new.pkg, !.of = server[s].target,
                             !.seen = server[s].seen, !.checked = server[s].checked,
                             !.first = (server[s].control.pkg = NoPackage),
                             !.settled = ~(server[s].control.pkg = NoPackage)]
    <3>1. f.st = "created"
      BY DEF NoExperiment
    <3>2. Created + 1 \in Ids /\ exps' = [exps EXCEPT ![Created + 1] = f] /\ UNCHANGED contexts
      BY <1>2 DEF CreateExperiment
    <3> HIDE DEF f
    <3> QED BY <3>1, <3>2
  <2>2. exps[n].st = "none"
    <3>1. Created \in Nat
      BY CountTypes
    <3>2. n \notin 1 .. Created
      BY <2>1, <3>1
    <3> QED BY <2>1, <3>2 DEF DInv, Numbered
  <2>3. Concluded' = Concluded
    BY <2>1, <2>2, ConcludedCounts
  <2> QED BY <2>1, <2>3 DEF Settles
<1>3. CASE UNCHANGED superposition
  BY <1>3 DEF superposition, Settles, Concluded
<1>4. ASSUME NEW i \in Ids, NEW e, exps' = [exps EXCEPT ![i] = e], Changes(s, i, e)
      PROVE  Settles
  <2>1. CASE Stays(i, e)
    BY <1>4, <2>1, ConcludedCounts DEF Stays, Settles
  <2>2. CASE Concludes(i, e)
    <3>1. exps[i].st # "concluded" /\ e.st = "concluded"
      BY <2>2 DEF Concludes, Ongoing
    <3>2. Concluded' = Concluded + 1
      BY <1>4, <3>1, ConcludedCounts
    <3> QED BY <1>1, <3>2 DEF Settles
  <2>3. CASE Rebuilds(s, i, e)
    BY <1>4, <2>3, ConcludedCounts DEF Rebuilds, Settles
  <2> QED BY <1>4, <2>1, <2>2, <2>3 DEF Changes
<1> QED BY <1>2, <1>3, <1>4, HandleChanges DEF Changed

LEMMA LatestStays ==
  ASSUME NEW c, NEW n, NEW t, NEW k \in 0 .. MaxReleases, FromLatest(c, n, t, k), Settles
  PROVE  FromLatest(c, n, t, k)'
<1>1. Concluded \in Nat /\ k \in Nat
  BY CountTypes, Constants
<1>2. CASE UNCHANGED contexts /\ Concluded' = Concluded
  BY <1>2 DEF FromLatest, Resolved
<1>3. CASE Concluded' > Concluded
  <2>1. Concluded' \in Nat
    <3>1. /\ Concluded = Cardinality({i \in Ids : exps[i].st = "concluded"})
          /\ Concluded' = Cardinality({i \in Ids : exps'[i].st = "concluded"})
      BY DEF Concluded
    <3>2. IsFiniteSet(Ids)
      BY FS_Interval, Constants DEF Ids
    <3>3. IsFiniteSet({i \in Ids : exps'[i].st = "concluded"})
      BY <3>2, FS_Subset
    <3> QED BY <3>1, <3>3, FS_CardinalityType
  <2>2. k < Concluded'
    BY <1>1, <1>3, <2>1 DEF FromLatest
  <2>3. k <= Concluded' /\ k # Concluded'
    BY <1>1, <2>1, <2>2
  <2> QED BY <2>3 DEF FromLatest
<1> QED BY <1>2, <1>3 DEF Settles

(* What a step of a request leaves in its slot: a build for what is        *)
(* resolved now, or no build.                                              *)
Built(q, r) ==
    LET old == Base(q.target) IN
    /\ Accepts(q.body, old) /\ r.control = old /\ r.new = ConfigFor(q.body, old)
    /\ r.target = q.target /\ r.seen = Concluded

LEMMA HandleReplies ==
  ASSUME IInv, NEW s \in Slots, Handle(s)
  PROVE  \E r : /\ Goto(s, r)
                /\ r.st \in {"create", "put"} => Built(server[s], r) /\ UNCHANGED superposition
<1> DEFINE q == server[s]
           Fine(r) == /\ Goto(s, r)
                      /\ r.st \in {"create", "put"} => Built(q, r) /\ UNCHANGED superposition
<1> SUFFICES \E r : Fine(r)
  OBVIOUS
<1>1. q \in Request
  BY RequestFields
<1>2. ASSUME NEW ok \in BOOLEAN, Goto(s, Answer(s, ok)) PROVE \E r : Fine(r)
  <2>1. PICK r : r = Answer(s, ok)
    OBVIOUS
  <2>2. r.st \in {"free", "done", "failed"}
    BY <1>1, <2>1 DEF Answer, Free, Request
  <2> QED BY <1>2, <2>1, <2>2
<1>3. ASSUME NEW r, Goto(s, r), r.st \notin {"create", "put"} PROVE \E x : Fine(x)
  BY <1>3
<1>4. CASE Refuse(s)
  BY <1>2, <1>4 DEF Refuse
<1>5. CASE CheckOngoing(s)
  <2>1. PICK r : r = [q EXCEPT !.st = "build", !.checked = Created]
    OBVIOUS
  <2>2. r.st = "build"
    BY <1>1, <2>1 DEF Request
  <2>3. Refuse(s) \/ Goto(s, r)
    BY <1>5, <2>1 DEF CheckOngoing
  <2> QED BY <1>3, <1>4, <2>2, <2>3
<1>6. CASE Build(s)
  <2>1. CASE Accepts(q.body, Base(q.target))
    <3>1. PICK r : r = [q EXCEPT !.st = IF q.op = "create" THEN "create" ELSE "put",
                                 !.control = Base(q.target), !.new = ConfigFor(q.body, Base(q.target)),
                                 !.seen = Concluded]
      OBVIOUS
    <3>2. Built(q, r)
      BY <1>1, <2>1, <3>1 DEF Request, Built
    <3>3. Goto(s, r) /\ UNCHANGED superposition
      BY <1>6, <2>1, <3>1 DEF Build
    <3> QED BY <3>2, <3>3
  <2> QED BY <1>4, <1>6, <2>1 DEF Build
<1>7. CASE CreateExperiment(s)
  <2>1. PICK r : r = [q EXCEPT !.st = "ramp", !.id = Created + 1]
    OBVIOUS
  <2>2. r.st = "ramp"
    BY <1>1, <2>1 DEF Request
  <2>3. Goto(s, r) \/ Goto(s, Answer(s, TRUE))
    BY <1>7, <2>1 DEF CreateExperiment
  <2> QED BY <1>2, <1>3, <2>2, <2>3
<1>8. CASE RampFirst(s)
  <2>1. PICK r : r = [q EXCEPT !.st = "conclude"]
    OBVIOUS
  <2>2. r.st = "conclude"
    BY <1>1, <2>1 DEF Request
  <2>3. Goto(s, r) \/ Refuse(s)
    BY <1>8, <2>1 DEF RampFirst
  <2> QED BY <1>3, <1>4, <2>2, <2>3
<1>9. CASE ReadStatus(s)
  <2>1. PICK r : r = [q EXCEPT !.st = "discard"]
    OBVIOUS
  <2>2. r.st = "discard"
    BY <1>1, <2>1 DEF Request
  <2>3. Goto(s, r) \/ Refuse(s)
    BY <1>9, <2>1 DEF ReadStatus
  <2> QED BY <1>3, <1>4, <2>2, <2>3
<1>10. CASE ConcludeFirst(s) \/ PutOverrides(s) \/ RampRelease(s) \/ ConcludeRelease(s)
            \/ DiscardRelease(s) \/ Fault(s)
  <2>1. Refuse(s) \/ Goto(s, Answer(s, TRUE))
    BY <1>10 DEF ConcludeFirst, PutOverrides, RampRelease, ConcludeRelease, DiscardRelease, Fault
  <2> QED BY <1>2, <1>4, <2>1
<1> QED BY <1>5, <1>6, <1>7, <1>8, <1>9, <1>10 DEF Handle

(* The latest build of a request and of a release, after any step.         *)
LEMMA BuildStays ==
  ASSUME IInv, RInv, NEW s \in Slots, NEW y, y = server[s], Settles,
         y.st \in {"create", "put"}
  PROVE  FromLatest(y.control, y.new, y.target, y.seen)'
<1>1. FromLatest(server[s].control, server[s].new, server[s].target, server[s].seen)
  BY DEF RInv, BuiltLatest
<1>2. PICK c, n, t, k : c = y.control /\ n = y.new /\ t = y.target /\ k = y.seen
  OBVIOUS
<1>3. k \in 0 .. MaxReleases
  BY <1>2, RequestFields
<1>4. FromLatest(c, n, t, k)
  BY <1>1, <1>2
<1>5. FromLatest(c, n, t, k)'
  BY <1>3, <1>4, LatestStays
<1> QED BY <1>2, <1>5

LEMMA ReleaseStays ==
  ASSUME IInv, RInv, NEW i \in Ids, NEW e, Ongoing(i), Settles,
         e.control = exps[i].control, e.new = exps[i].new, e.of = exps[i].of, e.seen = exps[i].seen
  PROVE  FromLatest(e.control, e.new, e.of, e.seen)'
<1>1. FromLatest(exps[i].control, exps[i].new, exps[i].of, exps[i].seen)
  BY DEF RInv, OngoingLatest
<1>2. PICK c, n, t, k : c = e.control /\ n = e.new /\ t = e.of /\ k = e.seen
  OBVIOUS
<1>3. k \in 0 .. MaxReleases
  BY <1>2, ExperimentFields DEF Experiment
<1>4. FromLatest(c, n, t, k)
  BY <1>1, <1>2
<1>5. FromLatest(c, n, t, k)'
  BY <1>3, <1>4, LatestStays
<1> QED BY <1>2, <1>5

LEMMA BuiltIsLatest ==
  ASSUME IInv, NEW s \in Slots, NEW r, Built(server[s], r), UNCHANGED superposition
  PROVE  FromLatest(r.control, r.new, r.target, r.seen)'
<1>1. Concluded' = Concluded /\ Concluded \in Nat /\ \A t : Resolved(t)' = Resolved(t)
  BY CountTypes DEF superposition, Concluded, Resolved
<1>2. r.control = Resolved(r.target) /\ r.seen = Concluded
  BY DEF Built, Base
<1>3. r.new.made = server[s].body.made /\ r.new.pkg = PackageFor(server[s].body, r.control)
  BY DEF Built, ConfigFor
<1>4. r.new.made = "patch" => r.new.pkg = r.control.pkg
  BY <1>3, RequestFields DEF SafeBody, PackageFor
<1> QED BY <1>1, <1>2, <1>4 DEF FromLatest

LEMMA HandleLatest ==
  ASSUME IInv, DInv, RInv, NEW s \in Slots, Handle(s)
  PROVE  RInv'
<1>1. Settles
  BY HandleSettles
<1>2. PICK r : /\ Goto(s, r)
               /\ r.st \in {"create", "put"} => Built(server[s], r) /\ UNCHANGED superposition
  BY HandleReplies
<1>3. server' = [server EXCEPT ![s] = r] /\ server \in [Slots -> SafeRequest]
  BY <1>2 DEF Goto, IInv
<1>4. BuiltLatest'
  <2> SUFFICES ASSUME NEW x \in Slots, NEW y, y = server'[x], y.st \in {"create", "put"}
               PROVE  FromLatest(y.control, y.new, y.target, y.seen)'
    BY DEF BuiltLatest, FromLatest
  <2>1. y = server'[x]
    OBVIOUS
  <2>2. FromLatest(y.control, y.new, y.target, y.seen)'
    <3>1. CASE x = s
      <4>1. y = r
        BY <1>3, <2>1, <3>1
      <4> QED BY <1>2, <2>1, <4>1, BuiltIsLatest
    <3>2. CASE x # s
      <4>1. y = server[x]
        BY <1>3, <2>1, <3>2
      <4> QED BY <1>1, <2>1, <4>1, BuildStays
    <3> QED BY <3>1, <3>2
  <2> QED BY <2>2
<1>5. OngoingLatest'
  <2> SUFFICES ASSUME NEW j \in Ids, NEW y, y = exps'[j], y.st \in {"created", "inprogress"}
               PROVE  FromLatest(y.control, y.new, y.of, y.seen)'
    BY DEF OngoingLatest, Ongoing, FromLatest
  <2>1. y = exps'[j]
    OBVIOUS
  <2>2. exps \in [Ids -> SafeExperiment]
    BY DEF IInv
  <2>3. y = exps[j] => FromLatest(y.control, y.new, y.of, y.seen)'
    BY <1>1, <2>1, ReleaseStays DEF Ongoing
  <2>4. CASE CreateExperiment(s)
    <3> DEFINE f == [NoExperiment EXCEPT !.st = "created", !.target = server[s].target,
                             !.control = server[s].control, !.new = server[s].new,
                             !.variant = server[s].new.pkg, !.of = server[s].target,
                             !.seen = server[s].seen, !.checked = server[s].checked,
                             !.first = (server[s].control.pkg = NoPackage),
                             !.settled = ~(server[s].control.pkg = NoPackage)]
    <3>1. /\ f.control = server[s].control /\ f.new = server[s].new
          /\ f.of = server[s].target /\ f.seen = server[s].seen
      BY DEF NoExperiment
    <3>2. exps' = [exps EXCEPT ![Created + 1] = f] /\ server[s].st = "create"
      BY <2>4 DEF CreateExperiment, Step
    <3> HIDE DEF f
    <3>3. CASE j = Created + 1
      <4>1. y = f
        BY <2>1, <2>2, <3>2, <3>3
      <4>2. PICK q : q = server[s]
        OBVIOUS
      <4>3. FromLatest(q.control, q.new, q.target, q.seen)'
        BY <1>1, <3>2, <4>2, BuildStays
      <4> QED BY <3>1, <4>1, <4>2, <4>3
    <3>4. CASE j # Created + 1
      BY <2>1, <2>2, <2>3, <3>2, <3>4
    <3> QED BY <3>3, <3>4
  <2>5. CASE UNCHANGED superposition
    BY <2>1, <2>3, <2>5 DEF superposition
  <2>6. ASSUME NEW i \in Ids, NEW e, exps' = [exps EXCEPT ![i] = e], Changes(s, i, e)
        PROVE  FromLatest(y.control, y.new, y.of, y.seen)'
    <3>1. CASE j # i
      BY <2>1, <2>2, <2>3, <2>6, <3>1
    <3>2. CASE j = i
      <4>1. y = e /\ e.st \in {"created", "inprogress"}
        BY <2>1, <2>2, <2>6, <3>2
      <4>2. CASE Stays(i, e)
        BY <1>1, <4>1, <4>2, ReleaseStays DEF Stays
      <4>3. CASE Concludes(i, e)
        BY <4>1, <4>3 DEF Concludes
      <4>4. CASE Rebuilds(s, i, e)
        <5>1. PICK q : q = server[s]
          OBVIOUS
        <5>2. FromLatest(q.control, q.new, q.target, q.seen)'
          BY <1>1, <4>4, <5>1, BuildStays DEF Rebuilds
        <5> QED BY <4>1, <4>4, <5>1, <5>2 DEF Rebuilds
      <4> QED BY <2>6, <4>2, <4>3, <4>4 DEF Changes
    <3> QED BY <3>1, <3>2
  <2>7. CASE Changed(s)
    BY <2>6, <2>7 DEF Changed
  <2> QED BY <2>4, <2>5, <2>7, HandleChanges
<1> QED BY <1>4, <1>5 DEF RInv

(* Every other step leaves the releases, and what it sends is not built.   *)
LEMMA OthersLatest ==
  ASSUME IInv, RInv, ClientSends \/ FormStep
  PROVE  RInv' /\ UNCHANGED superposition
<1>1. UNCHANGED superposition
  BY DEF ClientSends, FormStep, FormStays, superposition, OpenForm, CloseForm, PickPackage,
         NextStep, PreviousStep, InitialPackage, SetPriority, ChooseResources, OpenDialog,
         CloseDialog, Submit, TakeAnswer
<1>2. UNCHANGED server \/ \E s \in Slots : \E r : Goto(s, r) /\ r.st \notin {"create", "put"}
  <2>1. Free \in Request /\ Free.st = "free"
    BY BlankTypes DEF Free
  <2>2. CASE ClientSends
    <3>1. PICK r : Send(r) /\
            \/ \E t \in Targets, b \in Bodies :
                 \/ r = [Free EXCEPT !.op = "create", !.st = "check", !.target = t, !.body = b]
                 \/ \E i \in 1 .. Created :
                      r = [Free EXCEPT !.op = "update", !.st = "build", !.id = i, !.target = t, !.body = b]
            \/ \E i \in 1 .. Created : \E p :
                 \/ r = [Free EXCEPT !.op = "ramp", !.st = "ramp", !.id = i, !.traffic = p]
                 \/ r = [Free EXCEPT !.op = "conclude", !.st = "conclude", !.id = i, !.chosen = p]
                 \/ r = [Free EXCEPT !.op = "discard", !.st = "status", !.id = i]
      BY <2>2 DEF ClientSends
    <3>2. r.st \notin {"create", "put"}
      BY <2>1, <3>1 DEF Request
    <3> QED BY <3>1, <3>2 DEF Send
  <2>3. CASE Submit
    <3>1. PICK r : Send(r) /\
            \/ r = [[Free EXCEPT !.client = "form", !.target = form.target, !.body = form.body]
                      EXCEPT !.op = "update", !.st = "build", !.id = form.id]
            \/ r = [[Free EXCEPT !.client = "form", !.target = form.target, !.body = form.body]
                      EXCEPT !.op = "create", !.st = "check"]
      BY <2>3 DEF Submit
    <3>2. r.st \notin {"create", "put"}
      BY <2>1, <3>1 DEF Request
    <3> QED BY <3>1, <3>2 DEF Send
  <2>4. CASE TakeAnswer
    BY <2>1, <2>4 DEF TakeAnswer
  <2>5. CASE FormStep /\ ~Submit /\ ~TakeAnswer
    BY <2>5 DEF FormStep, FormStays, OpenForm, CloseForm, PickPackage, NextStep, PreviousStep,
         InitialPackage, SetPriority, ChooseResources, OpenDialog, CloseDialog
  <2> QED BY <2>2, <2>3, <2>4, <2>5
<1>3. OngoingLatest'
  BY <1>1 DEF RInv, OngoingLatest, superposition, Ongoing, FromLatest, Resolved, Concluded
<1>4. BuiltLatest'
  <2> SUFFICES ASSUME NEW x \in Slots, NEW y, y = server'[x], y.st \in {"create", "put"}
               PROVE  FromLatest(y.control, y.new, y.target, y.seen)'
    BY DEF BuiltLatest, FromLatest
  <2>1. y = server[x]
    BY <1>2 DEF Goto, IInv
  <2>2. Settles
    BY <1>1 DEF superposition, Settles, Concluded
  <2> QED BY <2>1, <2>2, BuildStays
<1> QED BY <1>1, <1>3, <1>4 DEF RInv

LEMMA InitLatest == Init => RInv
<1> SUFFICES ASSUME Init PROVE RInv
  OBVIOUS
<1>1. PICK past \in Pasts : /\ contexts = past.contexts
                            /\ exps = [i \in Ids |-> IF i = 1 THEN past.ongoing ELSE NoExperiment]
  BY DEF Init
<1>2. BuiltLatest
  BY DEF Init, BuiltLatest, Free
<1>3. ASSUME NEW i \in Ids, Ongoing(i)
      PROVE  FromLatest(exps[i].control, exps[i].new, exps[i].of, exps[i].seen)
  <2>1. i = 1 /\ exps[i] = past.ongoing
    BY <1>1, <1>3 DEF Ongoing, NoExperiment
  <2>2. /\ exps[i].seen = 0 /\ exps[i].control = Resolved(exps[i].of)
        /\ exps[i].new.made = "patch" => exps[i].new.pkg = exps[i].control.pkg
    BY <1>1, <1>3, <2>1, PastFreshAssumption DEF Ongoing, Resolved
  <2>3. 0 <= Concluded
    BY CountTypes
  <2> QED BY <2>2, <2>3 DEF FromLatest
<1> QED BY <1>2, <1>3 DEF RInv, OngoingLatest

LEMMA LatestInductive == Spec => [](IInv /\ DInv /\ RInv)
<1>1. IInv /\ DInv /\ RInv /\ [Next]_vars => RInv'
  <2> SUFFICES ASSUME IInv, DInv, RInv, [Next]_vars PROVE RInv'
    OBVIOUS
  <2>1. CASE UNCHANGED vars
    BY <2>1 DEF vars, RInv, BuiltLatest, OngoingLatest, Ongoing, FromLatest, Resolved, Concluded
  <2> QED BY <2>1, HandleLatest, OthersLatest DEF Next
<1> QED BY <1>1, InitLatest, Inductive, DistinctInductive, PTL DEF Spec

(* The step that decides a release puts what was chosen over its target.   *)
LEMMA ChoiceServed ==
  ASSUME IInv, DInv, RInv, [Next]_vars, NEW i \in Ids,
         exps[i].chosen = "none", exps'[i].chosen \in {"control", "new"},
         exps[i].of = exps[i].target, exps[i].seen = Concluded
  PROVE  LET t == exps[i].target IN
         /\ exps'[i].target = t /\ exps[i].control = Resolved(t)
         /\ exps[i].new.made = "patch" => exps[i].new.pkg = Resolved(t).pkg
         /\ Resolved(t)' = IF exps'[i].chosen = "new" THEN exps[i].new ELSE exps[i].control
<1>1. exps \in [Ids -> SafeExperiment] /\ exps[i].target \in Targets
  BY ExperimentFields DEF IInv
<1>2. ~UNCHANGED superposition
  BY DEF superposition
<1>3. PICK s \in Slots : Handle(s)
  BY <1>2, OthersLatest DEF Next, vars, superposition
<1>4. ~CreateExperiment(s)
  <2> SUFFICES ASSUME CreateExperiment(s) PROVE FALSE
    OBVIOUS
  <2> DEFINE f == [NoExperiment EXCEPT !.st = "created", !.target = server[s].target,
                             !.control = server[s].control, !.new = server[s].new,
                             !.variant = server[s].new.pkg, !.of = server[s].target,
                             !.seen = server[s].seen, !.checked = server[s].checked,
                             !.first = (server[s].control.pkg = NoPackage),
                             !.settled = ~(server[s].control.pkg = NoPackage)]
  <2>1. f.chosen = "none"
    BY DEF NoExperiment
  <2>2. exps' = [exps EXCEPT ![Created + 1] = f]
    BY DEF CreateExperiment
  <2> HIDE DEF f
  <2> QED BY <1>1, <2>1, <2>2
<1>5. PICK j, e : j \in Ids /\ exps' = [exps EXCEPT ![j] = e] /\ Changes(s, j, e)
  BY <1>2, <1>3, <1>4, HandleChanges DEF Changed
<1>6. j = i /\ exps'[i] = e
  BY <1>1, <1>5
<1>7. Concludes(i, e)
  BY <1>5, <1>6 DEF Changes, Stays, Rebuilds
<1>8. /\ exps[i].control = Resolved(exps[i].target)
      /\ exps[i].new.made = "patch" => exps[i].new.pkg = Resolved(exps[i].target).pkg
  BY <1>7 DEF Concludes, RInv, OngoingLatest, FromLatest
<1>9. Quiet
  BY <1>3, <1>4, HandleQuiet
<1>10. Resolved(exps[i].target)' = IF exps'[i].chosen = "new" THEN exps[i].new ELSE exps[i].control
  <2>1. PICK t : t = exps[i].target
    OBVIOUS
  <2>2. PICK c : c = IF e.chosen = "new" THEN exps[i].new ELSE exps[i].control
    OBVIOUS
  <2>3. contexts' = [contexts EXCEPT ![t] = [set |-> TRUE, cfg |-> c]]
    BY <1>7, <2>1, <2>2 DEF Concludes
  <2>4. t \in DOMAIN contexts
    BY <1>1, <2>1 DEF IInv
  <2>5. contexts'[t].set /\ contexts'[t].cfg = c
    BY <2>3, <2>4
  <2>6. exps'[i].target = t
    BY <1>9, <2>1 DEF Quiet
  <2> QED BY <1>6, <2>2, <2>5, <2>6 DEF Resolved, ResolvedIn
<1> QED BY <1>8, <1>9, <1>10 DEF Quiet

(* The release page's Revert, of a release built for its own target since  *)
(* the last conclusion, leaves what the target resolves to.                *)
THEOREM RevertGivesBack == Spec => RevertRestores
<1>1. IInv /\ DInv /\ RInv /\ [Next]_vars
        => [\A i \in Ids : FreshChoice(i, "control")
              => Resolved(exps[i].target)' = Resolved(exps[i].target)]_vars
  <2> SUFFICES ASSUME IInv, DInv, RInv, [Next]_vars, NEW i \in Ids, FreshChoice(i, "control")
               PROVE  Resolved(exps[i].target)' = Resolved(exps[i].target)
    OBVIOUS
  <2> QED BY ChoiceServed DEF FreshChoice
<1> QED BY <1>1, LatestInductive, PTL DEF Spec, RevertRestores

(* The conclusion of such a release made without a package leaves its      *)
(* target on the package it is on.                                         *)
THEOREM PatchLeavesPackage == Spec => PatchKeepsPackage
<1>1. IInv /\ DInv /\ RInv /\ [Next]_vars
        => [\A i \in Ids : FreshChoice(i, "new") /\ exps[i].new.made = "patch"
              => Resolved(exps[i].target).pkg' = Resolved(exps[i].target).pkg]_vars
  <2> SUFFICES ASSUME IInv, DInv, RInv, [Next]_vars, NEW i \in Ids, FreshChoice(i, "new"),
                      exps[i].new.made = "patch"
               PROVE  Resolved(exps[i].target).pkg' = Resolved(exps[i].target).pkg
    OBVIOUS
  <2> QED BY ChoiceServed DEF FreshChoice
<1> QED BY <1>1, LatestInductive, PTL DEF Spec, PatchKeepsPackage
=============================================================================
