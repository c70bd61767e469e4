------------------------------ MODULE Release ------------------------------
(***************************************************************************)
(* Releases: the wizard of the dashboard that composes one, the handlers   *)
(* of the server that create, update, ramp, conclude and discard it, and   *)
(* the configuration users are served meanwhile.                           *)
(*                                                                         *)
(* A release is an experiment of Superposition, an external service: its   *)
(* control variant is a copy of the configuration resolved when it was     *)
(* built, its experimental variant the new one. Every call to Superposition*)
(* is a step of its own. One application, whose users are in a broad       *)
(* target, some of them in a narrow one too, and one wizard among other    *)
(* clients.                                                                *)
(***************************************************************************)
EXTENDS Naturals, FiniteSets, Sequences

CONSTANTS
    Files,        \* the files of the application: a path and a version each
    PathOf,       \* the path of each
    FilesOf,      \* the files of each package
    Targets,      \* Broad and Narrow: dimensions a release is for
    Broad, Narrow,
    Pasts,        \* what earlier releases may have left
    Bodies,       \* the requests clients other than the wizard make
    Extras,       \* the files the wizard is given as resources
    Percents,     \* the traffic releases are ramped to
    Slots,        \* requests the server can be running
    None,         \* an absent value
    MaxReleases,
    MaxSpent,     \* what clients may do: a request costs 1,
    FormCost,     \* opening the wizard this much
    MayFail       \* whether calls to Superposition may

Packages == DOMAIN FilesOf
Ids == 1 .. MaxReleases
NoPackage == 0

MayBe == {None} \cup SUBSET Files

(* A request: a package, or the one in use; its block of lists, each of    *)
(* which may be missing; resources.                                        *)
Body == [pkg : Packages \cup {NoPackage}, block : BOOLEAN,
         imp : MayBe, lazy : MayBe, res : MayBe, made : {"form", "late", "api", "patch"}]

ASSUME TargetAssumption == Targets = {Broad, Narrow} /\ Broad # Narrow
ASSUME FileAssumption ==
    /\ FilesOf \in Seq(SUBSET Files)
    /\ DOMAIN PathOf = Files
    /\ Extras \subseteq Files
ASSUME BodyAssumption ==
    /\ Bodies \subseteq Body
    /\ \A b \in Bodies : b.made = IF b.pkg = NoPackage THEN "patch" ELSE "api"
ASSUME PercentAssumption == Percents \subseteq {"none", "some", "half"}
ASSUME NoneAssumption == \A S \in SUBSET Files : S # None
ASSUME BoundAssumption == {MaxReleases, MaxSpent, FormCost} \subseteq Nat /\ MayFail \in BOOLEAN

VARIABLES
    exps,      \* the experiments of Superposition, by number
    contexts,  \* its overrides for each target: what was concluded there
    server,    \* the requests being handled
    form,      \* the wizard
    spent      \* what clients did

vars == <<exps, contexts, server, form, spent>>
superposition == <<exps, contexts>>

----------------------------------------------------------------------------
(* What a user is served. Who composed it is history: the wizard, whose    *)
(* initial package may have come late, or another client, which may have   *)
(* left the package as it was.                                             *)
Config == [pkg : Packages \cup {NoPackage}, imp : SUBSET Files, lazy : SUBSET Files,
           res : SUBSET Files, made : {"default", "form", "late", "api", "patch"}]

Default == [pkg |-> NoPackage, imp |-> {}, lazy |-> {}, res |-> {}, made |-> "default"]

Experiment == [
    st      : {"none", "created", "inprogress", "concluded", "discarded"},
    target  : Targets,
    traffic : {"none", "some", "half"},
    control : Config,
    new     : Config,
    variant : Packages \cup {NoPackage},  \* the package its variant is named for
    chosen  : {"none", "control", "new"},
    of      : Targets,                    \* history: what control was resolved for,
    seen    : 0 .. MaxReleases,           \* and how many were concluded then;
    checked : 0 .. MaxReleases,           \* how many were created when it was checked;
    first   : BOOLEAN,                    \* nothing was released before,
    settled : BOOLEAN]                    \* and its creation was answered

(* Which files of its package a configuration lists.                       *)
PathsIn(S) == {PathOf[f] : f \in S}
Splits(c) ==
    /\ c.imp \cup c.lazy \subseteq FilesOf[c.pkg]
    /\ c.res \cap FilesOf[c.pkg] = {}
    /\ c.made = "form" => PathsIn(c.res) \cap PathsIn(FilesOf[c.pkg]) = {}
Complete(c) == c.imp \cup c.lazy = FilesOf[c.pkg] /\ c.imp \cap c.lazy = {}
WellSplit(c) == c.pkg # NoPackage => Splits(c) /\ (c.made = "form" => Complete(c))

NoExperiment == [st |-> "none", target |-> Broad, traffic |-> "none", control |-> Default,
                 new |-> Default, variant |-> NoPackage, chosen |-> "none", of |-> Broad,
                 seen |-> 0, checked |-> 0, first |-> FALSE, settled |-> FALSE]
ASSUME PastAssumption == Pasts \subseteq
    [contexts : [Targets -> [set : BOOLEAN, cfg : Config]], ongoing : Experiment]
ASSUME PastSplitAssumption == \A past \in Pasts :
    /\ \A t \in Targets : WellSplit(past.contexts[t].cfg)
    /\ WellSplit(past.ongoing.control) /\ WellSplit(past.ongoing.new)

Created == Cardinality({i \in Ids : exps[i].st # "none"})
Concluded == Cardinality({i \in Ids : exps[i].st = "concluded"})
Ongoing(i) == exps[i].st \in {"created", "inprogress"}

NoBody == [pkg |-> NoPackage, block |-> FALSE, imp |-> None, lazy |-> None, res |-> None,
           made |-> "patch"]

Request == [
    st      : {"free", "check", "build", "create", "ramp", "conclude", "put",
               "status", "discard", "done", "failed"},
    op      : {"none", "create", "update", "ramp", "conclude", "discard"},
    client  : {"form", "other"},
    target  : Targets,
    body    : Body,
    id      : Ids \cup {0},
    traffic : {"none", "some", "half"},
    chosen  : {"none", "control", "new"},
    control : Config,
    new     : Config,
    seen    : 0 .. MaxReleases,
    checked : 0 .. MaxReleases]

Free == [st |-> "free", op |-> "none", client |-> "other", target |-> Broad, body |-> NoBody,
         id |-> 0, traffic |-> "none", chosen |-> "none", control |-> Default, new |-> Default,
         seen |-> 0, checked |-> 0]

(* The wizard, from its fourth step on: what was typed before decides      *)
(* nothing here but the target.                                            *)
Form == [
    step    : {"closed", "package", "files", "resources", "confirm", "sent"},
    mode    : {"create", "edit", "clone"},
    id      : Ids \cup {0},                   \* the release edited
    target  : Targets,
    pkg     : Packages \cup {NoPackage},      \* selectedPackage
    initial : Packages \cup {NoPackage},      \* the package being fetched for it
    files   : SUBSET Files,                   \* those whose priority was shown
    lazy    : SUBSET Files,                   \* and what of them is lazy
    res     : SUBSET Files,                   \* selectedResources
    late    : BOOLEAN,                        \* history: pkg came after files
    body    : Body]                           \* what the dialog shows

Closed == [step |-> "closed", mode |-> "create", id |-> 0, target |-> Broad, pkg |-> NoPackage,
           initial |-> NoPackage, files |-> {}, lazy |-> {}, res |-> {}, late |-> FALSE,
           body |-> NoBody]

TypeOK ==
    /\ exps \in [Ids -> Experiment]
    /\ contexts \in [Targets -> [set : BOOLEAN, cfg : Config]]
    /\ server \in [Slots -> Request]
    /\ form \in Form
    /\ spent \in 0 .. MaxSpent

(* The application was just made, and its default configuration names no   *)
(* package; or it has releases, one of which may be ongoing.               *)
Init ==
    /\ \E past \in Pasts :
         /\ contexts = past.contexts
         /\ exps = [i \in Ids |-> IF i = 1 THEN past.ongoing ELSE NoExperiment]
    /\ server = [s \in Slots |-> Free]
    /\ form = Closed
    /\ spent = 0

----------------------------------------------------------------------------
(* What Superposition resolves. Outside the experiments: the most specific *)
(* override.                                                               *)
ResolvedIn(overrides, t) ==
    IF overrides[t].set THEN overrides[t].cfg
    ELSE IF overrides[Broad].set THEN overrides[Broad].cfg ELSE Default
Resolved(t) == ResolvedIn(contexts, t)

(* A release found ongoing was built from what is resolved for its target  *)
(* now: conclusions are counted from here.                                 *)
ASSUME PastFreshAssumption == \A past \in Pasts :
    LET e == past.ongoing IN
    e.st \in {"created", "inprogress"} =>
        /\ e.seen = 0 /\ e.control = ResolvedIn(past.contexts, e.of)
        /\ e.new.made = "patch" => e.new.pkg = e.control.pkg

(* In them: one of the two variants, of which half takes everyone.         *)
Running(t) == {i \in Ids : exps[i].st = "inprogress" /\ exps[i].target = t
                           /\ exps[i].traffic # "none"}
Variants(t) == UNION {{exps[i].control, exps[i].new} : i \in Running(t)}
Everyone(t) == \E i \in Running(t) : exps[i].traffic = "half"
Outside(t, below) ==
    IF Everyone(t) THEN {} ELSE IF contexts[t].set THEN {contexts[t].cfg} ELSE below
ServedBroad == Variants(Broad) \cup Outside(Broad, {Default})
Served(t) ==
    IF t = Broad THEN ServedBroad ELSE Variants(Narrow) \cup Outside(Narrow, ServedBroad)

(* serve_release answers "No release yet" to the default.                  *)
Live(t) == {c \in Served(t) : c.pkg # NoPackage}

----------------------------------------------------------------------------
(* The requests                                                            *)

Goto(s, q) == server' = [server EXCEPT ![s] = q]
Step(s, op, st) == server[s].op = op /\ server[s].st = st

(* The wizard waits for its answer.                                        *)
Answer(s, ok) ==
    IF server[s].client = "form" /\ form.step = "sent"
    THEN [server[s] EXCEPT !.st = IF ok THEN "done" ELSE "failed"]
    ELSE Free
Refuse(s) == Goto(s, Answer(s, FALSE)) /\ UNCHANGED superposition

(* A call to Superposition fails.                                          *)
Fault(s) ==
    /\ server[s].st \notin {"free", "done", "failed"}
    /\ MayFail
    /\ IF server[s].st = "conclude" /\ server[s].op = "create"
       THEN \* the error of the conclusion of a first release is swallowed
            /\ exps' = [exps EXCEPT ![server[s].id] = [@ EXCEPT !.settled = TRUE]]
            /\ Goto(s, Answer(s, TRUE))
            /\ UNCHANGED contexts
       ELSE Refuse(s)
    /\ UNCHANGED <<form, spent>>

(* A variant: a created release does not count as ongoing.                 *)
BlocksStarted(i, t) == exps[i].target = t /\ exps[i].st = "inprogress"

(* check_non_concluded_releases: the same dimensions exactly.              *)
Blocks(i, t) == exps[i].target = t /\ Ongoing(i)

CheckOngoing(s) ==
    LET q == server[s] IN
    /\ Step(s, "create", "check")
    /\ IF \E i \in Ids : Blocks(i, q.target) THEN Refuse(s)
       ELSE /\ Goto(s, [q EXCEPT !.st = "build", !.checked = Created])
            /\ UNCHANGED superposition
    /\ UNCHANGED <<form, spent>>

(* A variant: the newest package.                                          *)
NewestFor(b, old) == IF b.pkg # NoPackage THEN b.pkg ELSE Len(FilesOf)

(* build_overrides: the package is the request's, or the one resolved,     *)
(* which a first release has not.                                          *)
PackageFor(b, old) == IF b.pkg # NoPackage THEN b.pkg ELSE old.pkg
ListOr(given, otherwise) == IF given # None THEN given ELSE otherwise
ResourcesFor(b, old) == IF b.block THEN ListOr(b.res, old.res) ELSE old.res

Accepts(b, old) ==
    LET pkg == PackageFor(b, old) IN
    /\ pkg # NoPackage
    /\ b.pkg # NoPackage => b.block
    /\ b.block =>
        /\ ListOr(b.imp, {}) \cup ListOr(b.lazy, {}) \subseteq FilesOf[pkg]
        /\ b.imp # None /\ b.lazy # None => b.imp \cap b.lazy = {}
        /\ ResourcesFor(b, old) \cap FilesOf[pkg] = {}

(* A variant: a list the request leaves out is always the one in use.      *)
MissingInUse(b, old) == old

(* A list the request leaves out is empty with a package, else the one in  *)
(* use.                                                                    *)
Missing(b, old) == IF b.pkg # NoPackage THEN Default ELSE old

ConfigFor(b, old) ==
    [pkg  |-> PackageFor(b, old),
     imp  |-> IF b.block THEN ListOr(b.imp, Missing(b, old).imp) ELSE old.imp,
     lazy |-> IF b.block THEN ListOr(b.lazy, Missing(b, old).lazy) ELSE old.lazy,
     res  |-> ResourcesFor(b, old),
     made |-> b.made]

(* A variant: what a release of everyone starts from.                      *)
BaseBroad(t) == Resolved(Broad)

(* What a release starts from: the dimensions of the request, no variant.  *)
Base(t) == Resolved(t)

Build(s) ==
    LET q == server[s]  old == Base(q.target) IN
    /\ q.st = "build"
    /\ IF Accepts(q.body, old)
       THEN /\ Goto(s, [q EXCEPT !.st = IF q.op = "create" THEN "create" ELSE "put",
                                 !.control = old, !.new = ConfigFor(q.body, old),
                                 !.seen = Concluded])
            /\ UNCHANGED superposition
       ELSE Refuse(s)
    /\ UNCHANGED <<form, spent>>

(* A first release is ramped and concluded at once.                        *)
CreateExperiment(s) ==
    LET q == server[s]
        id == Created + 1
        first == q.control.pkg = NoPackage
    IN  /\ Step(s, "create", "create")
        /\ id \in Ids
        /\ exps' = [exps EXCEPT ![id] =
               [NoExperiment EXCEPT !.st = "created", !.target = q.target, !.control = q.control,
                                    !.new = q.new, !.variant = q.new.pkg, !.of = q.target,
                                    !.seen = q.seen, !.checked = q.checked,
                                    !.first = first, !.settled = ~first]]
        /\ Goto(s, IF first THEN [q EXCEPT !.st = "ramp", !.id = id] ELSE Answer(s, TRUE))
        /\ UNCHANGED <<contexts, form, spent>>

(* A variant: no experiment takes half of the users only.                  *)
RampAll(i, traffic) ==
    exps' = [exps EXCEPT ![i].st = "inprogress", ![i].traffic = IF traffic = "half" THEN "all" ELSE traffic]

Ramp(i, traffic) == exps' = [exps EXCEPT ![i] = [@ EXCEPT !.st = "inprogress", !.traffic = traffic]]

RampFirst(s) ==
    LET q == server[s] IN
    /\ Step(s, "create", "ramp")
    /\ IF Ongoing(q.id)
       THEN /\ Ramp(q.id, "half")
            /\ Goto(s, [q EXCEPT !.st = "conclude"])
            /\ UNCHANGED contexts
       ELSE Refuse(s)
    /\ UNCHANGED <<form, spent>>

(* What was chosen becomes what the target is served.                      *)
Conclude(i, chosen) ==
    LET c == IF chosen = "new" THEN exps[i].new ELSE exps[i].control IN
    /\ exps' = [exps EXCEPT ![i] = [@ EXCEPT !.st = "concluded", !.chosen = chosen]]
    /\ contexts' = [contexts EXCEPT ![exps[i].target] = [set |-> TRUE, cfg |-> c]]

(* The variant concluded is experimental_1, which only a release of the    *)
(* package 1 has.                                                          *)
ConcludeFirst(s) ==
    LET q == server[s]  i == q.id IN
    /\ Step(s, "create", "conclude")
    /\ IF Ongoing(i) /\ exps[i].variant = 1
       THEN /\ exps' = [exps EXCEPT ![i] = [@ EXCEPT !.st = "concluded", !.chosen = "new",
                                                     !.settled = TRUE]]
            /\ contexts' = [contexts EXCEPT ![exps[i].target] = [set |-> TRUE, cfg |-> exps[i].new]]
       ELSE /\ exps' = [exps EXCEPT ![i] = [@ EXCEPT !.settled = TRUE]]
            /\ UNCHANGED contexts
    /\ Goto(s, Answer(s, TRUE))
    /\ UNCHANGED <<form, spent>>

(* update_overrides_experiment replaces both variants, of a release not    *)
(* yet started. Its target stays what it was.                              *)
PutOverrides(s) ==
    LET q == server[s]  i == q.id IN
    /\ Step(s, "update", "put")
    /\ IF exps[i].st = "created"
       THEN /\ exps' = [exps EXCEPT ![i] = [@ EXCEPT !.control = q.control, !.new = q.new,
                                                     !.of = q.target, !.seen = q.seen]]
            /\ Goto(s, Answer(s, TRUE))
            /\ UNCHANGED contexts
       ELSE Refuse(s)
    /\ UNCHANGED <<form, spent>>

RampRelease(s) ==
    LET q == server[s] IN
    /\ Step(s, "ramp", "ramp")
    /\ IF Ongoing(q.id)
       THEN Ramp(q.id, q.traffic) /\ Goto(s, Answer(s, TRUE)) /\ UNCHANGED contexts
       ELSE Refuse(s)
    /\ UNCHANGED <<form, spent>>

(* conclude_release reads the names of the variants, which never change.   *)
ConcludeRelease(s) ==
    LET q == server[s] IN
    /\ Step(s, "conclude", "conclude")
    /\ IF Ongoing(q.id)
       THEN Conclude(q.id, q.chosen) /\ Goto(s, Answer(s, TRUE))
       ELSE Refuse(s)
    /\ UNCHANGED <<form, spent>>

(* discard_release reads the status in one call and discards in another.   *)
ReadStatus(s) ==
    LET q == server[s] IN
    /\ Step(s, "discard", "status")
    /\ IF exps[q.id].st = "created"
       THEN Goto(s, [q EXCEPT !.st = "discard"]) /\ UNCHANGED superposition
       ELSE Refuse(s)
    /\ UNCHANGED <<form, spent>>

DiscardRelease(s) ==
    LET q == server[s] IN
    /\ Step(s, "discard", "discard")
    /\ IF Ongoing(q.id)
       THEN /\ exps' = [exps EXCEPT ![q.id] = [@ EXCEPT !.st = "discarded"]]
            /\ Goto(s, Answer(s, TRUE))
            /\ UNCHANGED contexts
       ELSE Refuse(s)
    /\ UNCHANGED <<form, spent>>

Handle(s) ==
    \/ CheckOngoing(s) \/ Build(s) \/ CreateExperiment(s) \/ RampFirst(s) \/ ConcludeFirst(s)
    \/ PutOverrides(s) \/ RampRelease(s) \/ ConcludeRelease(s)
    \/ ReadStatus(s) \/ DiscardRelease(s) \/ Fault(s)

(* The release page, on what it last saw of a release, and the command     *)
(* line tool.                                                              *)
Send(r) == \E s \in Slots : server[s].st = "free" /\ Goto(s, r)

ClientSends ==
    /\ spent < MaxSpent
    /\ spent' = spent + 1
    /\ \/ \E t \in Targets, b \in Bodies :
            \/ Send([Free EXCEPT !.op = "create", !.st = "check", !.target = t, !.body = b])
            \/ \E i \in 1 .. Created :
                 Send([Free EXCEPT !.op = "update", !.st = "build", !.id = i, !.target = t, !.body = b])
       \/ \E i \in 1 .. Created :
            \/ \E p \in Percents :
                 Send([Free EXCEPT !.op = "ramp", !.st = "ramp", !.id = i, !.traffic = p])
            \/ \E c \in {"control", "new"} :
                 Send([Free EXCEPT !.op = "conclude", !.st = "conclude", !.id = i, !.chosen = c])
            \/ Send([Free EXCEPT !.op = "discard", !.st = "status", !.id = i])
    /\ UNCHANGED <<superposition, form>>

----------------------------------------------------------------------------
(* The wizard                                                              *)

PackageFiles(p) == IF p = NoPackage THEN {} ELSE FilesOf[p]
FormStays == UNCHANGED <<superposition, server, spent>>

(* Editing a release not yet started, and cloning one, begin with what it  *)
(* holds, but with no package until it is fetched.                         *)
OpenForm ==
    /\ form.step = "closed"
    /\ spent + FormCost <= MaxSpent
    /\ spent' = spent + FormCost
    /\ \/ form' = [Closed EXCEPT !.step = "package"]
       \/ \E i \in 1 .. Created, mode \in {"edit", "clone"} :
            /\ mode = "edit" => exps[i].st = "created"
            /\ LET c == exps[i].new IN
                 form' = [Closed EXCEPT !.step = "package", !.mode = mode,
                                        !.id = IF mode = "edit" THEN i ELSE 0,
                                        !.initial = c.pkg, !.lazy = c.lazy, !.res = c.res]
    /\ UNCHANGED <<superposition, server>>

CloseForm ==
    /\ form.step \notin {"closed", "sent"}
    /\ form' = Closed
    /\ FormStays

PickPackage ==
    /\ form.step = "package"
    /\ \E p \in Packages \cup {NoPackage} : p # form.pkg /\ form' = [form EXCEPT !.pkg = p]
    /\ FormStays

(* A variant: the files shown first stay.                                  *)
ShownFirst(f) == IF f.files = {} THEN PackageFiles(f.pkg) ELSE f.files

(* The effect of the fifth step: the files of the package, each with the   *)
(* priority it had, or its path had in the release opened; else important. *)
Shown(f) == PackageFiles(f.pkg)
Prioritised(f) ==
    [f EXCEPT !.files = Shown(f), !.late = FALSE,
              !.lazy = {x \in Shown(f) : \/ x \in f.lazy
                                         \/ f.files = {} /\ PathOf[x] \in PathsIn(f.lazy)}]

(* A variant: a resource is dropped only when it is a file of the package. *)
WithoutFiles(f) == f.res \ PackageFiles(f.pkg)

(* The effect of the sixth: no resource with the path of a file shown, or  *)
(* of a file of the package.                                               *)
WithoutPaths(f) ==
    {r \in f.res : PathOf[r] \notin PathsIn(f.files \cup PackageFiles(f.pkg))}
Stripped(f) == [f EXCEPT !.res = WithoutPaths(f)]

NextStep ==
    /\ \/ form.step = "package" /\ form.pkg # NoPackage
          /\ form' = Prioritised([form EXCEPT !.step = "files"])
       \/ form.step = "files" /\ form' = Stripped([form EXCEPT !.step = "resources"])
    /\ FormStays

PreviousStep ==
    /\ \/ form.step = "resources" /\ form' = Prioritised([form EXCEPT !.step = "files"])
       \/ form.step = "files" /\ form' = [form EXCEPT !.step = "package"]
    /\ FormStays

(* The package asked for when the wizard opened arrives, whatever was      *)
(* picked meanwhile.                                                       *)
InitialPackage ==
    LET got == [form EXCEPT !.pkg = form.initial, !.initial = NoPackage] IN
    /\ form.initial # NoPackage
    /\ form' = CASE form.step = "files" -> Prioritised(got)
                  [] form.step = "package" -> got
                  [] OTHER -> Stripped([got EXCEPT !.late = @ \/ form.pkg # form.initial])
    /\ FormStays

SetPriority ==
    /\ form.step = "files"
    /\ \E x \in form.files :
         form' = [form EXCEPT !.lazy = IF x \in @ THEN @ \ {x} ELSE @ \cup {x}]
    /\ FormStays

(* The chooser of files drops those with the path of one in the package.   *)
ChooseResources ==
    /\ form.step = "resources"
    /\ \E r \in Extras \ form.res : form' = Stripped([form EXCEPT !.res = @ \cup {r}])
    /\ FormStays

(* The body is composed once, when the dialog opens: package_id only when  *)
(* there is one, and always both lists. Only the first release cannot be   *)
(* targeted, and an edit keeps its target.                                 *)
TargetsOffered ==
    IF form.mode = "edit" THEN {exps[form.id].target}
    ELSE IF Created = 0 /\ ~contexts[Broad].set THEN {Broad} ELSE Targets

OpenDialog ==
    /\ form.step = "resources"
    /\ \E t \in TargetsOffered :
         form' = [form EXCEPT !.step = "confirm", !.target = t,
             !.body = [pkg |-> form.pkg, block |-> TRUE,
                       imp |-> form.files \ form.lazy, lazy |-> form.lazy, res |-> form.res,
                       made |-> IF form.late THEN "late" ELSE "form"]]
    /\ FormStays

CloseDialog ==
    /\ form.step = "confirm"
    /\ form' = [form EXCEPT !.step = "resources", !.target = Broad, !.body = NoBody]
    /\ FormStays

Submit ==
    /\ form.step = "confirm"
    /\ LET r == [Free EXCEPT !.client = "form", !.target = form.target, !.body = form.body] IN
         IF form.mode = "edit"
         THEN Send([r EXCEPT !.op = "update", !.st = "build", !.id = form.id])
         ELSE Send([r EXCEPT !.op = "create", !.st = "check"])
    /\ form' = [form EXCEPT !.step = "sent"]
    /\ UNCHANGED <<superposition, spent>>

(* A refusal leaves the dialog open, to try again.                         *)
TakeAnswer ==
    \E s \in Slots :
    /\ server[s].st \in {"done", "failed"}
    /\ form' = IF server[s].st = "done" THEN Closed ELSE [form EXCEPT !.step = "confirm"]
    /\ Goto(s, Free)
    /\ UNCHANGED <<superposition, spent>>

FormStep ==
    \/ OpenForm \/ CloseForm \/ PickPackage \/ NextStep \/ PreviousStep \/ InitialPackage
    \/ SetPriority \/ ChooseResources \/ OpenDialog \/ CloseDialog \/ Submit \/ TakeAnswer

Next == (\E s \in Slots : Handle(s)) \/ ClientSends \/ FormStep
Spec == Init /\ [][Next]_vars

----------------------------------------------------------------------------
(* Whatever requests, of whatever clients, led to what a user is served:   *)
(* the lists name files of the package served, no file is also a resource, *)
(* and a release of the wizard has not even a resource with the path of    *)
(* one (serve_release takes the file of a list by its path).               *)
ServedSplitsPackage == \A t \in Targets : \A c \in Live(t) : Splits(c)

(* A release of the wizard gives every file of its package one priority:   *)
(* however the steps were gone through, packages picked and answers taken, *)
(* except when the package it was opened with arrived after the files of   *)
(* another were split.                                                     *)
SplitsComplete == \A t \in Targets : \A c \in Live(t) : c.made = "form" => Complete(c)

(* check_non_concluded_releases: a target has two ongoing releases only if *)
(* the check of the later one came before the creation of the earlier.     *)
OngoingDistinct ==
    \A i, j \in Ids :
        i < j /\ Ongoing(i) /\ Ongoing(j) /\ exps[i].target = exps[j].target
            => exps[j].checked < i

(* The release page's Revert gives users of a target back what they were   *)
(* served before the release, when it was last built for its own target    *)
(* and nothing was concluded since.                                        *)
FreshChoice(i, chosen) ==
    /\ exps[i].chosen = "none" /\ exps'[i].chosen = chosen
    /\ exps[i].of = exps[i].target
    /\ exps[i].seen = Concluded
RevertRestores ==
    [][\A i \in Ids : FreshChoice(i, "control")
          => Resolved(exps[i].target)' = Resolved(exps[i].target)]_vars

(* A release without a package, concluded, keeps its target on the package *)
(* it was on, under the same condition.                                    *)
PatchKeepsPackage ==
    [][\A i \in Ids : FreshChoice(i, "new") /\ exps[i].new.made = "patch"
          => Resolved(exps[i].target).pkg' = Resolved(exps[i].target).pkg]_vars

(* "A first release is served to everyone": it is concluded by the time    *)
(* its creation is answered.                                               *)
FirstReleaseServed ==
    \A i \in Ids : exps[i].first /\ exps[i].settled
        => Served(exps[i].target) = {exps[i].new}

=============================================================================
