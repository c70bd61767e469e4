------------------------------ MODULE Cohorts ------------------------------
(***************************************************************************)
(* Cohorts: the handlers of the server that add a checkpoint or a group to *)
(* a cohort dimension and reorder its groups, and the page of the dashboard*)
(* that manages them.                                                      *)
(*                                                                         *)
(* A cohort dimension is a schema kept by Superposition: a list of names,  *)
(* in which the first whose definition a user satisfies is the user's      *)
(* cohort. Every handler reads the schema in one call and replaces it in   *)
(* another. The page keeps what it loaded of the dimension last answered,  *)
(* which need not be the one selected.                                     *)
(***************************************************************************)
EXTENDS Integers, FiniteSets, Sequences, SequencesExt

CONSTANTS
    Dims, First,  \* cohort dimensions, and the one listed first
    Names,        \* the names cohorts are given
    Otherwise,    \* the cohort of all others
    DefaultKey,   \* the name that holds the place of the first cohort
    Values,       \* what the standard dimension may be
    Kinds, Rank,  \* two orders of them: as versions and as strings
    Additions,    \* the checkpoints and groups that are asked for
    ApiMaps,      \* the priorities clients other than the page ask for
    Starts,       \* what the dimensions may be to begin with
    Workers,      \* requests the server can be running
    MaxChanges,   \* how much the page and other clients may do
    CallsMayFail  \* whether calls to Superposition may

(* A threshold, of a checkpoint or against an older one.                   *)
Condition == [op : {"gt", "ge", "lt", "le"}, kind : Kinds, val : Values]
Threshold == {c \in Condition : c.op \in {"gt", "ge"}}

ASSUME ConstantsAssumption ==
    /\ First \in Dims /\ Otherwise # DefaultKey /\ {Otherwise, DefaultKey} \cap Names = {}
    /\ Rank \in [Kinds -> [Values -> Nat]]
    /\ Additions \subseteq [op : {"checkpoint", "group"}, name : Names,
                            cond : Threshold, members : SUBSET Values]
    /\ \A map \in ApiMaps : map \in [DOMAIN map -> Int]

VARIABLES
    schemas,   \* of each dimension
    handled,   \* the requests being handled
    page,      \* the cohorts page
    loads,     \* what it asked for and was not given yet
    changes,   \* what was done
    history    \* of each dimension: an update was lost; it was given an order
               \* not of its own

cohortVars == <<schemas, handled, page, loads, changes, history>>

----------------------------------------------------------------------------
(* Definitions. The nested "and" of a checkpoint is the set of its         *)
(* conditions; the default cohort equals a key nobody has.                 *)
Group(members) == [is |-> "in", members |-> members, conds |-> {}]
Checkpoint(conds) == [is |-> "range", members |-> {}, conds |-> conds]
Nobody == [is |-> "eq", members |-> {}, conds |-> {}]

Holds(c, x) ==
    LET at == Rank[c.kind][x]  bound == Rank[c.kind][c.val] IN
    CASE c.op = "gt" -> at > bound [] c.op = "ge" -> at >= bound
      [] c.op = "lt" -> at < bound [] c.op = "le" -> at <= bound

Satisfies(def, x) ==
    CASE def.is = "in" -> x \in def.members
      [] def.is = "range" -> \A c \in def.conds : Holds(c, x)
      [] OTHER -> FALSE

Define(defs, n, def) == [m \in DOMAIN defs \cup {n} |-> IF m = n THEN def ELSE defs[m]]

(* A schema. Its checkpoints in the order they were created, and whether a *)
(* name that is no group was ever moved, are history.                      *)
NewDimension == [enum |-> <<DefaultKey, Otherwise>>, defs |-> [n \in {DefaultKey} |-> Nobody],
                 created |-> <<>>, moved |-> FALSE]

Index(seq, n) == CHOOSE i \in DOMAIN seq : seq[i] = n

(* Nothing lists the default a second time.                                *)
WithoutDefault(sch) ==
    IF DefaultKey \notin ToSet(sch.enum) THEN sch
    ELSE [sch EXCEPT !.enum = RemoveAt(@, Index(@, DefaultKey)),
                     !.defs = [n \in DOMAIN @ \ {DefaultKey} |-> @[n]]]

(* Where the groups and the checkpoints are.                               *)
IsGroup(sch, n) == n \in DOMAIN sch.defs /\ sch.defs[n].is = "in"
Groups(sch) == {i \in DOMAIN sch.enum : IsGroup(sch, sch.enum[i])}
Checkpoints(sch) ==
    {i \in DOMAIN sch.enum : sch.enum[i] \in DOMAIN sch.defs} \ Groups(sch)

(* A variant: the bound repeats the operator of the new checkpoint.        *)
SameSide(c) == [c EXCEPT !.op = IF @ = "gt" THEN "lt" ELSE "le"]

(* What the users of a new checkpoint do not satisfy, in its own order.    *)
Complement(c) == [c EXCEPT !.op = IF @ = "gt" THEN "le" ELSE "lt"]

(* create_cohort_checkpoint: after the last group; the first checkpoint    *)
(* there was is bounded by it.                                             *)
AddCheckpoint(old, name, c) ==
    LET sch == WithoutDefault(old)
        at == IF Groups(sch) = {} THEN 1 ELSE Max(Groups(sch)) + 1
        newest == sch.enum[Min(Checkpoints(sch))]
        bounded == Checkpoint(sch.defs[newest].conds \cup {Complement(c)})
        kept == IF Checkpoints(sch) = {} THEN sch.defs ELSE [sch.defs EXCEPT ![newest] = bounded]
    IN  [sch EXCEPT !.enum = InsertAt(@, at, name),
                    !.defs = Define(kept, name, Checkpoint({c})),
                    !.created = Append(@, [name |-> name, cond |-> c])]

(* create_cohort_group: before all others.                                 *)
AddGroup(old, name, members) ==
    LET sch == WithoutDefault(old) IN
    [sch EXCEPT !.enum = <<name>> \o @, !.defs = Define(@, name, Group(members))]

(* update_cohort_priority takes the entries in the order of a hash map:    *)
(* each name is removed and inserted at the index asked for.               *)
Put(enum, n, to) ==
    LET rest == RemoveAt(enum, Index(enum, n))
        at == IF to < Len(rest) THEN to ELSE Len(rest)
    IN  InsertAt(rest, at + 1, n)
Named(enum, map) == DOMAIN map \cap ToSet(enum)
Reordered(enum, map) ==
    LET after[S \in SUBSET Named(enum, map)] ==
            IF S = {} THEN {enum}
            ELSE UNION {{Put(e, n, map[n]) : e \in after[S \ {n}]} : n \in S}
    IN  after[Named(enum, map)]
WithPriorities(sch, map) ==
    {[sch EXCEPT !.enum = e, !.moved = @ \/ \E n \in Named(sch.enum, map) : ~IsGroup(sch, n)] :
        e \in Reordered(sch.enum, map)}

(* get_cohort_priority: the index of each group, from 0.                   *)
PriorityOf(sch) ==
    [n \in {m \in DOMAIN sch.defs : IsGroup(sch, m)} |-> Index(sch.enum, n) - 1]

----------------------------------------------------------------------------
(* Requests and the page                                                   *)

(* What the dimensions may be left as, when every checkpoint stayed: groups*)
(* over checkpoints, the newest first and each bounded by the next.        *)
Arranged(sch, n) ==
    LET size == Len(sch.created) IN
    /\ Len(sch.enum) = n + size + 1
    /\ \A i \in 1 .. n : IsGroup(sch, sch.enum[i])
    /\ \A j \in 1 .. size :
         LET bound == IF j = size THEN {} ELSE {Complement(sch.created[j + 1].cond)} IN
         /\ sch.enum[n + size + 1 - j] = sch.created[j].name
         /\ sch.created[j].name \in DOMAIN sch.defs
         /\ sch.defs[sch.created[j].name] = Checkpoint({sch.created[j].cond} \cup bound)
         /\ \A l \in 1 .. size : sch.created[j].name = sch.created[l].name => j = l
    /\ sch.enum[n + size + 1] = Otherwise /\ Otherwise \notin DOMAIN sch.defs

Listed == Names \cup {Otherwise, DefaultKey}
IsSchema(sch) ==
    /\ sch = [enum |-> sch.enum, defs |-> sch.defs, created |-> sch.created, moved |-> sch.moved]
    /\ sch.enum \in Seq(Listed) /\ sch.created \in Seq([name : Names, cond : Threshold])
    /\ DOMAIN sch.defs \subseteq ToSet(sch.enum) /\ ~IsGroup(sch, DefaultKey)
    /\ sch.moved \in BOOLEAN

Proper(sch) == sch = NewDimension \/ \E n \in 0 .. Len(sch.enum) : Arranged(sch, n)

ASSUME StartsAssumption ==
    \A start \in Starts :
        /\ start = [d \in Dims |-> start[d]]
        /\ \A d \in Dims : IsSchema(start[d]) /\ ~start[d].moved /\ Proper(start[d])

NoMap == [n \in {} |-> 0]
NoCondition == CHOOSE c \in Condition : TRUE
Idle == [st |-> "free", op |-> "none", client |-> "other", dim |-> First,
         name |-> Otherwise, cond |-> NoCondition, members |-> {}, map |-> NoMap, from |-> {},
         old |-> NewDimension]

(* What a new page asks for: the schema and the priorities.                *)
Load(op, d) == [op |-> op, dim |-> d, st |-> "asked", map |-> NoMap]
Both(d) == {Load("schema", d), Load("priority", d)}

CohortsInit ==
    /\ schemas \in Starts
    /\ handled = [s \in Workers |-> Idle]
    /\ page = [dim |-> First, groups |-> NoMap, of |-> {}, map |-> NoMap, from |-> {},
               creating |-> "none"]
    /\ loads = Both(First)
    /\ changes = 0
    /\ history = [d \in Dims |-> [lost |-> FALSE, given |-> FALSE]]

Spend == changes < MaxChanges /\ changes' = changes + 1

(* The page's handlers load again what they changed: of the dimension they *)
(* were called for, whichever is selected when they are answered.          *)
Reloads(q) ==
    CASE q.op = "checkpoint" -> {Load("schema", q.dim)}
      [] q.op = "priority" -> {Load("priority", q.dim)}
      [] OTHER -> Both(q.dim)

Reply(s, ok) ==
    LET q == handled[s] IN
    /\ handled' = [handled EXCEPT ![s] = Idle]
    /\ IF q.client = "page"
       THEN /\ page' = [page EXCEPT !.creating = "none"]
            /\ loads' = IF ok THEN loads \cup Reloads(q) ELSE loads
       ELSE UNCHANGED <<page, loads>>

(* A name is taken, or an index is not one of a group's.                   *)
Refused(q, sch) ==
    IF q.op # "priority" THEN q.name \in ToSet(sch.enum)
    ELSE \E n \in DOMAIN q.map : q.map[n] \notin 0 .. Cardinality(DOMAIN PriorityOf(sch)) - 1

ReadSchema(s) ==
    LET q == handled[s]  sch == schemas[q.dim] IN
    /\ q.st = "read"
    /\ IF Refused(q, sch) THEN Reply(s, FALSE)
       ELSE /\ handled' = [handled EXCEPT ![s] = [q EXCEPT !.st = "write", !.old = sch]]
            /\ UNCHANGED <<page, loads>>
    /\ UNCHANGED <<schemas, changes, history>>

Results(q) ==
    CASE q.op = "checkpoint" -> {AddCheckpoint(q.old, q.name, q.cond)}
      [] q.op = "group" -> {AddGroup(q.old, q.name, q.members)}
      [] q.op = "priority" -> WithPriorities(q.old, q.map)

WriteSchema(s) ==
    LET q == handled[s] IN
    /\ q.st = "write"
    /\ \E sch \in Results(q) : schemas' = [schemas EXCEPT ![q.dim] = sch]
    /\ history' = [history EXCEPT ![q.dim] =
           [lost |-> @.lost \/ schemas[q.dim] # q.old,
            given |-> @.given \/ (q.op = "priority" /\ (q.client = "other" \/ q.from # {q.dim}))]]
    /\ Reply(s, TRUE)
    /\ UNCHANGED changes

CallFails(s) ==
    /\ CallsMayFail /\ handled[s].st # "free"
    /\ Reply(s, FALSE)
    /\ UNCHANGED <<schemas, changes, history>>

Accept(q) == \E s \in Workers : handled[s].st = "free" /\ handled' = [handled EXCEPT ![s] = q]

New(a, d, client) ==
    [Idle EXCEPT !.st = "read", !.op = a.op, !.client = client, !.dim = d,
                 !.name = a.name, !.cond = a.cond, !.members = a.members]

OthersChange ==
    /\ Spend
    /\ \E d \in Dims :
         \/ \E a \in Additions : Accept(New(a, d, "other"))
         \/ \E map \in ApiMaps :
              Accept([Idle EXCEPT !.st = "read", !.op = "priority", !.dim = d, !.map = map])
    /\ UNCHANGED <<schemas, page, loads, history>>

----------------------------------------------------------------------------
(* The page                                                                *)

SelectDimension ==
    /\ Spend
    /\ \E d \in Dims \ {page.dim} :
         /\ page' = [page EXCEPT !.dim = d]
         /\ loads' = loads \cup Both(d)
    /\ UNCHANGED <<schemas, handled, history>>

(* The server answers, and the answer arrives, for whichever dimension is  *)
(* selected by then. One that fails leaves what was there, as one that     *)
(* never arrives. Of a schema the page shows the groups, in their order.   *)
AnswerLoad ==
    /\ \E l \in loads :
         /\ l.st = "asked"
         /\ loads' = (loads \ {l}) \cup
              {[l EXCEPT !.st = "answered", !.map = PriorityOf(schemas[l.dim])]}
    /\ UNCHANGED <<schemas, handled, page, changes, history>>

TakeLoad ==
    /\ \E l \in loads :
         /\ l.st = "answered"
         /\ loads' = loads \ {l}
         /\ page' = IF l.op = "schema" THEN [page EXCEPT !.groups = l.map, !.of = {l.dim}]
                    ELSE [page EXCEPT !.map = l.map, !.from = {l.dim}]
    /\ UNCHANGED <<schemas, handled, changes, history>>

(* The forms of a checkpoint and of a group.                               *)
CreateCohort ==
    /\ Spend
    /\ \E a \in Additions :
         /\ page.creating # a.op
         /\ Accept(New(a, page.dim, "page"))
         /\ page' = [page EXCEPT !.creating = a.op]
    /\ UNCHANGED <<schemas, loads, history>>

(* The groups shown, by priority, and one of them dropped on another.      *)
Priority(n) == IF n \in DOMAIN page.map THEN page.map[n] ELSE 0
Before(m, n) ==
    \/ Priority(m) < Priority(n)
    \/ Priority(m) = Priority(n) /\ page.groups[m] < page.groups[n]
SortedGroups ==
    {order \in SetToSeqs(DOMAIN page.groups) :
        \A i, j \in DOMAIN order : i < j => Before(order[i], order[j])}

DropGroup ==
    /\ \E sorted \in SortedGroups : \E i, j \in DOMAIN sorted :
         /\ i # j
         /\ LET order == InsertAt(RemoveAt(sorted, i), j, sorted[i]) IN
              page' = [page EXCEPT !.map = [n \in ToSet(order) |-> Index(order, n) - 1],
                                   !.from = page.of]
    /\ UNCHANGED <<schemas, handled, loads, changes, history>>

SaveOrder ==
    /\ page.groups # NoMap
    /\ page.creating # "priority"
    /\ Spend
    /\ Accept([Idle EXCEPT !.st = "read", !.op = "priority", !.client = "page", !.dim = page.dim,
                         !.map = page.map, !.from = page.from])
    /\ page' = [page EXCEPT !.creating = "priority"]
    /\ UNCHANGED <<schemas, loads, history>>

HandleChange(s) == ReadSchema(s) \/ WriteSchema(s) \/ CallFails(s)
PageStep ==
    \/ SelectDimension \/ AnswerLoad \/ TakeLoad \/ CreateCohort \/ DropGroup \/ SaveOrder

CohortsNext == (\E s \in Workers : HandleChange(s)) \/ OthersChange \/ PageStep
CohortsSpec == CohortsInit /\ [][CohortsNext]_cohortVars

----------------------------------------------------------------------------
(* Superposition: a user's cohort is the first satisfied.                  *)
CohortOf(sch, x) ==
    LET hits == {i \in DOMAIN sch.enum :
                    sch.enum[i] \in DOMAIN sch.defs /\ Satisfies(sch.defs[sch.enum[i]], x)}
    IN  IF hits = {} THEN Otherwise ELSE sch.enum[Min(hits)]

(* What the documentation promises: a group the user is a member of, the   *)
(* upper one first; else the newest checkpoint the user reaches.           *)
Promised(sch, x) ==
    LET member == {i \in Groups(sch) : x \in sch.defs[sch.enum[i]].members}
        reached == {j \in DOMAIN sch.created : Holds(sch.created[j].cond, x)}
    IN  CASE member # {} -> sch.enum[Min(member)]
          [] member = {} /\ reached # {} -> sch.created[Max(reached)].name
          [] OTHER -> Otherwise

(* The bounds put on older checkpoints, the places new cohorts are given   *)
(* and the moves of groups never change whose cohort a user is in, however *)
(* the thresholds were ordered and compared and whichever updates were     *)
(* lost, unless a checkpoint was moved as if it were a group.              *)
UsersAsPromised ==
    \A d \in DOMAIN schemas :
        ~schemas[d].moved => \A x \in Values : CohortOf(schemas[d], x) = Promised(schemas[d], x)

(* And that takes a client that names one, an order of the page that is of *)
(* another dimension than the one selected, or an update that was lost.    *)
CheckpointsStay ==
    \A d \in DOMAIN schemas : schemas[d].moved => history[d].lost \/ history[d].given

(* Cohorts are what the documentation says of them.                        *)
CohortsSafe == UsersAsPromised /\ CheckpointsStay

=============================================================================
