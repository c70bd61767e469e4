---------------------------- MODULE MCRelease ----------------------------
(* Package 1 holds two files, package 2 one of them; a has two versions.   *)
EXTENDS Release, Cohorts, TLC

CONSTANTS a, a2, b, broad, narrow

MCFilesOf == <<{a, b}, {b}>>
MCPathOf == [f \in Files |-> IF f = a2 THEN a ELSE f]

(* A new application; one with a release for everyone and a narrow one;    *)
(* one with a release for everyone and the next just created.              *)
Left(p, i, l) == [set |-> TRUE, cfg |-> [pkg |-> p, imp |-> i, lazy |-> l, res |-> {}, made |-> "api"]]
Never == [set |-> FALSE, cfg |-> Default]
Next2 == [pkg |-> 2, imp |-> {b}, lazy |-> {}, res |-> {a2}, made |-> "api"]
MCPasts == {
    [contexts |-> [t \in Targets |-> Never], ongoing |-> NoExperiment],
    [contexts |-> [t \in Targets |-> IF t = Broad THEN Left(1, {b}, {a}) ELSE Left(2, {}, {b})],
     ongoing  |-> NoExperiment],
    [contexts |-> [t \in Targets |-> IF t = Broad THEN Left(1, {b}, {a}) ELSE Never],
     ongoing  |-> [NoExperiment EXCEPT !.st = "created", !.control = Left(1, {b}, {a}).cfg,
                                       !.new = Next2, !.variant = 2, !.settled = TRUE]]}

MCSymmetry == Permutations(Slots)

(* A package whose lazy list is left out, and another important list over  *)
(* the package in use.                                                     *)
Req(p, block, i, l, r) == [pkg |-> p, block |-> block, imp |-> i, lazy |-> l, res |-> r,
                           made |-> IF p = NoPackage THEN "patch" ELSE "api"]
MCBodies == {Req(2, TRUE, {b}, None, {a2}), Req(NoPackage, TRUE, {b}, None, None)}

----------------------------------------------------------------------------
(* The dashboard has one page open: the wizard with the release pages, or  *)
(* the cohorts page. They share no state, so a behaviour takes the steps   *)
(* of one of them.                                                         *)
CONSTANTS c1, g, h, k, dim1, dim2
VARIABLE open

(* As versions 2, 9 and 10, as strings 10, 2 and 9.                        *)
MCRank == [o \in Kinds |-> IF o = "version" THEN <<1, 2, 3>> ELSE <<2, 3, 1>>]
Adds(op, n, cond, m) == [op |-> op, name |-> n, cond |-> cond, members |-> m]
From(op, o, v) == [op |-> op, kind |-> o, val |-> v]
MCAdditions == {Adds("checkpoint", k, From("gt", "string", 3), {}),
                Adds("checkpoint", c1, From("ge", "version", 2), {}),
                Adds("group", k, From("ge", "version", 1), {1})}
MCApiMaps == {(g :> 0)}

(* Two groups over a checkpoint, beside a checkpoint with the name of one. *)
MCStarts ==
    LET one == AddGroup(AddGroup(AddCheckpoint(NewDimension, c1, From("ge", "version", 3)),
                                 h, {1, 2}), g, {2})
    IN  {[d \in Dims |-> IF d = dim1 THEN one
                         ELSE AddCheckpoint(NewDimension, g, From("gt", "version", 1))]}

(* Three groups are left in the order asked for, whichever is taken first; *)
(* four need not be.                                                       *)
Asked(order) == [n \in Range(order) |-> CHOOSE i \in 0 .. 9 : order[i + 1] = n]
Kept(n) == \A was, order \in SetToSeqs(1 .. n) : Reordered(was, Asked(order)) = {order}
ASSUME Kept(2) /\ Kept(3) /\ ~Kept(4)

DashboardInit ==
    \/ open = "releases" /\ Init
       /\ schemas = <<>> /\ handled = <<>> /\ page = <<>> /\ loads = {} /\ changes = 0 /\ history = <<>>
    \/ open = "cohorts" /\ CohortsInit
       /\ exps = [i \in Ids |-> NoExperiment] /\ contexts = [t \in Targets |-> Never]
       /\ server = [s \in Slots |-> Free] /\ form = Closed /\ spent = 0

DashboardNext ==
    /\ UNCHANGED open
    /\ \/ open = "releases" /\ Next /\ UNCHANGED cohortVars
       \/ open = "cohorts" /\ CohortsNext /\ UNCHANGED vars

DashboardSpec == DashboardInit /\ [][DashboardNext]_<<open, vars, cohortVars>>
============================================================================
