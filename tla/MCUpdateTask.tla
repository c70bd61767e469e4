---------------------------- MODULE MCUpdateTask ----------------------------
(* Small instances of UpdateTask for TLC. *)
EXTENDS UpdateTask, TLC

CONSTANTS w1, w2, r1

OneWaiter == {w1}
TwoWaiters == {w1, w2}
OneResource == {r1}
\* One that is new in every part, with or without lazy files; one that only has
\* new resources; one for an application that has nothing installed.
SomeReleases ==
    {f \in Fetched :
        \/ f.hasLocal /\ f.config /\ f.pkg /\ f.localLazy
        \/ f.hasLocal /\ ~f.config /\ ~f.pkg /\ f.localLazy
        \/ ~f.hasLocal /\ ~f.lazy}

\* One with a new package without lazy files and new resources.
PlainRelease == {f \in Fetched : f.hasLocal /\ ~f.config /\ f.pkg /\ ~f.lazy /\ ~f.localLazy}

WaiterSymmetry == Permutations(Waiters)

=============================================================================
