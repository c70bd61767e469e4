------------------------------ MODULE StageGate ------------------------------
(***************************************************************************)
(* What UpdateTask.await promises its callers, without the wait queue.     *)
(*                                                                         *)
(* An update task passes through the stages of UpdateTask.Stage in order.  *)
(* A caller of await passes three gates, one per awaited stage: a gate     *)
(* lets the caller through once its stage is over, or, for the download    *)
(* gate, once the package itself is there; a caller whose timer runs out   *)
(* at a gate whose stage is not over gives up.                             *)
(***************************************************************************)
EXTENDS Naturals, Stages

CONSTANT Waiters    \* the callers of await on one task

VARIABLES
    stage,      \* UpdateTask.currentStage, as its ordinal
    pkgDone,    \* packageUpdate?.isDone == true
    gate        \* the gate each caller stands at, or how it left

gateVars == <<stage, pkgDone, gate>>

\* A caller has not arrived, stands at a gate, passed all of them, or gave up
\* at one.
GateState ==
    [at : {"outside", "passed"}] \cup [at : {"waiting", "expired"}, s : AwaitedStage]

Outside    == [at |-> "outside"]
Passed     == [at |-> "passed"]
Waiting(s) == [at |-> "waiting", s |-> s]
Expired(s) == [at |-> "expired", s |-> s]

GateInit ==
    /\ stage = INITIALIZING
    /\ pkgDone = FALSE
    /\ gate = [w \in Waiters |-> Outside]

-----------------------------------------------------------------------------
\* The task starts, or a stage ends. A failed fetch of the release config ends
\* all stages up to INSTALLING at once.
Advance ==
    /\ stage # FINISHED
    /\ \/ stage' = stage + 1
       \/ stage = FETCHING_RC /\ stage' = LAZY_DOWNLOADING
    /\ UNCHANGED <<pkgDone, gate>>

PackageArrives ==
    /\ stage = DOWNLOADING_UPDATES /\ ~pkgDone
    /\ pkgDone' = TRUE
    /\ UNCHANGED <<stage, gate>>

Arrive(w) ==
    /\ gate[w] = Outside
    /\ gate' = [gate EXCEPT ![w] = Waiting(FETCHING_RC)]
    /\ UNCHANGED <<stage, pkgDone>>

Pass(w) ==
    \E s \in AwaitedStage :
        /\ gate[w] = Waiting(s)
        /\ stage > s \/ (s = DOWNLOADING_UPDATES /\ pkgDone)
        /\ gate' = [gate EXCEPT ![w] =
                       IF s = INSTALLING THEN Passed ELSE Waiting(s + 1)]
        /\ UNCHANGED <<stage, pkgDone>>

\* Only a caller whose stage is not over may give up.
Expire(w) ==
    \E s \in AwaitedStage :
        /\ gate[w] = Waiting(s)
        /\ stage <= s
        /\ gate' = [gate EXCEPT ![w] = Expired(s)]
        /\ UNCHANGED <<stage, pkgDone>>

GateNext ==
    \/ Advance \/ PackageArrives
    \/ \E w \in Waiters : Arrive(w) \/ Pass(w) \/ Expire(w)

GateSpec == GateInit /\ [][GateNext]_gateVars

=============================================================================
