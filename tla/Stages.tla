-------------------------------- MODULE Stages --------------------------------
(***************************************************************************)
(* The stages of an Android update task, as the ordinals the code compares *)
(* them by, and the three of them a caller of await waits for in turn.     *)
(***************************************************************************)
EXTENDS Naturals

INITIALIZING        == 0
FETCHING_RC         == 1
DOWNLOADING_UPDATES == 2
INSTALLING          == 3
LAZY_DOWNLOADING    == 4
FINISHED            == 5

Stage == INITIALIZING .. FINISHED
AwaitedStage == {FETCHING_RC, DOWNLOADING_UPDATES, INSTALLING}

\* The stage onComplete moves to when it is told that a stage is over.
StageAfter(completed) == IF completed = FINISHED THEN FINISHED ELSE completed + 1

=============================================================================
