-------------------------- MODULE MCBuildPipeline --------------------------
(***************************************************************************)
(* Instances of BuildPipeline: requests are model values, and release 1 is *)
(* 0.0.0, for which there are no files.                                    *)
(***************************************************************************)
EXTENDS BuildPipeline, TLC

ThreeReleases == {1, 2, 3}
TwoReleases == {2, 3}
LastRelease == {3}
RequestSymmetry == Permutations(Requests)
============================================================================
