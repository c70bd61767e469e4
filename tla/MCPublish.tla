----------------------------- MODULE MCPublish -----------------------------
(***************************************************************************)
(* An instance of Publish: both platforms, a bundle of one asset and no    *)
(* index, two contents, one tag beside none.                               *)
(***************************************************************************)
EXTENDS Publish, TLC

CONSTANTS asset
OneAsset == <<asset>>
Symmetry ==
    Permutations(Slots) \cup Permutations(Contents)
============================================================================
