------------------------------ MODULE Registry ------------------------------
(***************************************************************************)
(* What the file and package tables promise to whoever publishes an        *)
(* update: a published file is never replaced or withdrawn, and a package  *)
(* names published files only, for ever the same ones.                     *)
(*                                                                         *)
(* This is the abstract view of Publish: no requests, no tags, no local    *)
(* records, no cache and no failures.                                      *)
(***************************************************************************)
CONSTANTS
    Paths,     \* paths of files inside a bundle
    Versions,  \* of a file
    Contents,  \* what a file may hold
    None       \* no content: the version is not published

VARIABLES
    published,  \* the content of each version of each path
    packaged    \* the packages: a version of its own and a version of each path

regVars == <<published, packaged>>

RegInit ==
    /\ published = [p \in Paths |-> [v \in Versions |-> None]]
    /\ packaged = {}

(* A version that was not published gets its content.                      *)
PublishFile(p, v) ==
    /\ published[p][v] = None
    /\ published'[p][v] \in Contents
    /\ published' = [published EXCEPT ![p][v] = published'[p][v]]
    /\ UNCHANGED packaged

(* A package gets a number no other has and published files.               *)
CreatePackage ==
    /\ \E pkg \in packaged' \ packaged :
        /\ packaged' = packaged \cup {pkg}
        /\ \A other \in packaged : other.version # pkg.version
        /\ \A p \in Paths : published[p][pkg.files[p]] \in Contents
    /\ UNCHANGED published

RegNext == CreatePackage \/ \E p \in Paths, v \in Versions : PublishFile(p, v)

RegSpec == RegInit /\ [][RegNext]_regVars
============================================================================
