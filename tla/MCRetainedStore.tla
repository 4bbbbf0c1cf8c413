-------------------------- MODULE MCRetainedStore --------------------------
(* Values of the constants of RetainedStore for TLC.                        *)
EXTENDS RetainedStore, TLC

CONSTANTS r1, r2, r3, i1

\* Run ids and report ids are random: nothing but their equality is used.
IdSymmetry == Permutations(Runs) \cup Permutations(Reports)
=============================================================================
