---------------------------- MODULE MCHybridCache ----------------------------
(***************************************************************************)
(* Instances of HybridCache for TLC.  The processes are interchangeable:   *)
(* the runs that check only safety use them as a symmetry set.             *)
(***************************************************************************)
EXTENDS HybridCache, TLC

CONSTANTS p1, p2   \* two processes

ProcessSymmetry == Permutations({p1, p2})
=============================================================================
