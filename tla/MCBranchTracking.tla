-------------------------- MODULE MCBranchTracking --------------------------
(* Instances of BranchTracking for TLC.  Revisions are interchangeable.    *)
EXTENDS BranchTracking, TLC

RevisionSymmetry == Permutations(Revisions)
=============================================================================
