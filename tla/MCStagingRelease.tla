-------------------------- MODULE MCStagingRelease --------------------------
(* The staging release for TLC; pull requests are interchangeable. *)
EXTENDS StagingRelease, TLC

Symmetry == Permutations(PRs)
=============================================================================
