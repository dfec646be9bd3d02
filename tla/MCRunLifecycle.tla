--------------------------- MODULE MCRunLifecycle ----------------------------
(***************************************************************************)
(* RunLifecycle on small instances.  Runs are interchangeable: they are     *)
(* compared for equality only, so permuting them is a symmetry of the       *)
(* safety runs (not used with liveness properties).                         *)
(***************************************************************************)
EXTENDS RunLifecycle, TLC

RunSymmetry == Permutations(Runs)
=============================================================================
