--------------------------- MODULE MCRunLifecycle ---------------------------
(***************************************************************************)
(* Instances of RunLifecycle.  Liveness runs use no symmetry.              *)
(***************************************************************************)
EXTENDS RunLifecycle, TLC

Interchangeable == Permutations(Runs \ Accounts)
=============================================================================
