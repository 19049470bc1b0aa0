-------------------------- MODULE MCRuntimeLifecycle --------------------------
(* Small instances of RuntimeLifecycle. *)
EXTENDS RuntimeLifecycle, TLC

UserSymmetry == Permutations(Users)
=============================================================================
