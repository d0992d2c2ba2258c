---------------------------- MODULE MCThreadPool ----------------------------
(* ThreadPool with a few workers and callers. *)
EXTENDS ThreadPool, TLC

JobSymmetry == Permutations(Jobs)
=============================================================================
