----------------------------- MODULE MCContexts -----------------------------
(* Instances of Contexts for TLC.                                          *)
EXTENDS Contexts, TLC

ThreadSymmetry == Permutations(Threads)
=============================================================================
