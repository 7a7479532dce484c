------------------------------ MODULE MCBridge ------------------------------
(* Instances of Bridge for TLC.                                            *)
EXTENDS Bridge, TLC

ThreadSymmetry == Permutations(Threads)
=============================================================================
